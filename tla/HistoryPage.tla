---------------------------- MODULE HistoryPage ----------------------------
(***************************************************************************)
(* The history page of the frontend: a list that is fetched on mount, on   *)
(* request, and by a timer while it shows a job that is not over.  A step  *)
(* is one event with the effects of the render it causes.                  *)
(***************************************************************************)
EXTENDS Integers, Sequences, Functions, JobStore

CONSTANTS
    Null,
    Told,    \* the sentences a row may be failed with
    HistoryLimit,    \* HISTORY_LIMIT, the length of a list at most
    Loads    \* bound of the model: fetches alive at once, aborted ones included

ASSUME LoadsAssumption == Null \notin Loads

ASSUME ToldAssumption == Told \subseteq Sentences

ASSUME LimitAssumption == HistoryLimit \in Nat \ {0}

VARIABLES
    newest,    \* the rows ORDER BY created_at DESC LIMIT finds, oldest first
    load,      \* the fetch of the effect that is installed; Null off the page
    fetch,     \* fetch[n]: where each one stands
    answer,    \* answer[n]: the list on its way to it
    aborted,   \* those torn down
    items,     \* the list on the page; Null before the first
    error,     \* whether there is a sentence in the error state
    timer      \* the refresh timer is set

pageVars == <<load, fetch, answer, aborted, items, error, timer>>
rowVars == <<storeVars, newest>>
vars == <<rowVars, pageVars>>

(* What the page tells apart in a listed job. *)
Lists == [Requests -> {"absent", "unfinished", "finished"}]

ASSUME NoListAssumption == Null \notin Lists

(* The last jobs there are, each with its status. *)
ListNow == [r \in Requests |->
    IF r \notin Range(newest) THEN "absent"
    ELSE IF status[r] \in Terminal THEN "finished" ELSE "unfinished"]

Shows(list, s) == list # Null /\ \E r \in Requests : list[r] = s

HasUnfinished == Shows(items, "unfinished")

(* Every variable keeps its type. *)
HistoryTypeOK ==
    /\ StoreTypeOK
    /\ newest \in Seq(Requests) /\ Len(newest) =< HistoryLimit
    /\ load \in Loads \cup {Null}
    /\ fetch \in [Loads -> {"off", "asking", "answered"}]
    /\ answer \in [Loads -> Lists \cup {Null}]
    /\ aborted \subseteq Loads
    /\ items \in Lists \cup {Null}
    /\ {error, timer} \subseteq BOOLEAN

Init ==
    /\ StoreInit
    /\ newest = <<>>
    /\ load = Null
    /\ fetch = [n \in Loads |-> "off"]
    /\ answer = [n \in Loads |-> Null]
    /\ aborted = {}
    /\ items = Null
    /\ error = FALSE
    /\ timer = FALSE
-----------------------------------------------------------------------------
(* Mutant: the effect has no cleanup. *)
StartBeside(n) ==
    /\ fetch[n] = "off"
    /\ load' = n
    /\ fetch' = [fetch EXCEPT ![n] = "asking"]
    /\ UNCHANGED <<rowVars, answer, aborted>>

(* The cleanup of the old fetch and the start of a new one. *)
Start(n) ==
    /\ fetch[n] = "off"
    /\ load' = n
    /\ fetch' = [fetch EXCEPT ![n] = "asking"]
    /\ aborted' = aborted \cup ({load} \cap {m \in Loads : fetch[m] # "off"})
    /\ UNCHANGED <<rowVars, answer>>

Mount(n) ==
    /\ load = Null
    /\ Start(n)
    /\ UNCHANGED <<items, error, timer>>

Unmount ==
    /\ load # Null
    /\ load' = Null
    /\ aborted' = aborted \cup ({load} \cap {m \in Loads : fetch[m] # "off"})
    /\ items' = Null
    /\ error' = FALSE
    /\ timer' = FALSE
    /\ UNCHANGED <<rowVars, fetch, answer>>

(* Another reloadToken, from the button or from the timer: both effects    *)
(* run again.                                                              *)
Reload(n) ==
    /\ load # Null
    /\ Start(n)
    /\ timer' = HasUnfinished
    /\ UNCHANGED <<items, error>>

TimerFires(n) ==
    /\ timer
    /\ Reload(n)
-----------------------------------------------------------------------------
(* GET /api/inference reads the rows. *)
ListRequests(n) ==
    /\ fetch[n] = "asking"
    /\ fetch' = [fetch EXCEPT ![n] = "answered"]
    /\ answer' = [answer EXCEPT ![n] = ListNow]
    /\ UNCHANGED <<rowVars, load, aborted, items, error, timer>>

End(n) ==
    /\ fetch' = [fetch EXCEPT ![n] = "off"]
    /\ answer' = [answer EXCEPT ![n] = Null]
    /\ aborted' = aborted \ {n}
    /\ UNCHANGED <<rowVars, load>>

(* Mutant: the list is shown, whatever has become of its effect. *)
ShowAnyway(n) ==
    /\ fetch[n] = "answered"
    /\ items' = answer[n]
    /\ error' = FALSE
    /\ timer' = Shows(answer[n], "unfinished")
    /\ End(n)

(* Mutant: the timer is set after every list. *)
ShowAndRefresh(n) ==
    /\ fetch[n] = "answered"
    /\ IF n \in aborted
       THEN UNCHANGED <<items, error, timer>>
       ELSE /\ items' = answer[n]
            /\ error' = FALSE
            /\ timer' = TRUE
    /\ End(n)

(* The timer is set or cleared when hasUnfinished changes. *)
Show(n) ==
    /\ fetch[n] = "answered"
    /\ IF n \in aborted
       THEN UNCHANGED <<items, error, timer>>
       ELSE /\ items' = answer[n]
            /\ error' = FALSE
            /\ timer' = Shows(answer[n], "unfinished")
    /\ End(n)

(* An error, or the abort of an effect that is torn down. *)
LoadFails(n) ==
    /\ fetch[n] # "off"
    /\ error' = (error \/ n \notin aborted)
    /\ End(n)
    /\ UNCHANGED <<items, timer>>
-----------------------------------------------------------------------------
(* created_at is the time of the INSERT.  A list that is full loses its    *)
(* oldest job.                                                             *)
Push(r) ==
    IF Len(newest) < HistoryLimit THEN Append(newest, r) ELSE Append(Tail(newest), r)

(* The statements the backend and the workers run. *)
RowChanges(r) ==
    /\ RowWritten(r, Told)
    /\ newest' = IF RowExists(r) THEN newest ELSE Push(r)
    /\ UNCHANGED pageVars

Next ==
    \/ Unmount
    \/ \E r \in Requests : RowChanges(r)
    \/ \E n \in Loads :
          Mount(n) \/ Reload(n) \/ TimerFires(n) \/ ListRequests(n) \/ Show(n) \/ LoadFails(n)

Spec == Init /\ [][Next]_vars

(* The timer goes off, and every fetch comes to some end. *)
Fairness ==
    /\ WF_vars(\E n \in Loads : TimerFires(n))
    /\ \A n \in Loads : WF_vars(Show(n) \/ LoadFails(n))

FairSpec == Spec /\ Fairness
-----------------------------------------------------------------------------
(* A job the page has listed vanishes from it only when HISTORY_LIMIT newer *)
(* ones have pushed it off: a list asked for before a refresh never        *)
(* replaces one asked for after it (HistoryPage.tsx:27-49).                *)
ListOnlyMovesOn ==
    [][items # Null /\ items' # Null =>
          \A r \in Range(newest) : items[r] # "absent" => items'[r] # "absent"]_vars

(* "Refresh only while something is still running" (HistoryPage.tsx:52),   *)
(* and always then, whichever way list, clicks and timer interleave.       *)
RefreshesWhileUnfinished == timer <=> HasUnfinished

(* One fetch at most may still write to the page, that of the effect that  *)
(* is installed (HistoryPage.tsx:45-48).                                   *)
OneLoadAlive == \A n \in Loads : fetch[n] # "off" /\ n \notin aborted => n = load

Names(list, r) == list # Null /\ list[r] # "absent"

(* A list, on the page or on its way to it, names jobs that exist, and one *)
(* that will be shown names all that are shown now and not pushed off.     *)
ListsAreCurrent ==
    \A r \in Requests :
        /\ Names(items, r) \/ r \in Range(newest) => RowExists(r)
        /\ \A n \in Loads :
              /\ Names(answer[n], r) => RowExists(r)
              /\ /\ Names(items, r) /\ r \in Range(newest)
                 /\ fetch[n] = "answered" /\ n \notin aborted
                 => Names(answer[n], r)

(* "Loading..." is true: a page with neither list nor error has a fetch    *)
(* under way that is not torn down (HistoryPage.tsx:87).                   *)
LoadingIsUnderWay ==
    load # Null /\ items = Null /\ ~error => fetch[load] # "off" /\ load \notin aborted

(* What fetches, page and timer know of one another: the inductive form of *)
(* ListOnlyMovesOn, with the type of every variable.                       *)
HistoryInv ==
    /\ HistoryTypeOK
    /\ \A n \in Loads : fetch[n] = "answered" <=> answer[n] # Null
    /\ load = Null => items = Null
    /\ \A n \in aborted : fetch[n] # "off" /\ n # load
    /\ RefreshesWhileUnfinished
    /\ OneLoadAlive
    /\ ListsAreCurrent
    /\ LoadingIsUnderWay

(* Not every list is aborted by the next refresh, or fails: which the code *)
(* does not see to when lists take longer than REFRESH_MS.                 *)
ListsGetThrough ==
    \A n \in Loads :
        /\ SF_vars(n \notin aborted /\ ListRequests(n))
        /\ SF_vars(n \notin aborted /\ Show(n))

(* "... and stop once everything has settled": once every job is over and  *)
(* stays so, the page comes to rest.                                       *)
Quiet == load # Null /\ \A r \in Requests : RowExists(r) => status[r] \in Terminal

HistorySettles == ListsGetThrough => (<>[]Quiet => <>[]~timer)
=============================================================================
