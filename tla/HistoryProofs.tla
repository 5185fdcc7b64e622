---------------------------- MODULE HistoryProofs ----------------------------
(***************************************************************************)
(* HistoryInv is inductive, and a listed job stays listed until newer ones *)
(* push it off, for any number of jobs and of fetches and any length of    *)
(* the list.                                                               *)
(***************************************************************************)
EXTENDS HistoryPage, TLAPS

USE DEF Terminal, rowVars

(* What is on a list that has grown by a job was on it, or is that job...  *)
LEMMA PushedOn ==
  ASSUME newest \in Seq(Requests), NEW r \in Requests
  PROVE  Range(Push(r)) \subseteq Range(newest) \cup {r}
<1>1. ASSUME NEW i \in DOMAIN Push(r) PROVE Push(r)[i] \in Range(newest) \cup {r}
  <2>1. CASE Len(newest) < HistoryLimit
    <3>1. DOMAIN Push(r) = 1..Len(newest) + 1 /\ DOMAIN newest = 1..Len(newest) BY <2>1 DEF Push
    <3>2. Push(r)[i] = IF i = Len(newest) + 1 THEN r ELSE newest[i] BY <1>1, <2>1, <3>1 DEF Push
    <3> QED BY <1>1, <3>1, <3>2 DEF Range
  <2>2. CASE ~(Len(newest) < HistoryLimit) /\ newest = <<>>
    <3>1. FALSE BY <2>2, LimitAssumption
    <3> QED BY <3>1
  <2>3. CASE ~(Len(newest) < HistoryLimit) /\ newest # <<>>
    <3>1. Tail(newest) \in Seq(Requests) /\ Len(Tail(newest)) = Len(newest) - 1 BY <2>3
    <3>2. DOMAIN Push(r) = 1..Len(newest) /\ DOMAIN newest = 1..Len(newest)
      BY <2>3, <3>1 DEF Push
    <3>3. Push(r)[i] = IF i = Len(newest) THEN r ELSE newest[i + 1]
      BY <1>1, <2>3, <3>1, <3>2 DEF Push
    <3> QED BY <1>1, <3>2, <3>3 DEF Range
  <2> QED BY <2>1, <2>2, <2>3
<1> QED BY <1>1 DEF Range

(* ... and there are no more than before, or than the limit. *)
LEMMA PushedType ==
  ASSUME newest \in Seq(Requests), Len(newest) =< HistoryLimit, NEW r \in Requests
  PROVE  Push(r) \in Seq(Requests) /\ Len(Push(r)) =< HistoryLimit
<1>1. CASE Len(newest) < HistoryLimit BY <1>1, LimitAssumption DEF Push
<1>2. CASE ~(Len(newest) < HistoryLimit)
  <2>1. newest # <<>> BY <1>2, LimitAssumption
  <2>2. Tail(newest) \in Seq(Requests) /\ Len(Tail(newest)) = Len(newest) - 1 BY <2>1
  <2> QED BY <1>2, <2>2, LimitAssumption DEF Push
<1> QED BY <1>1, <1>2

(* A page that is not there shows and fetches nothing. *)
LEMMA HistoryInit == Init => HistoryInv
<1> SUFFICES ASSUME Init PROVE HistoryInv OBVIOUS
<1> USE LoadsAssumption DEF Init
<1>1. StoreTypeOK BY DEF StoreInit, StoreTypeOK
<1>2. HistoryTypeOK
  <2>1. answer \in [Loads -> Lists \cup {Null}] /\ fetch \in [Loads -> {"off", "asking", "answered"}]
    OBVIOUS
  <2>2. newest \in Seq(Requests) /\ Len(newest) =< HistoryLimit BY LimitAssumption
  <2> QED BY <1>1, <2>1, <2>2 DEF HistoryTypeOK
<1>3. ListsAreCurrent
  <2>1. Range(newest) = {} BY DEF Range
  <2> QED BY <2>1 DEF ListsAreCurrent, Names
<1> QED BY <1>2, <1>3 DEF HistoryInv, RefreshesWhileUnfinished, HasUnfinished, Shows, OneLoadAlive,
           LoadingIsUnderWay

(* What the backend answers is a list, of the newest rows there are. *)
LEMMA ListType ==
  /\ ListNow \in Lists /\ ListNow # Null
  /\ \A r \in Requests : r \in Range(newest) <=> ListNow[r] # "absent"
<1>1. ASSUME NEW r \in Requests
      PROVE  /\ ListNow[r] \in {"absent", "unfinished", "finished"}
             /\ r \in Range(newest) <=> ListNow[r] # "absent"
  BY DEF ListNow
<1>2. ListNow \in Lists BY <1>1 DEF ListNow, Lists
<1> QED BY <1>1, <1>2, NoListAssumption

(* The effects that run again abort the fetch before the new one. *)
LEMMA StartKeeps ==
  ASSUME HistoryInv, NEW n \in Loads, Start(n), items' = items, error' = error,
         timer' = HasUnfinished
  PROVE  HistoryInv'
<1> USE DEF HistoryInv, Start
<1>1. UNCHANGED <<storeVars, answer>> /\ load' = n /\ fetch[n] = "off" /\ answer[n] = Null
  BY DEF HistoryTypeOK
<1>2. fetch' \in [Loads -> {"off", "asking", "answered"}] /\ fetch'[n] = "asking"
      /\ \A m \in Loads : m # n => fetch'[m] = fetch[m]
  BY DEF HistoryTypeOK
<1>3. \A m \in Loads : m # n /\ fetch[m] # "off" => m \in aborted'
  BY DEF OneLoadAlive
<1>4. aborted' \subseteq Loads /\ aborted \subseteq aborted' BY DEF HistoryTypeOK
<1>5. timer' \in BOOLEAN /\ error' \in BOOLEAN BY DEF HistoryTypeOK, HasUnfinished, Shows
<1>6. HistoryTypeOK' BY <1>1, <1>2, <1>4, <1>5 DEF HistoryTypeOK, StoreTypeOK, storeVars
<1>7. OneLoadAlive' BY <1>1, <1>2, <1>3 DEF OneLoadAlive
<1>8. ListsAreCurrent'
  BY <1>1, <1>2, <1>4 DEF ListsAreCurrent, Names, storeVars, RowExists
<1>9. RefreshesWhileUnfinished' BY DEF RefreshesWhileUnfinished, HasUnfinished, Shows
<1>10. \A m \in Loads : fetch'[m] = "answered" <=> answer'[m] # Null BY <1>1, <1>2
<1>11. load' # Null BY <1>1, LoadsAssumption
<1>12. \A m \in aborted' : fetch'[m] # "off" /\ m # load'
  BY <1>1, <1>2 DEF HistoryTypeOK
<1>13. LoadingIsUnderWay' BY <1>1, <1>2, <1>12 DEF LoadingIsUnderWay
<1> QED BY <1>6, <1>7, <1>8, <1>9, <1>10, <1>11, <1>12, <1>13

(* A list that is shown, or thrown away with its effect. *)
LEMMA ShowKeeps == ASSUME HistoryInv, NEW n \in Loads, Show(n) PROVE HistoryInv'
<1> USE DEF HistoryInv, Show, End
<1>1. UNCHANGED <<storeVars, load>> /\ answer[n] # Null /\ answer[n] \in Lists
      /\ fetch[n] = "answered"
  BY DEF HistoryTypeOK
<1>2. /\ fetch' \in [Loads -> {"off", "asking", "answered"}] /\ fetch'[n] = "off"
      /\ answer' \in [Loads -> Lists \cup {Null}] /\ answer'[n] = Null
      /\ aborted' \subseteq Loads
      /\ \A m \in Loads : m # n => /\ fetch'[m] = fetch[m] /\ answer'[m] = answer[m]
                                   /\ m \in aborted' <=> m \in aborted
  BY DEF HistoryTypeOK
<1>3. \A m \in Loads : fetch'[m] = "answered" <=> answer'[m] # Null BY <1>2
<1>4. OneLoadAlive' /\ \A m \in aborted' : fetch'[m] # "off" /\ m # load'
  BY <1>1, <1>2 DEF OneLoadAlive, HistoryTypeOK
<1>5. CASE n \in aborted
  <2>1. UNCHANGED <<items, error, timer>> BY <1>5
  <2>2. HistoryTypeOK' BY <1>1, <1>2, <2>1 DEF HistoryTypeOK, StoreTypeOK, storeVars
  <2>3. ListsAreCurrent'
    BY <1>1, <1>2, <2>1 DEF ListsAreCurrent, Names, storeVars, RowExists
  <2>4. LoadingIsUnderWay'
    BY <1>1, <1>2, <1>5, <2>1, LoadsAssumption DEF LoadingIsUnderWay, HistoryTypeOK
  <2> QED BY <1>1, <1>3, <1>4, <2>1, <2>2, <2>3, <2>4 DEF RefreshesWhileUnfinished, HasUnfinished
<1>6. CASE n \notin aborted
  <2>1. items' = answer[n] /\ error' = FALSE /\ timer' = Shows(answer[n], "unfinished") BY <1>6
  <2>2. timer' \in BOOLEAN BY <2>1 DEF Shows
  <2>3. HistoryTypeOK' BY <1>1, <1>2, <2>1, <2>2 DEF HistoryTypeOK, StoreTypeOK, storeVars
  <2>4. n = load /\ load # Null BY <1>1, <1>6, LoadsAssumption DEF OneLoadAlive
  <2>5. ASSUME NEW m \in Loads, fetch'[m] = "answered" PROVE m \in aborted'
    BY <1>2, <2>4, <2>5 DEF OneLoadAlive
  <2>6. ListsAreCurrent'
    BY <1>1, <1>2, <2>1, <2>5 DEF ListsAreCurrent, Names, storeVars, RowExists
  <2>7. RefreshesWhileUnfinished' BY <2>1 DEF RefreshesWhileUnfinished, HasUnfinished, Shows
  <2>8. LoadingIsUnderWay' BY <1>1, <2>1 DEF LoadingIsUnderWay
  <2> QED BY <1>1, <1>3, <1>4, <2>3, <2>4, <2>6, <2>7, <2>8
<1> QED BY <1>5, <1>6

(* Every event keeps HistoryInv. *)
LEMMA HistoryStep == ASSUME HistoryInv, [Next]_vars PROVE HistoryInv'
<1> USE DEF HistoryInv
<1>1. ASSUME NEW n \in Loads, Mount(n) PROVE HistoryInv'
  <2>1. load = Null /\ Start(n) /\ UNCHANGED <<items, error, timer>> BY <1>1 DEF Mount
  <2>2. timer' = HasUnfinished
    BY <2>1 DEF HistoryTypeOK, RefreshesWhileUnfinished, HasUnfinished, Shows
  <2> QED BY <2>1, <2>2, StartKeeps
<1>2. ASSUME NEW n \in Loads, Reload(n) \/ TimerFires(n) PROVE HistoryInv'
  BY <1>2, StartKeeps DEF Reload, TimerFires
<1>3. CASE Unmount
  <2> USE <1>3 DEF Unmount
  <2>1. HistoryTypeOK' BY LoadsAssumption DEF HistoryTypeOK, StoreTypeOK, storeVars
  <2>2. OneLoadAlive' BY DEF OneLoadAlive
  <2>3. ListsAreCurrent' BY DEF ListsAreCurrent, Names, storeVars, RowExists
  <2>4. LoadingIsUnderWay' /\ \A m \in aborted' : fetch'[m] # "off" /\ m # load'
    BY LoadsAssumption DEF LoadingIsUnderWay, HistoryTypeOK
  <2> QED BY <2>1, <2>2, <2>3, <2>4 DEF RefreshesWhileUnfinished, HasUnfinished, Shows
<1>4. ASSUME NEW n \in Loads, ListRequests(n) PROVE HistoryInv'
  <2> USE <1>4 DEF ListRequests
  <2>1. /\ fetch' \in [Loads -> {"off", "asking", "answered"}] /\ fetch'[n] = "answered"
        /\ answer' \in [Loads -> Lists \cup {Null}] /\ answer'[n] = ListNow
        /\ \A m \in Loads : m # n => fetch'[m] = fetch[m] /\ answer'[m] = answer[m]
    BY ListType DEF HistoryTypeOK
  <2>2. HistoryTypeOK' BY <2>1 DEF HistoryTypeOK, StoreTypeOK, storeVars
  <2>3. OneLoadAlive' BY <2>1 DEF OneLoadAlive
  <2>4. ListsAreCurrent'
    BY <2>1, ListType DEF ListsAreCurrent, Names, storeVars, RowExists
  <2>5. \A m \in Loads : fetch'[m] = "answered" <=> answer'[m] # Null
    BY <2>1, ListType
  <2>6. LoadingIsUnderWay' /\ \A m \in aborted' : fetch'[m] # "off" /\ m # load'
    BY <2>1, LoadsAssumption DEF LoadingIsUnderWay, HistoryTypeOK
  <2> QED BY <2>2, <2>3, <2>4, <2>5, <2>6 DEF RefreshesWhileUnfinished, HasUnfinished, Shows
<1>5. ASSUME NEW n \in Loads, Show(n) PROVE HistoryInv' BY <1>5, ShowKeeps
<1>6. ASSUME NEW n \in Loads, LoadFails(n) PROVE HistoryInv'
  <2> USE <1>6 DEF LoadFails, End
  <2>1. /\ fetch' \in [Loads -> {"off", "asking", "answered"}] /\ fetch'[n] = "off"
        /\ answer' \in [Loads -> Lists \cup {Null}] /\ answer'[n] = Null
        /\ aborted' \subseteq Loads /\ error' \in BOOLEAN
        /\ \A m \in Loads : m # n => /\ fetch'[m] = fetch[m] /\ answer'[m] = answer[m]
                                     /\ m \in aborted' <=> m \in aborted
    BY DEF HistoryTypeOK
  <2>2. HistoryTypeOK' BY <2>1 DEF HistoryTypeOK, StoreTypeOK, storeVars
  <2>3. OneLoadAlive' BY <2>1 DEF OneLoadAlive
  <2>4. ListsAreCurrent' BY <2>1 DEF ListsAreCurrent, Names, storeVars, RowExists
  <2>5. \A m \in aborted' : fetch'[m] # "off" /\ m # load' BY <2>1 DEF HistoryTypeOK
  <2>6. LoadingIsUnderWay' BY <2>1, LoadsAssumption DEF LoadingIsUnderWay, HistoryTypeOK
  <2> QED BY <2>1, <2>2, <2>3, <2>4, <2>5, <2>6 DEF RefreshesWhileUnfinished, HasUnfinished, Shows
<1>7. ASSUME NEW r \in Requests, RowChanges(r) PROVE HistoryInv'
  <2> USE <1>7, ToldAssumption DEF RowChanges, RowWritten, pageVars
  <2>0. StoreTypeOK BY DEF HistoryTypeOK
  <2>1. StoreTypeOK'
    BY <2>0 DEF StoreTypeOK, InsertPending, UpdateProcessing, UpsertResult, UpdateFailed,
       Statuses
  <2>2. \A q \in Requests : RowExists(q) => RowExists(q)'
    BY <2>0 DEF StoreTypeOK, InsertPending, UpdateProcessing, UpsertResult, UpdateFailed,
       RowExists
  <2>3. newest' \in Seq(Requests) /\ Len(newest') =< HistoryLimit
    BY PushedType DEF HistoryTypeOK
  <2>4. HistoryTypeOK' BY <2>1, <2>3 DEF HistoryTypeOK
  <2>5. RowExists(r)'
    BY <2>0 DEF StoreTypeOK, InsertPending, UpdateProcessing, UpsertResult, UpdateFailed,
       RowExists
  <2>6. \A q \in Range(newest') : q \in Range(newest) \/ (q = r /\ ~RowExists(r))
    BY PushedOn DEF HistoryTypeOK
  <2>7. ListsAreCurrent' BY <2>2, <2>5, <2>6 DEF ListsAreCurrent, Names
  <2> QED BY <2>4, <2>7 DEF RefreshesWhileUnfinished, HasUnfinished, Shows, OneLoadAlive,
          LoadingIsUnderWay
<1>8. CASE UNCHANGED vars
  BY <1>8 DEF vars, pageVars, storeVars, HistoryTypeOK, StoreTypeOK, RefreshesWhileUnfinished,
     HasUnfinished, Shows, OneLoadAlive, ListsAreCurrent, Names, RowExists, LoadingIsUnderWay
<1> QED BY <1>1, <1>2, <1>3, <1>4, <1>5, <1>6, <1>7, <1>8 DEF Next
-----------------------------------------------------------------------------
(* One fetch is alive at a time, the timer runs exactly while the page     *)
(* shows an unfinished job, and what is on its way is no older than that.  *)
THEOREM HistoryInvariance == Spec => []HistoryInv
<1>1. HistoryInv /\ [Next]_vars => HistoryInv' BY HistoryStep
<1> QED BY <1>1, HistoryInit, PTL DEF Spec

(* A job that has been listed is on every list that replaces it, unless    *)
(* HISTORY_LIMIT newer ones have pushed it off.                            *)
THEOREM ListedUntilPushedOff == Spec => ListOnlyMovesOn
<1> DEFINE MovesOn ==
        items # Null /\ items' # Null =>
            \A r \in Range(newest) : items[r] # "absent" => items'[r] # "absent"
<1>1. HistoryInv /\ [Next]_vars => [MovesOn]_vars
  <2> SUFFICES ASSUME HistoryInv, Next, items' # items, items' # Null,
                      NEW r \in Range(newest), items # Null, items[r] # "absent"
               PROVE  items'[r] # "absent"
    OBVIOUS
  <2>0. r \in Requests BY DEF HistoryInv, HistoryTypeOK, Range
  <2>1. PICK n \in Loads : Show(n)
    BY DEF Next, Unmount, RowChanges, Mount, Reload, TimerFires, ListRequests, LoadFails, pageVars
  <2>2. items' = answer[n] /\ fetch[n] = "answered" /\ n \notin aborted BY <2>1 DEF Show
  <2> QED BY <2>0, <2>2 DEF HistoryInv, ListsAreCurrent, Names
<1> QED BY <1>1, HistoryInvariance, PTL DEF Spec, ListOnlyMovesOn
=============================================================================
