---------------------------- MODULE Sensors_proofs ----------------------------
(***************************************************************************)
(* Proofs about Sensors, for any number of cores, nodes and shares: the    *)
(* invariant SensorsInv is inductive, the accept rate on display is never  *)
(* above 100 %, and the totals never fall.                                 *)
(***************************************************************************)
EXTENDS Sensors, TLAPS

USE DEF Cores

-----------------------------------------------------------------------------
\* The counter of a core stays within its bound and does not fall.
LEMMA CountShareBound ==
    ASSUME NEW n \in 0 .. ShareCap
    PROVE  /\ Ledger!CountShare(n) \in 0 .. ShareCap
           /\ Ledger!CountShare(n) >= n
           /\ Ledger!CountShare(n) = n + 1 \/ (n = ShareCap /\ Ledger!CountShare(n) = n)
  BY SensorsAssumption DEF Ledger!CountShare

\* What the miners do to their counters keeps them typed, and in agreement.
LEMMA LedgerTyped ==
    ASSUME TypeOK,
           \/ Ledger!Reboot
           \/ \E c \in Cores : Ledger!Find(c) \/ Ledger!Accept(c) \/ Ledger!Drop(c) \/ Ledger!Clear(c)
    PROVE  /\ share_count' \in [Cores -> 0 .. ShareCap]
           /\ accepted_share_count' \in [Cores -> 0 .. ShareCap]
           /\ pending' \subseteq Cores
  <1>1. 0 \in 0 .. ShareCap  BY SensorsAssumption
  <1>2. \A n \in 0 .. ShareCap : Ledger!CountShare(n) \in 0 .. ShareCap
    BY CountShareBound
  <1>3. /\ share_count \in [Cores -> 0 .. ShareCap]
        /\ accepted_share_count \in [Cores -> 0 .. ShareCap]
        /\ pending \subseteq Cores
    BY DEF TypeOK
  <1> HIDE DEF Cores
  <1> QED  BY <1>1, <1>2, <1>3
       DEF Ledger!Reboot, Ledger!Find, Ledger!Accept, Ledger!Drop, Ledger!Clear

LEMMA LedgerAgrees ==
    ASSUME TypeOK, SharesAgree,
           \/ Ledger!Reboot
           \/ \E c \in Cores : Ledger!Find(c) \/ Ledger!Accept(c) \/ Ledger!Drop(c) \/ Ledger!Clear(c)
    PROVE  SharesAgree'
  <1> SUFFICES ASSUME NEW k \in Cores
               PROVE  /\ accepted_share_count'[k] <= share_count'[k]
                      /\ k \in pending' => \/ accepted_share_count'[k] < share_count'[k]
                                           \/ share_count'[k] = ShareCap
    BY DEF SharesAgree
  <1>1. /\ share_count \in [Cores -> 0 .. ShareCap]
        /\ accepted_share_count \in [Cores -> 0 .. ShareCap]
        /\ share_count[k] \in 0 .. ShareCap
        /\ accepted_share_count[k] \in 0 .. ShareCap
    BY DEF TypeOK
  <1>2. /\ accepted_share_count[k] <= share_count[k]
        /\ k \in pending => accepted_share_count[k] < share_count[k] \/ share_count[k] = ShareCap
    BY DEF SharesAgree
  <1> HIDE DEF Cores
  <1>3. CASE Ledger!Reboot
    BY <1>3 DEF Ledger!Reboot
  <1>4. ASSUME NEW c \in Cores, Ledger!Find(c) \/ Ledger!Accept(c) PROVE 
          /\ accepted_share_count'[k] <= share_count'[k]
          /\ k \in pending' => accepted_share_count'[k] < share_count'[k] \/ share_count'[k] = ShareCap
    <2>1. /\ share_count'[k] = share_count[k] \/ share_count'[k] = Ledger!CountShare(share_count[k])
          /\ \/ accepted_share_count'[k] = accepted_share_count[k]
             \/ accepted_share_count'[k] = Ledger!CountShare(accepted_share_count[k])
      BY <1>1, <1>4 DEF Ledger!Find, Ledger!Accept
    <2> QED  BY <1>1, <1>2, <1>4, <2>1, CountShareBound, SensorsAssumption
             DEF Ledger!Find, Ledger!Accept
  <1>5. ASSUME NEW c \in Cores, Ledger!Drop(c) \/ Ledger!Clear(c) PROVE 
          /\ accepted_share_count'[k] <= share_count'[k]
          /\ k \in pending' => accepted_share_count'[k] < share_count'[k] \/ share_count'[k] = ShareCap
    BY <1>1, <1>2, <1>5 DEF Ledger!Drop, Ledger!Clear
  <1> QED  BY <1>3, <1>4, <1>5

-----------------------------------------------------------------------------
LEMMA SensorsInit == Init => SensorsInv
  <1> SUFFICES ASSUME Init PROVE SensorsInv
    OBVIOUS
  <1>1. 0 \in 0 .. ShareCap  BY SensorsAssumption
  <1> HIDE DEF Cores
  <1>2. /\ share_count \in [Cores -> 0 .. ShareCap]
        /\ accepted_share_count \in [Cores -> 0 .. ShareCap]
        /\ pending \subseteq Cores
        /\ SharesAgree
    BY <1>1 DEF Init, Ledger!Init, SharesAgree
  <1>3. /\ SumsAgree /\ RateWithin100
        /\ accept_rate \in [accepted : Nat, found : Nat]
        /\ cores_status \in [Cores -> Sign]
    BY DEF Init, SumsAgree, RateWithin100, Sign
  <1> QED  BY <1>2, <1>3 DEF Init, SensorsInv, TypeOK

\* Every step of the module, by what it does to the sums in hand.
LEMMA SensorsStep == SensorsInv /\ [Next]_vars => SensorsInv'
  <1> SUFFICES ASSUME SensorsInv, [Next]_vars PROVE SensorsInv'
    OBVIOUS
  <1>a. TypeOK /\ SharesAgree /\ SumsAgree /\ RateWithin100  BY DEF SensorsInv
  <1>1. CASE UNCHANGED vars
    BY <1>a, <1>1 DEF SensorsInv, vars, miners, ledgerVars, fleet, locals, sums, sensors,
       TypeOK, SharesAgree, SumsAgree, RateWithin100, Found
  <1>2. CASE UpdateStatus
    BY <1>a, <1>2 DEF UpdateStatus, SensorsInv, miners, ledgerVars, fleet, sums,
       TypeOK, SharesAgree, SumsAgree, RateWithin100, Found
  <1>3. CASE UpdateCores
    <2>1. \A c \in Cores : SignOf(c) \in Sign  BY DEF SignOf, Sign
    <2>2. 0 \in Cores  BY SensorsAssumption
    <2> QED  BY <1>a, <1>3, <2>1, <2>2 DEF UpdateCores, SensorsInv, miners, ledgerVars, fleet,
             sums, TypeOK, SharesAgree, SumsAgree, RateWithin100, Found
  <1>4. CASE NotReady
    BY <1>a, <1>4 DEF NotReady, SensorsInv, miners, ledgerVars, fleet, locals, sums,
       TypeOK, SharesAgree, SumsAgree, RateWithin100, Found
  <1>5. CASE ReadAccepted
    <2>1. i \in Cores /\ total_accepted <= total_shares_count
      BY <1>a, <1>5 DEF ReadAccepted, SumsAgree
    <2>2. accepted_share_count[i] <= share_count[i]  BY <1>a, <2>1 DEF SharesAgree
    <2>3. accepted_share_count[i] \in Nat /\ share_count[i] \in Nat
      BY <1>a, <2>1, SensorsAssumption DEF TypeOK
    <2> QED  BY <1>a, <1>5, <2>1, <2>2, <2>3 DEF ReadAccepted, SensorsInv, miners, ledgerVars,
             fleet, sensors, sums, TypeOK, SharesAgree, SumsAgree, RateWithin100, Found
  <1>6. CASE ReadFound
    <2>1. i \in Cores /\ total_accepted <= total_shares_count + Found(i)
      BY <1>a, <1>6 DEF ReadFound, SumsAgree
    <2>2. share_count[i] \in Nat  BY <1>a, <2>1, SensorsAssumption DEF TypeOK
    <2> QED  BY <1>a, <1>6, <2>1, <2>2 DEF ReadFound, SensorsInv, miners, ledgerVars,
             fleet, sensors, sums, TypeOK, SharesAgree, SumsAgree, RateWithin100, Found
  <1>7. CASE PublishSums
    BY <1>a, <1>7 DEF PublishSums, SensorsInv, miners, ledgerVars, fleet, locals,
       TypeOK, SharesAgree, SumsAgree, RateWithin100, Found
  <1>8. CASE Withdraw \/ Fetch \/ OtaStart \/ StopDone
    BY <1>a, <1>8 DEF Withdraw, Fetch, OtaStart, StopDone, SensorsInv, miners, ledgerVars, fleet,
       locals, sums, sensors, TypeOK, SharesAgree, SumsAgree, RateWithin100, Found
  <1>9. CASE Reboot
    <2>1. /\ share_count' \in [Cores -> 0 .. ShareCap]
          /\ accepted_share_count' \in [Cores -> 0 .. ShareCap]
          /\ pending' \subseteq Cores
          /\ SharesAgree'
      BY <1>a, <1>9, LedgerTyped, LedgerAgrees DEF Reboot
    <2>2. /\ SumsAgree' /\ RateWithin100'
          /\ accept_rate' \in [accepted : Nat, found : Nat]
          /\ cores_status' \in [Cores -> Sign]
      BY <1>9 DEF Reboot, SumsAgree, RateWithin100, Sign
    <2> QED  BY <2>1, <2>2, <1>9 DEF Reboot, SensorsInv, TypeOK
  <1>10. ASSUME NEW c \in Cores, Mine(c) PROVE SensorsInv'
    <2>1. /\ share_count' \in [Cores -> 0 .. ShareCap]
          /\ accepted_share_count' \in [Cores -> 0 .. ShareCap]
          /\ pending' \subseteq Cores
          /\ SharesAgree'
      BY <1>a, <1>10, LedgerTyped, LedgerAgrees DEF Mine
    <2>2. \A k \in Cores : share_count'[k] >= share_count[k]
      <3>1. share_count[c] \in 0 .. ShareCap  BY <1>a DEF TypeOK
      <3>2. \A k \in Cores : share_count[k] \in Nat  BY <1>a, SensorsAssumption DEF TypeOK
      <3>3. /\ share_count \in [Cores -> 0 .. ShareCap]
            /\ \/ share_count' = [share_count EXCEPT ![c] = Ledger!CountShare(@)]
               \/ share_count' = share_count
        BY <1>a, <1>10 DEF Mine, Ledger!Find, Ledger!Accept, Ledger!Drop, TypeOK
      <3> HIDE DEF Cores
      <3> QED  BY <3>1, <3>2, <3>3, CountShareBound
    <2>3. SumsAgree'
      <3>1. CASE main = "found"
        <4>1. i \in Cores /\ total_accepted <= total_shares_count + Found(i)
          BY <1>a, <3>1 DEF SumsAgree
        <4>2. share_count[i] \in Nat /\ share_count'[i] \in Nat
          BY <1>a, <2>1, <4>1, SensorsAssumption DEF TypeOK
        <4> QED  BY <1>a, <1>10, <2>2, <3>1, <4>1, <4>2
                 DEF Mine, fleet, locals, SumsAgree, TypeOK, Found
      <3>2. CASE main # "found"
        BY <1>a, <1>10, <3>2 DEF Mine, fleet, locals, SumsAgree
      <3> QED  BY <3>1, <3>2
    <2> QED  BY <1>a, <1>10, <2>1, <2>3
             DEF Mine, SensorsInv, fleet, locals, sensors, sums, TypeOK, RateWithin100
  <1>11. ASSUME NEW c \in Cores, CountErrors(c) PROVE SensorsInv'
    BY <1>a, <1>11 DEF CountErrors, SensorsInv, ledgerVars, fleet, locals, sums, sensors,
       TypeOK, SharesAgree, SumsAgree, RateWithin100, Found
  <1>12. ASSUME NEW c \in Cores, StopCore(c) PROVE SensorsInv'
    <2>1. /\ share_count' \in [Cores -> 0 .. ShareCap]
          /\ accepted_share_count' \in [Cores -> 0 .. ShareCap]
          /\ pending' \subseteq Cores
          /\ SharesAgree'
      BY <1>a, <1>12, LedgerTyped, LedgerAgrees DEF StopCore
    <2> QED  BY <1>a, <1>12, <2>1 DEF StopCore, SensorsInv, locals, sums, sensors,
             TypeOK, SumsAgree, RateWithin100
  <1> QED
    BY <1>1, <1>2, <1>3, <1>4, <1>5, <1>6, <1>7, <1>8, <1>9, <1>10, <1>11, <1>12 DEF Next, Update

\* The invariant of the sensors: the miners' counters agree core by core, and the
\* partial sums of update_sensors() agree at every point of its loop.
THEOREM SensorsSafe == Spec => []SensorsInv
  BY SensorsInit, SensorsStep, PTL DEF Spec

\* The accept rate on display is never above 100 %, on any number of cores, however
\* the tasks interleave with the loop that sums them up (duco_esp32.cpp:346-382).
THEOREM AcceptRateBound == Spec => []RateWithin100
  <1>1. SensorsInv => RateWithin100  BY DEF SensorsInv
  <1> QED  BY <1>1, SensorsSafe, PTL

-----------------------------------------------------------------------------
(* The totals.  A total is a sum that was read core by core; that it never falls is seen *)
(* from the partial sums it was read in: none of its steps is above the core's counter.  *)

NumCores == SOC_CPU_CORES_NUM

\* Partial sums of the first n cores, each step at most what the core's counter shows.
PartialSums(p, n, count) ==
    /\ p \in [0 .. NumCores -> Nat] /\ p[0] = 0
    /\ \A c \in 0 .. n - 1 : p[c + 1] <= p[c] + count[c]

Shown(count, shown) ==
    \E p : PartialSums(p, NumCores, count) /\ p[NumCores] = shown

\* The total in hand has caught up with the one that is shown, as far as the cores are read.
CatchesUp(count, total, n, shown) ==
    /\ \E p : PartialSums(p, NumCores, count) /\ p[NumCores] = shown /\ p[n] <= total
    /\ \E q : PartialSums(q, n, count) /\ q[n] = total

Counts(count) == count \in [Cores -> Nat]

LEMMA NumCoresIs == NumCores \in Nat \ {0} /\ \A c : c \in Cores <=> c \in 0 .. NumCores - 1
  BY SensorsAssumption DEF NumCores

LEMMA SumsGrow ==
    ASSUME NEW p, NEW n \in 0 .. NumCores, NEW count, NEW later, Counts(count), Counts(later),
           \A c \in Cores : later[c] >= count[c], PartialSums(p, n, count)
    PROVE  PartialSums(p, n, later)
  <1> SUFFICES ASSUME NEW c \in 0 .. n - 1 PROVE p[c + 1] <= p[c] + later[c]
    BY DEF PartialSums
  <1>1. c \in Cores /\ c \in 0 .. NumCores /\ c + 1 \in 0 .. NumCores
    BY NumCoresIs
  <1> HIDE DEF Cores
  <1>2. p[c] \in Nat /\ p[c + 1] \in Nat /\ count[c] \in Nat /\ later[c] \in Nat
    BY <1>1 DEF PartialSums, Counts
  <1>3. p[c + 1] <= p[c] + count[c] /\ later[c] >= count[c]
    BY <1>1 DEF PartialSums
  <1> QED  BY <1>2, <1>3

LEMMA SumsBegin ==
    ASSUME NEW count, NEW shown, Shown(count, shown)
    PROVE  CatchesUp(count, 0, 0, shown)
  <1> DEFINE z == [c \in 0 .. NumCores |-> 0]
  <1>1. PartialSums(z, 0, count) /\ z[0] = 0
    BY NumCoresIs DEF PartialSums
  <1>2. \A p : PartialSums(p, NumCores, count) => p[0] <= 0
    BY DEF PartialSums
  <1> QED  BY <1>1, <1>2 DEF Shown, CatchesUp

LEMMA SumsAdd ==
    ASSUME NEW count, Counts(count), NEW total, NEW n \in Cores, NEW shown,
           CatchesUp(count, total, n, shown)
    PROVE  CatchesUp(count, total + count[n], n + 1, shown)
  <1>1. n \in 0 .. NumCores /\ n + 1 \in 0 .. NumCores /\ count[n] \in Nat /\ n + 1 # 0
        /\ n \in 0 .. NumCores - 1 /\ n + 1 # n
    BY NumCoresIs DEF Counts
  <1>2. PICK q : PartialSums(q, n, count) /\ q[n] = total
    BY DEF CatchesUp
  <1>3. total \in Nat
    BY <1>1, <1>2 DEF PartialSums
  <1> DEFINE r == [c \in 0 .. NumCores |-> IF c = n + 1 THEN total + count[n] ELSE q[c]]
  <1>4. PartialSums(r, n + 1, count)
    <2>1. r \in [0 .. NumCores -> Nat] /\ r[0] = 0
      BY <1>1, <1>2, <1>3, NumCoresIs DEF PartialSums
    <2>2. ASSUME NEW c \in 0 .. n PROVE r[c + 1] <= r[c] + count[c]
      <3>1. c \in 0 .. NumCores /\ c + 1 \in 0 .. NumCores /\ c # n + 1
        BY <1>1, NumCoresIs
      <3>2. CASE c = n
        BY <1>1, <1>2, <1>3, <3>1, <3>2
      <3>3. CASE c # n
        <4>1. c \in 0 .. n - 1 /\ c + 1 # n + 1
          BY <1>1, <3>3
        <4>2. q[c + 1] <= q[c] + count[c]
          BY <1>2, <4>1 DEF PartialSums
        <4> QED  BY <3>1, <4>1, <4>2
      <3> QED  BY <3>2, <3>3
    <2>3. n + 1 - 1 = n
      BY <1>1
    <2> HIDE DEF r
    <2> QED  BY <2>1, <2>2, <2>3 DEF PartialSums
  <1>5. r[n + 1] = total + count[n]
    BY <1>1
  <1>6. PICK p : PartialSums(p, NumCores, count) /\ p[NumCores] = shown /\ p[n] <= total
    BY DEF CatchesUp
  <1>7. p[n + 1] <= p[n] + count[n] /\ p[n] \in Nat /\ p[n + 1] \in Nat
    BY <1>1, <1>6 DEF PartialSums
  <1>8. p[n + 1] <= total + count[n]
    BY <1>1, <1>3, <1>6, <1>7
  <1> HIDE DEF r
  <1> QED  BY <1>4, <1>5, <1>6, <1>8 DEF CatchesUp

LEMMA SumsEnd ==
    ASSUME NEW count, NEW total, NEW shown, CatchesUp(count, total, NumCores, shown)
    PROVE  Shown(count, total) /\ total >= shown /\ total \in Nat /\ shown \in Nat
  <1>1. PICK p : PartialSums(p, NumCores, count) /\ p[NumCores] = shown /\ p[NumCores] <= total
    BY DEF CatchesUp
  <1>2. PICK q : PartialSums(q, NumCores, count) /\ q[NumCores] = total
    BY DEF CatchesUp
  <1>3. p[NumCores] \in Nat /\ q[NumCores] \in Nat
    BY <1>1, <1>2, NumCoresIs DEF PartialSums
  <1> QED  BY <1>1, <1>2, <1>3 DEF Shown

\* What TotalsNeverFall needs: no core is without its job before a firmware update, and
\* until then each total is made of steps the counters still cover.
TotalsInv ==
    ~Down =>
        /\ job = Cores
        /\ Shown(accepted_share_count, accepted_shares) /\ Shown(share_count, total_shares)
        /\ main \in {"accepted", "found", "publish"} =>
              /\ CatchesUp(share_count, total_shares_count, i, total_shares)
              /\ CatchesUp(accepted_share_count, total_accepted,
                           IF main = "found" THEN i + 1 ELSE i, accepted_shares)
        /\ main \in {"accepted", "found"} => i \in Cores
        /\ main = "publish" => i = NumCores

LEMMA CountersAre ==
    ASSUME SensorsInv
    PROVE  Counts(share_count) /\ Counts(accepted_share_count)
  BY SensorsAssumption DEF SensorsInv, TypeOK, Counts

\* The counters move under update_sensors(), but only up.
LEMMA TotalsOutliveShares ==
    ASSUME SensorsInv, SensorsInv', TotalsInv, UNCHANGED <<main, job, sums, locals>>,
           \A c \in Cores : /\ share_count'[c] >= share_count[c]
                            /\ accepted_share_count'[c] >= accepted_share_count[c]
    PROVE  TotalsInv'
  <1> SUFFICES ASSUME ~Down PROVE TotalsInv'
    BY DEF TotalsInv, Down
  <1>1. /\ Counts(share_count) /\ Counts(accepted_share_count)
        /\ Counts(share_count') /\ Counts(accepted_share_count')
    BY CountersAre DEF SensorsInv, TypeOK, Counts
  <1> DEFINE Grows(count, later) == Counts(count) /\ Counts(later) /\ \A c \in Cores : later[c] >= count[c]
  <1>2. ASSUME NEW count, NEW later, Grows(count, later), NEW shown, Shown(count, shown)
        PROVE  Shown(later, shown)
    <2>1. NumCores \in 0 .. NumCores
      BY NumCoresIs
    <2> HIDE DEF Cores
    <2> QED  BY <1>2, <2>1, SumsGrow DEF Shown
  <1>3. ASSUME NEW count, NEW later, Grows(count, later), NEW shown, NEW total, NEW n \in 0 .. NumCores,
               CatchesUp(count, total, n, shown)
        PROVE  CatchesUp(later, total, n, shown)
    <2>1. NumCores \in 0 .. NumCores
      BY NumCoresIs
    <2> HIDE DEF Cores
    <2> QED  BY <1>3, <2>1, SumsGrow DEF CatchesUp
  <1>4. Grows(share_count, share_count') /\ Grows(accepted_share_count, accepted_share_count')
    BY <1>1
  <1>5. main \in {"accepted", "found", "publish"} =>
            i \in 0 .. NumCores /\ (IF main = "found" THEN i + 1 ELSE i) \in 0 .. NumCores
    BY NumCoresIs DEF TotalsInv
  <1> HIDE DEF Grows
  <1>6. Shown(accepted_share_count', accepted_shares) /\ Shown(share_count', total_shares)
    BY <1>2, <1>4 DEF TotalsInv
  <1>7. main \in {"accepted", "found", "publish"} =>
            /\ CatchesUp(share_count', total_shares_count, i, total_shares)
            /\ CatchesUp(accepted_share_count', total_accepted,
                         IF main = "found" THEN i + 1 ELSE i, accepted_shares)
    BY <1>3, <1>4, <1>5 DEF TotalsInv
  <1> QED  BY <1>6, <1>7 DEF TotalsInv, sums, locals, Down

LEMMA TotalsInit == Init => TotalsInv
  <1> SUFFICES ASSUME Init PROVE TotalsInv
    OBVIOUS
  <1>1. ASSUME NEW count, Counts(count) PROVE Shown(count, 0)
    <2> DEFINE z == [c \in 0 .. NumCores |-> 0]
    <2>1. ASSUME NEW c \in 0 .. NumCores - 1 PROVE z[c + 1] <= z[c] + count[c]
      <3>1. c \in 0 .. NumCores /\ c + 1 \in 0 .. NumCores /\ count[c] \in Nat
        BY <1>1, NumCoresIs DEF Counts
      <3> QED  BY <3>1
    <2>2. z \in [0 .. NumCores -> Nat] /\ z[0] = 0 /\ z[NumCores] = 0
      BY NumCoresIs
    <2> HIDE DEF z
    <2> QED  BY <2>1, <2>2 DEF Shown, PartialSums
  <1>2. Counts(share_count) /\ Counts(accepted_share_count)
    BY DEF Init, Ledger!Init, Counts
  <1> QED  BY <1>1, <1>2 DEF Init, TotalsInv

LEMMA TotalsStep ==
    SensorsInv /\ SensorsInv' /\ TotalsInv /\ [Next]_vars => TotalsInv'
  <1> SUFFICES ASSUME SensorsInv, SensorsInv', TotalsInv, [Next]_vars PROVE TotalsInv'
    OBVIOUS
  <1>a. Counts(share_count) /\ Counts(accepted_share_count)
    BY CountersAre
  <1> HIDE DEF Cores
  <1>1. CASE UNCHANGED <<main, job, sums, locals, share_count, accepted_share_count>>
    <2>1. \A c \in Cores : /\ share_count[c] \in Nat /\ accepted_share_count[c] \in Nat
                           /\ share_count'[c] = share_count[c]
                           /\ accepted_share_count'[c] = accepted_share_count[c]
      BY <1>a, <1>1 DEF Counts
    <2>2. \A c \in Cores : /\ share_count'[c] >= share_count[c]
                           /\ accepted_share_count'[c] >= accepted_share_count[c]
      BY <2>1
    <2> QED  BY <1>1, <2>2, TotalsOutliveShares
  <1>2. CASE UpdateStatus
    BY <1>2 DEF UpdateStatus, TotalsInv, Down, miners, ledgerVars, fleet, sums
  <1>3. CASE UpdateCores
    <2>1. /\ main' = "accepted" /\ i' = 0 /\ total_accepted' = 0 /\ total_shares_count' = 0 /\ ~Down
          /\ UNCHANGED <<share_count, accepted_share_count, job, accepted_shares, total_shares>>
      BY <1>3 DEF UpdateCores, miners, ledgerVars, fleet, sums, Down
    <2>2. /\ CatchesUp(share_count, 0, 0, total_shares)
          /\ CatchesUp(accepted_share_count, 0, 0, accepted_shares)
      BY <2>1, SumsBegin DEF TotalsInv
    <2>3. 0 \in Cores
      BY SensorsAssumption DEF Cores
    <2> QED  BY <2>1, <2>2, <2>3 DEF TotalsInv
  <1>4. CASE NotReady
    BY <1>4 DEF NotReady, TotalsInv, Down, miners, ledgerVars, fleet, locals, sums
  <1>5. CASE ReadAccepted
    <2>1. /\ main = "accepted" /\ main' = "found" /\ ~Down
          /\ UNCHANGED <<share_count, accepted_share_count, job, i, total_shares_count,
                         accepted_shares, total_shares>>
          /\ total_accepted' = total_accepted + (IF i \in job THEN accepted_share_count[i] ELSE 0)
      BY <1>5 DEF ReadAccepted, miners, ledgerVars, fleet, sensors, sums, Down
    <2>2. i \in Cores /\ total_accepted' = total_accepted + accepted_share_count[i]
      BY <2>1 DEF TotalsInv
    <2>3. CatchesUp(accepted_share_count, total_accepted', i + 1, accepted_shares)
      BY <1>a, <2>1, <2>2, SumsAdd DEF TotalsInv
    <2> QED  BY <2>1, <2>2, <2>3 DEF TotalsInv
  <1>6. CASE ReadFound
    <2>1. /\ main = "found" /\ ~Down /\ i' = i + 1
          /\ main' = IF i + 1 \in Cores THEN "accepted" ELSE "publish"
          /\ UNCHANGED <<share_count, accepted_share_count, job, total_accepted,
                         accepted_shares, total_shares>>
          /\ total_shares_count' = total_shares_count + (IF i \in job THEN share_count[i] ELSE 0)
      BY <1>6 DEF ReadFound, miners, ledgerVars, fleet, sensors, sums, Down
    <2>2. i \in Cores /\ total_shares_count' = total_shares_count + share_count[i]
      BY <2>1 DEF TotalsInv
    <2>3. CatchesUp(share_count, total_shares_count', i + 1, total_shares)
      BY <1>a, <2>1, <2>2, SumsAdd DEF TotalsInv
    <2>4. i + 1 \in Cores \/ i + 1 = NumCores
      BY <2>2, NumCoresIs
    <2> QED  BY <2>1, <2>3, <2>4 DEF TotalsInv
  <1>7. CASE PublishSums
    <2>1. /\ main = "publish" /\ main' = "idle" /\ ~Down
          /\ accepted_shares' = total_accepted /\ total_shares' = total_shares_count
          /\ UNCHANGED <<share_count, accepted_share_count, job>>
      BY <1>7 DEF PublishSums, miners, ledgerVars, fleet, Down
    <2>2. /\ Shown(share_count, total_shares_count)
          /\ Shown(accepted_share_count, total_accepted)
      BY <2>1, SumsEnd DEF TotalsInv
    <2> QED  BY <2>1, <2>2 DEF TotalsInv
  <1>8. CASE OtaStart \/ StopDone
    BY <1>8 DEF OtaStart, StopDone, TotalsInv, Down
  <1>9. CASE Withdraw
    BY <1>1, <1>9 DEF Withdraw, miners, ledgerVars, fleet, locals, sensors
  <1>10. CASE Fetch
    BY <1>1, <1>10 DEF Fetch, miners, ledgerVars, fleet, locals, sensors
  <1>11. CASE Reboot
    <2>1. Init'
      BY <1>11 DEF Reboot, Init, Ledger!Reboot, Ledger!Init
    <2>2. Init' => TotalsInv'
      BY TotalsInit, PTL
    <2> QED  BY <2>1, <2>2
  <1>12. ASSUME NEW c \in Cores, Mine(c) PROVE TotalsInv'
    <2>1. \A n \in 0 .. ShareCap : Ledger!CountShare(n) \in 0 .. ShareCap /\ Ledger!CountShare(n) >= n
      BY CountShareBound
    <2>2. /\ share_count \in [Cores -> 0 .. ShareCap]
          /\ accepted_share_count \in [Cores -> 0 .. ShareCap]
      BY DEF SensorsInv, TypeOK
    <2>3. /\ \/ share_count' = share_count
             \/ share_count' = [share_count EXCEPT ![c] = Ledger!CountShare(@)]
          /\ \/ accepted_share_count' = accepted_share_count
             \/ accepted_share_count' = [accepted_share_count EXCEPT ![c] = Ledger!CountShare(@)]
          /\ UNCHANGED <<main, job, sums, locals>>
      BY <1>12 DEF Mine, Ledger!Find, Ledger!Accept, Ledger!Drop, fleet, sensors
    <2>4. \A n \in 0 .. ShareCap : n \in Nat /\ n >= n
      BY SensorsAssumption
    <2>5. \A k \in Cores : /\ share_count'[k] >= share_count[k]
                           /\ accepted_share_count'[k] >= accepted_share_count[k]
      BY <2>1, <2>2, <2>3, <2>4
    <2> QED  BY <2>3, <2>5, TotalsOutliveShares
  <1>13. ASSUME NEW c \in Cores, CountErrors(c) PROVE TotalsInv'
    BY <1>1, <1>13 DEF CountErrors, ledgerVars, fleet, locals, sensors
  <1>14. ASSUME NEW c \in Cores, StopCore(c) PROVE TotalsInv'
    BY <1>14 DEF StopCore, TotalsInv, Down
  <1>15. CASE UNCHANGED vars
    BY <1>1, <1>15 DEF vars, miners, ledgerVars, fleet, locals, sensors
  <1> QED
    BY <1>2, <1>3, <1>4, <1>5, <1>6, <1>7, <1>8, <1>9, <1>10, <1>11, <1>12, <1>13, <1>14, <1>15
       DEF Next, Update

\* A total never falls but by a reboot, on any number of cores: each core's counter is at
\* least what it was when the total on display was summed up, and no sum is taken of jobs
\* that a firmware update has deleted (duco.cpp:33; duco_esp32.cpp:346-375).
THEOREM TotalsHold == Spec => TotalsNeverFall
  <1>1. SensorsInv /\ TotalsInv /\ [Next]_vars =>
            [\/ total_shares' >= total_shares /\ accepted_shares' >= accepted_shares
             \/ Reboot]_vars
    <2> SUFFICES ASSUME SensorsInv, TotalsInv, Next, ~Reboot
                 PROVE  total_shares' >= total_shares /\ accepted_shares' >= accepted_shares
      OBVIOUS
    <2>1. total_shares \in Nat /\ accepted_shares \in Nat
      BY DEF SensorsInv, TypeOK
    <2>2. CASE UNCHANGED <<total_shares, accepted_shares>>
      BY <2>1, <2>2
    <2>3. CASE PublishSums
      <3>1. /\ ~Down /\ main = "publish"
            /\ accepted_shares' = total_accepted /\ total_shares' = total_shares_count
        BY <2>3 DEF PublishSums, Down
      <3>2. /\ CatchesUp(share_count, total_shares_count, NumCores, total_shares)
            /\ CatchesUp(accepted_share_count, total_accepted, NumCores, accepted_shares)
        BY <3>1 DEF TotalsInv
      <3> QED  BY <3>1, <3>2, SumsEnd
    <2>4. UNCHANGED <<total_shares, accepted_shares>> \/ PublishSums
      BY DEF Next, UpdateStatus, Update, UpdateCores, NotReady, ReadAccepted, ReadFound, Withdraw,
         Fetch, OtaStart, StopDone, Mine, CountErrors, StopCore, sensors, sums
    <2> QED  BY <2>2, <2>3, <2>4
  <1>2. Spec => []TotalsInv
    BY SensorsSafe, TotalsInit, TotalsStep, PTL DEF Spec
  <1> QED  BY <1>1, <1>2, SensorsSafe, PTL DEF Spec, TotalsNeverFall

=============================================================================
