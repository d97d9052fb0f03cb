------------------------- MODULE ExternalLoopProofs -------------------------
(***************************************************************************)
(* Proofs about ExternalLoop, for every number of clans, codes, instances, *)
(* requests in flight, weeks and events.                                   *)
(*                                                                         *)
(* One clan at a time (ClanInv): only the loop that its manager holds may  *)
(* poll or go on with a backfill, so a discarded one is passive; and every  *)
(* request in flight belongs to the loop it will schedule (Belongs), so a  *)
(* loop that polls has a timer or a request that will arm it.              *)
(***************************************************************************)
EXTENDS ExternalLoop, TLAPS

-----------------------------------------------------------------------------
(* The invariant.                                                          *)

DataTyped ==
  /\ code \in [Clans -> Codes \cup {None}]
  /\ deleted \subseteq Clans /\ done \subseteq Codes
  /\ snapshot \in [Clans -> [Codes -> [0..Weeks -> Nat]]]
  /\ upstream \in [Codes -> Nat]
  /\ events \in Nat

\* A request in flight names a code, and a loop unless it was made by hand.
Belongs(x) ==
  x.pc # "idle" => x.code \in Codes /\ (x.loop = None <=> x.kind = "manual")

Flying(x, i) == x.pc # "idle" /\ x.loop = i

\* One clan: its loops, the one the manager holds, its requests.  Only the
\* loop that is held polls or backfills on demand, and one that polls has its
\* next poll armed or a request in flight.
ClanInv(L, m, C) ==
  /\ \A s \in Slots : Belongs(C[s])
  /\ \A i \in Instances :
       /\ L[i].timer => L[i].running
       /\ L[i].running \/ L[i].backfilling => i = m
       /\ L[i].running => L[i].timer \/ \E s \in Slots : Flying(C[s], i)

PollerTyped ==
  /\ manager \in [Clans -> Instances \cup {None}]
  /\ loop \in [Clans -> [Instances -> LoopRecord]]
  /\ call \in [Clans -> [Slots -> CallRecord]]

PollerInv ==
  /\ DataTyped /\ PollerTyped
  /\ \A c \in Clans : ClanInv(loop[c], manager[c], call[c])

-----------------------------------------------------------------------------
(* Records.                                                                *)

LEMMA NoneTyped ==
  /\ NoLoop \in LoopRecord /\ NoCall \in CallRecord /\ Belongs(NoCall)
  /\ 0 \in 0..Weeks /\ 1 \in 0..Weeks
BY ExternalAssumption DEF NoLoop, LoopRecord, NoCall, CallRecord, Belongs

LEMMA StartedTyped ==
  ASSUME NEW b \in BOOLEAN
  PROVE  Started(b) \in LoopRecord
BY DEF LoopRecord, Started

LEMMA AskingTyped ==
  ASSUME DataTyped, NEW kind \in {"poll", "initial", "backfill", "manual"},
         NEW c \in Clans, NEW i \in Instances \cup {None}, NEW k \in Codes,
         NEW w \in 0..Weeks, i = None <=> kind = "manual"
  PROVE  /\ Asking(kind, c, i, k, w) \in CallRecord
         /\ Belongs(Asking(kind, c, i, k, w))
<1>1. EtagFor(c, k, w) \in Nat
  <2> DEFINE W == 0..Weeks
  <2>1. snapshot \in [Clans -> [Codes -> [W -> Nat]]] /\ w \in W
    BY DEF DataTyped
  <2> HIDE DEF W
  <2>2. snapshot[c] \in [Codes -> [W -> Nat]]
    BY <2>1
  <2>3. snapshot[c][k] \in [W -> Nat]
    BY <2>2
  <2> QED
    BY <2>1, <2>3 DEF EtagFor
<1> QED
  BY <1>1 DEF Asking, CallRecord, Belongs

-----------------------------------------------------------------------------
(* One clan.                                                               *)

\* A step that changes one clan only has that clan to look at.
LEMMA OneClan ==
  ASSUME PollerInv, DataTyped', NEW c \in Clans,
         NEW L \in [Instances -> LoopRecord], NEW m \in Instances \cup {None},
         NEW C \in [Slots -> CallRecord], ClanInv(L, m, C),
         loop' = [loop EXCEPT ![c] = L], manager' = [manager EXCEPT ![c] = m],
         call' = [call EXCEPT ![c] = C]
  PROVE  PollerInv'
<1>1. PollerTyped'
  BY DEF PollerInv, PollerTyped
<1>2. ASSUME NEW d \in Clans
      PROVE  ClanInv(loop'[d], manager'[d], call'[d])
  <2>1. CASE d = c
    BY <2>1 DEF PollerInv, PollerTyped
  <2>2. CASE d # c
    <3>1. loop'[d] = loop[d] /\ manager'[d] = manager[d] /\ call'[d] = call[d]
      BY <2>2 DEF PollerInv, PollerTyped
    <3> QED
      BY <3>1 DEF PollerInv
  <2> QED
    BY <2>1, <2>2
<1> QED
  BY <1>1, <1>2 DEF PollerInv, ClanInv, Belongs, Flying

\* A slot changes: what was in flight for a loop stays in flight for it.
LEMMA SetCall ==
  ASSUME NEW L, NEW m, NEW C \in [Slots -> CallRecord], ClanInv(L, m, C),
         NEW s \in Slots, NEW r \in CallRecord, Belongs(r),
         \A i \in Instances : Flying(C[s], i) => Flying(r, i)
  PROVE  /\ [C EXCEPT ![s] = r] \in [Slots -> CallRecord]
         /\ ClanInv(L, m, [C EXCEPT ![s] = r])
<1> DEFINE D == [C EXCEPT ![s] = r]
<1>1. D \in [Slots -> CallRecord] /\ \A t \in Slots : Belongs(D[t])
  BY DEF ClanInv
<1>2. ASSUME NEW i \in Instances, NEW t \in Slots, Flying(C[t], i)
      PROVE  Flying(D[t], i)
  BY <1>2
<1> HIDE DEF D
<1> QED
  BY <1>1, <1>2 DEF ClanInv

\* A loop changes, and a slot that carried nothing for another loop.
LEMMA SetLoop ==
  ASSUME NEW L \in [Instances -> LoopRecord], NEW m,
         NEW C \in [Slots -> CallRecord], ClanInv(L, m, C),
         NEW i \in Instances, NEW rec \in LoopRecord,
         NEW s \in Slots, NEW r \in CallRecord, Belongs(r),
         \A j \in Instances \ {i} : ~Flying(C[s], j),
         rec.timer => rec.running,
         rec.running \/ rec.backfilling => i = m,
         rec.running => rec.timer \/ Flying(r, i)
  PROVE  /\ [L EXCEPT ![i] = rec] \in [Instances -> LoopRecord]
         /\ [C EXCEPT ![s] = r] \in [Slots -> CallRecord]
         /\ ClanInv([L EXCEPT ![i] = rec], m, [C EXCEPT ![s] = r])
<1> DEFINE D == [C EXCEPT ![s] = r]
           M == [L EXCEPT ![i] = rec]
<1>1. D \in [Slots -> CallRecord] /\ \A t \in Slots : Belongs(D[t])
  BY DEF ClanInv
<1>2. ASSUME NEW j \in Instances \ {i}, NEW t \in Slots, Flying(C[t], j)
      PROVE  Flying(D[t], j)
  BY <1>2
<1>3. D[s] = r /\ M[i] = rec /\ \A j \in Instances \ {i} : M[j] = L[j]
  OBVIOUS
<1>4. M \in [Instances -> LoopRecord]
  OBVIOUS
<1> HIDE DEF D, M
<1> QED
  BY <1>1, <1>2, <1>3, <1>4 DEF ClanInv

-----------------------------------------------------------------------------
(* The parts of the actions.                                               *)

LEMMA ClanOf ==
  ASSUME PollerInv, NEW c \in Clans
  PROVE  /\ loop[c] \in [Instances -> LoopRecord]
         /\ manager[c] \in Instances \cup {None}
         /\ call[c] \in [Slots -> CallRecord]
         /\ ClanInv(loop[c], manager[c], call[c])
BY DEF PollerInv, PollerTyped

\* One clan changes its loops and requests.
LEMMA ClanStep ==
  ASSUME PollerInv, DataTyped', NEW c \in Clans,
         NEW L \in [Instances -> LoopRecord], NEW C \in [Slots -> CallRecord],
         ClanInv(L, manager[c], C),
         loop' = [loop EXCEPT ![c] = L], call' = [call EXCEPT ![c] = C],
         UNCHANGED manager
  PROVE  PollerInv'
<1>1. manager' = [manager EXCEPT ![c] = manager[c]] /\ manager[c] \in Instances \cup {None}
  BY DEF PollerInv, PollerTyped
<1> QED
  BY <1>1, OneClan

\* Only a slot changes.
LEMMA CallStep ==
  ASSUME PollerInv, DataTyped', NEW c \in Clans, NEW s \in Slots,
         NEW r \in CallRecord, Belongs(r),
         \A i \in Instances : Flying(call[c][s], i) => Flying(r, i),
         call' = [call EXCEPT ![c][s] = r], UNCHANGED <<loop, manager>>
  PROVE  PollerInv'
<1> DEFINE C == [call[c] EXCEPT ![s] = r]
<1>1. C \in [Slots -> CallRecord] /\ ClanInv(loop[c], manager[c], C)
  BY ClanOf, SetCall
<1>2. loop' = [loop EXCEPT ![c] = loop[c]] /\ loop[c] \in [Instances -> LoopRecord]
  BY DEF PollerInv, PollerTyped
<1>3. call' = [call EXCEPT ![c] = C]
  OBVIOUS
<1> HIDE DEF C
<1> QED
  BY <1>1, <1>2, <1>3, ClanStep

\* A loop of the clan and a slot that carried nothing for another loop change.
LEMMA LoopStep ==
  ASSUME PollerInv, DataTyped', NEW c \in Clans, NEW i \in Instances,
         NEW rec \in LoopRecord, NEW s \in Slots, NEW r \in CallRecord,
         Belongs(r), \A j \in Instances \ {i} : ~Flying(call[c][s], j),
         rec.timer => rec.running,
         rec.running \/ rec.backfilling => i = manager[c],
         rec.running => rec.timer \/ Flying(r, i),
         loop' = [loop EXCEPT ![c][i] = rec],
         call' = [call EXCEPT ![c][s] = r], UNCHANGED manager
  PROVE  PollerInv'
<1> DEFINE L == [loop[c] EXCEPT ![i] = rec]
           C == [call[c] EXCEPT ![s] = r]
<1>1. /\ L \in [Instances -> LoopRecord] /\ C \in [Slots -> CallRecord]
      /\ ClanInv(L, manager[c], C)
  BY ClanOf, SetLoop
<1>2. loop' = [loop EXCEPT ![c] = L] /\ call' = [call EXCEPT ![c] = C]
  OBVIOUS
<1> HIDE DEF L, C
<1> QED
  BY <1>1, <1>2, ClanStep

\* What stopping and discarding the loop in the map leaves.
LEMMA DiscardedTyped ==
  ASSUME PollerInv, NEW c \in Clans
  PROVE  /\ Discarded(c) \in [Instances -> LoopRecord]
         /\ \A i \in Instances :
              ~(\/ Discarded(c)[i].running \/ Discarded(c)[i].timer
                \/ Discarded(c)[i].backfilling)
<1>1. /\ loop[c] \in [Instances -> LoopRecord]
      /\ \A i \in Instances : /\ loop[c][i].timer => loop[c][i].running
                              /\ loop[c][i].running \/ loop[c][i].backfilling
                                   => i = manager[c]
  BY ClanOf DEF ClanInv
<1>2. CASE manager[c] = None
  BY <1>1, <1>2, ExternalAssumption DEF Discarded
<1>3. CASE manager[c] # None
  <2>1. manager[c] \in Instances
    BY <1>3, ClanOf
  <2> DEFINE st == Stopped(loop[c][manager[c]])
  <2>2. st \in LoopRecord /\ ~st.running /\ ~st.timer /\ ~st.backfilling
    BY <1>1, <2>1 DEF Stopped, LoopRecord
  <2>3. Discarded(c) = [loop[c] EXCEPT ![manager[c]] = st]
    BY <1>3 DEF Discarded
  <2> HIDE DEF st
  <2> QED
    BY <1>1, <2>1, <2>2, <2>3
<1> QED
  BY <1>2, <1>3

LEMMA FreshInstance ==
  ASSUME NEW c \in Clans, FreeInstances(c) # {}
  PROVE  LET i == CHOOSE j \in FreeInstances(c) : TRUE
         IN  /\ i \in Instances /\ i # manager[c]
             /\ \A s \in Slots : call[c][s].loop # i
BY DEF FreeInstances

LEMMA RestartTyped ==
  ASSUME PollerInv, DataTyped', NEW c \in Clans, NEW k \in Codes \cup {None},
         RestartClan(c, k)
  PROVE  PollerInv'
<1> DEFINE D == Discarded(c)
<1>0. /\ D \in [Instances -> LoopRecord]
      /\ \A i \in Instances : ~(D[i].running \/ D[i].timer \/ D[i].backfilling)
      /\ call[c] \in [Slots -> CallRecord]
      /\ \A s \in Slots : Belongs(call[c][s])
  BY DiscardedTyped, ClanOf DEF ClanInv
<1>1. CASE k = None
  <2>1. /\ loop' = [loop EXCEPT ![c] = D]
        /\ manager' = [manager EXCEPT ![c] = None] /\ UNCHANGED call
    BY <1>1 DEF RestartClan
  <2>2. ClanInv(D, None, call[c])
    BY <1>0 DEF ClanInv
  <2>3. call' = [call EXCEPT ![c] = call[c]]
    BY <2>1 DEF PollerInv, PollerTyped
  <2> HIDE DEF D
  <2> QED
    BY <1>0, <2>1, <2>2, <2>3, OneClan
<1>2. CASE k # None
  <2> DEFINE i == CHOOSE j \in FreeInstances(c) : TRUE
             first == k \notin done'
             L == [D EXCEPT ![i] = Started(first)]
  <2>1. /\ i \in Instances
        /\ loop' = [loop EXCEPT ![c] = L]
        /\ manager' = [manager EXCEPT ![c] = i]
    BY <1>2, FreshInstance DEF RestartClan
  <2>2. PICK C \in [Slots -> CallRecord] :
          /\ call' = [call EXCEPT ![c] = C]
          /\ \A s \in Slots : Belongs(C[s])
          /\ first => \E s \in Slots : Flying(C[s], i)
    <3>1. CASE first
      <4>1. PICK s \in Slots : Ask(c, s, "initial", i, k, 1)
        BY <1>2, <3>1 DEF RestartClan
      <4> DEFINE r == Asking("initial", c, i, k, 1)
      <4>2. r \in CallRecord /\ Belongs(r)
        BY <1>2, <2>1, AskingTyped, NoneTyped, ExternalAssumption DEF PollerInv
      <4>3. Flying(r, i)
        BY DEF Flying, Asking
      <4> DEFINE C == [call[c] EXCEPT ![s] = r]
      <4>4. call' = [call EXCEPT ![c] = C]
        BY <4>1 DEF Ask
      <4> HIDE DEF r, i
      <4>5. /\ C \in [Slots -> CallRecord] /\ Flying(C[s], i)
            /\ \A t \in Slots : Belongs(C[t])
        BY <1>0, <4>2, <4>3
      <4> HIDE DEF C
      <4> QED
        BY <4>4, <4>5
    <3>2. CASE ~first
      <4>1. call' = [call EXCEPT ![c] = call[c]]
        BY <1>2, <3>2 DEF RestartClan, PollerInv, PollerTyped
      <4> QED
        BY <1>0, <3>2, <4>1
    <3> QED
      BY <3>1, <3>2
  <2>3. /\ Started(first) \in LoopRecord /\ Started(first).timer = ~first
        /\ Started(first).running /\ ~Started(first).backfilling
    BY DEF Started, LoopRecord
  <2>4. L \in [Instances -> LoopRecord] /\ ClanInv(L, i, C)
    <3> HIDE DEF i, D, first
    <3> QED
      BY <1>0, <2>1, <2>2, <2>3 DEF ClanInv
  <2> HIDE DEF L, i
  <2> QED
    BY <2>1, <2>2, <2>4, OneClan
<1> QED
  BY <1>1, <1>2

-----------------------------------------------------------------------------
(* The actions.                                                            *)

LEMMA TimerTyped ==
  ASSUME PollerInv, NEW c \in Clans, NEW i \in Instances, TimerFires(c, i)
  PROVE  PollerInv'
<1>0. DataTyped' /\ UNCHANGED manager
  BY DEF TimerFires, PollerInv, DataTyped
<1>1. /\ loop[c][i] \in LoopRecord /\ loop[c][i].timer
      /\ loop[c][i].running /\ i = manager[c]
  BY ClanOf DEF TimerFires, ClanInv
<1>2. CASE LoopCode(c) = None
  <2> DEFINE rec == Stopped(loop[c][i])
             L == [loop[c] EXCEPT ![i] = rec]
  <2>1. rec \in LoopRecord /\ ~rec.running /\ ~rec.timer /\ ~rec.backfilling
    BY <1>1 DEF Stopped, LoopRecord
  <2>2. loop' = [loop EXCEPT ![c] = L] /\ UNCHANGED call
    BY <1>2 DEF TimerFires
  <2>3. L \in [Instances -> LoopRecord] /\ ClanInv(L, manager[c], call[c])
    <3> HIDE DEF rec
    <3> QED
      BY <2>1, ClanOf DEF ClanInv
  <2>4. call' = [call EXCEPT ![c] = call[c]] /\ call[c] \in [Slots -> CallRecord]
    BY <2>2 DEF PollerInv, PollerTyped
  <2> HIDE DEF L
  <2> QED
    BY <1>0, <2>2, <2>3, <2>4, ClanStep
<1>3. CASE LoopCode(c) # None
  <2> DEFINE k == LoopCode(c)
             r == Asking("poll", c, i, k, 0)
             rec == [loop[c][i] EXCEPT !.timer = FALSE, !.inFlight = TRUE]
  <2>1. PICK s \in Slots : Ask(c, s, "poll", i, k, 0)
    BY <1>3 DEF TimerFires
  <2>2. k \in Codes
    BY <1>3, ExternalAssumption
       DEF LoopCode, ClanCode, PollerInv, DataTyped, Clans
  <2>3. r \in CallRecord /\ Belongs(r)
    BY <2>2, AskingTyped, NoneTyped, ExternalAssumption DEF PollerInv
  <2>4. Flying(r, i) /\ \A j \in Instances : ~Flying(call[c][s], j)
    BY <2>1 DEF Flying, Asking, Ask, FreeSlots
  <2>5. /\ rec \in LoopRecord /\ ~rec.timer
        /\ rec.running \/ rec.backfilling => i = manager[c]
    BY <1>1 DEF LoopRecord
  <2>6. loop' = [loop EXCEPT ![c][i] = rec] /\ call' = [call EXCEPT ![c][s] = r]
    BY <1>3, <2>1 DEF TimerFires, Ask, PollerInv, PollerTyped
  <2> HIDE DEF r, rec
  <2> QED
    BY <1>0, <2>3, <2>4, <2>5, <2>6, LoopStep
<1> QED
  BY <1>2, <1>3

LEMMA ContinueTyped ==
  ASSUME PollerInv, NEW c \in Clans, NEW s \in Slots,
         call[c][s].pc # "idle", Continue(c, s), UNCHANGED manager,
         snapshot' \in [Clans -> [Codes -> [0..Weeks -> Nat]]],
         events' \in Nat, UNCHANGED <<code, deleted, upstream>>
  PROVE  PollerInv'
<1> DEFINE x == call[c][s]
           i == x.loop
<1>0. /\ x \in CallRecord /\ Belongs(x) /\ x.code \in Codes
      /\ x.kind # "manual" => i \in Instances
      /\ \A j \in Instances : Flying(x, j) => i = j
  BY ClanOf DEF ClanInv, Belongs, Flying, CallRecord
<1>1. DataTyped'
  BY <1>0 DEF Continue, Marked, PollerInv, DataTyped
<1>2. CASE /\ x.kind = "manual" /\ call' = [call EXCEPT ![c][s] = NoCall]
           /\ UNCHANGED loop
  <2>1. \A j \in Instances : ~Flying(x, j)
    BY <1>0, <1>2, ExternalAssumption DEF Flying, Belongs
  <2> QED
    BY <1>1, <1>2, <2>1, NoneTyped, CallStep
<1>3. CASE /\ x.kind # "manual" /\ GoesOn(loop[c][i], x.kind, x.week)
           /\ call' = [call EXCEPT ![c][s] =
                         Asking(x.kind, c, i, x.code, x.week + 1)]
           /\ UNCHANGED loop
  <2> DEFINE r == Asking(x.kind, c, i, x.code, x.week + 1)
  <2>1. x.week + 1 \in 0..Weeks /\ x.kind \in {"initial", "backfill"}
    BY <1>0, <1>3, ExternalAssumption DEF GoesOn, CallRecord
  <2>2. r \in CallRecord /\ Belongs(r)
    BY <1>0, <1>3, <2>1, AskingTyped, ExternalAssumption DEF PollerInv
  <2>3. \A j \in Instances : Flying(x, j) => Flying(r, j)
    BY <1>0 DEF Flying, Asking
  <2>4. call' = [call EXCEPT ![c][s] = r]
    BY <1>3
  <2> HIDE DEF r
  <2> QED
    BY <1>1, <1>3, <2>2, <2>3, <2>4, CallStep
<1>4. CASE /\ x.kind # "manual" /\ ~GoesOn(loop[c][i], x.kind, x.week)
           /\ call' = [call EXCEPT ![c][s] = NoCall]
           /\ loop' = [loop EXCEPT ![c][i] = AfterRun(@, x.kind)]
  <2> DEFINE rec == AfterRun(loop[c][i], x.kind)
  <2>1. /\ i \in Instances /\ loop[c][i] \in LoopRecord
        /\ loop[c][i].running \/ loop[c][i].backfilling => i = manager[c]
    BY <1>0, <1>4, ClanOf DEF ClanInv
  <2>2. /\ rec \in LoopRecord /\ rec.timer = rec.running
        /\ rec.running \/ rec.backfilling => i = manager[c]
    BY <2>1 DEF AfterRun, Scheduled, LoopRecord
  <2>3. loop' = [loop EXCEPT ![c][i] = rec]
    BY <1>4, <2>1 DEF PollerInv, PollerTyped
  <2>4. \A j \in Instances \ {i} : ~Flying(x, j)
    BY <1>0
  <2> HIDE DEF rec
  <2> QED
    BY <1>1, <1>4, <2>1, <2>2, <2>3, <2>4, NoneTyped, LoopStep
<1> QED
  BY <1>2, <1>3, <1>4 DEF Continue

LEMMA IngestTyped ==
  ASSUME PollerInv, NEW c \in Clans, NEW s \in Slots,
         Ingest(c, s) \/ IngestThrows(c, s)
  PROVE  PollerInv'
<1> DEFINE x == call[c][s]
<1>0. x \in CallRecord /\ Belongs(x) /\ DataTyped
  BY ClanOf DEF ClanInv, PollerInv
<1>1. CASE Answered(c, s)
  <2> DEFINE r == [x EXCEPT !.pc = "settings", !.body = Shown(x.code, x.week)]
  <2>1. x.pc = "asking" /\ x.code \in Codes
    BY <1>0, <1>1 DEF Answered, Belongs
  <2>2. Shown(x.code, x.week) \in Nat
    BY <1>0, <2>1 DEF Shown, DataTyped
  <2>3. r \in CallRecord /\ Belongs(r)
    BY <1>0, <2>1, <2>2 DEF CallRecord, Belongs
  <2>4. \A i \in Instances : Flying(x, i) => Flying(r, i)
    BY <1>0 DEF Flying, CallRecord
  <2>5. call' = [call EXCEPT ![c][s] = r]
    BY <1>0, <1>1 DEF Answered, PollerInv, PollerTyped, CallRecord
  <2>6. DataTyped' /\ UNCHANGED <<loop, manager>>
    BY <1>0, <1>1 DEF Answered, DataTyped
  <2> HIDE DEF r
  <2> QED
    BY <2>3, <2>4, <2>5, <2>6, CallStep
<1>2. CASE NotModified(c, s)
  BY <1>0, <1>2, ContinueTyped DEF NotModified, DataTyped
<1>3. CASE IngestThrows(c, s)
  <2>1. events' \in Nat
    BY <1>0, <1>3 DEF IngestThrows, Event, DataTyped
  <2> QED
    BY <1>0, <1>3, <2>1, ContinueTyped DEF IngestThrows, DataTyped
<1>4. CASE InsertSnapshot(c, s)
  <2> DEFINE W == 0..Weeks
  <2>1. x.pc = "settings" /\ x.code \in Codes /\ x.body \in Nat /\ x.week \in W
    BY <1>0, <1>4 DEF InsertSnapshot, Belongs, CallRecord
  <2>2. /\ snapshot \in [Clans -> [Codes -> [W -> Nat]]]
        /\ snapshot' = [snapshot EXCEPT ![c][x.code][x.week] = x.body]
    BY <1>0, <1>4 DEF InsertSnapshot, DataTyped
  <2> HIDE DEF W
  <2>3. [snapshot[c][x.code] EXCEPT ![x.week] = x.body] \in [W -> Nat]
    BY <2>1, <2>2
  <2>4. snapshot' \in [Clans -> [Codes -> [W -> Nat]]]
    BY <2>1, <2>2, <2>3
  <2> USE DEF W
  <2> QED
    BY <1>0, <1>4, <2>1, <2>4, ContinueTyped DEF InsertSnapshot, DataTyped
<1> QED
  BY <1>1, <1>2, <1>3, <1>4 DEF Ingest

LEMMA SettingsTyped ==
  ASSUME PollerInv, NEW c \in Clans, NEW k \in Codes \cup {None},
         PutConfig(c, k) \/ PutChestTracker(c, k)
  PROVE  PollerInv'
<1>1. /\ code' = [code EXCEPT ![c] = k] /\ done' \subseteq done
      /\ UNCHANGED <<deleted, snapshot, upstream>> /\ RestartClan(c, k)
  BY DEF PutConfig, PutChestTracker
<1>2. events' \in Nat
  BY DEF PutConfig, PutChestTracker, Event, PollerInv, DataTyped
<1>3. code' \in [Clans -> Codes \cup {None}] /\ done' \subseteq Codes
  BY <1>1 DEF PollerInv, DataTyped
<1>4. DataTyped'
  BY <1>1, <1>2, <1>3 DEF PollerInv, DataTyped
<1> QED
  BY <1>1, <1>4, RestartTyped

LEMMA BackfillTyped ==
  ASSUME PollerInv, NEW c \in Clans, PostBackfill(c)
  PROVE  PollerInv'
<1>0. DataTyped'
  BY DEF PostBackfill, Event, PollerInv, DataTyped
<1>1. ASSUME NEW i \in Instances, NEW rec \in LoopRecord, NEW k \in Codes \cup {None},
             RunBackfill(c, i, rec, k), manager' = [manager EXCEPT ![c] = i],
             \/ i = manager[c] /\ rec = loop[c][i]
             \/ manager[c] = None /\ rec = NoLoop
      PROVE  PollerInv'
  <2> DEFINE q == [rec EXCEPT !.backfilling = TRUE, !.inFlight = TRUE]
             r == Asking("backfill", c, i, k, 1)
             L == [loop[c] EXCEPT ![i] = q]
  <2>1. PICK s \in Slots : Ask(c, s, "backfill", i, k, 1)
    BY <1>1 DEF RunBackfill
  <2>2. r \in CallRecord /\ Belongs(r) /\ Flying(r, i)
    <3>1. k \in Codes
      BY <1>1 DEF RunBackfill
    <3>2. r \in CallRecord /\ Belongs(r)
      BY <3>1, AskingTyped, NoneTyped, ExternalAssumption DEF PollerInv
    <3> QED
      BY <3>2 DEF Flying, Asking
  <2>3. \A j \in Instances : ~Flying(call[c][s], j)
    BY <2>1 DEF Ask, FreeSlots, Flying
  <2> DEFINE C == [call[c] EXCEPT ![s] = r]
  <2>4. call' = [call EXCEPT ![c] = C] /\ loop' = [loop EXCEPT ![c] = L]
    BY <1>1, <2>1 DEF Ask, RunBackfill
  <2>5. q \in LoopRecord /\ q.timer = rec.timer /\ q.running = rec.running
    BY <1>1 DEF LoopRecord
  <2>6. C \in [Slots -> CallRecord] /\ ClanInv(loop[c], manager[c], C)
    <3> HIDE DEF r
    <3> QED
      BY <2>2, <2>3, ClanOf, SetCall
  <2>7. Flying(C[s], i)
    <3> HIDE DEF r
    <3> QED
      BY <2>2, ClanOf
  <2>8. L \in [Instances -> LoopRecord] /\ ClanInv(L, i, C)
    <3>1. rec.timer => rec.running
      BY <1>1, ClanOf DEF ClanInv, NoLoop
    <3>2. /\ L \in [Instances -> LoopRecord] /\ L[i] = q
          /\ \A j \in Instances \ {i} : L[j] = loop[c][j]
      <4> HIDE DEF q
      <4> QED
        BY <2>5, ClanOf
    <3>3. ASSUME NEW j \in Instances \ {i}
          PROVE  ~loop[c][j].running /\ ~loop[c][j].backfilling
      BY <1>1, ClanOf, ExternalAssumption DEF ClanInv
    <3> HIDE DEF L, q, C
    <3> QED
      BY <2>5, <2>6, <2>7, <3>1, <3>2, <3>3 DEF ClanInv
  <2> HIDE DEF L, C
  <2> QED
    BY <1>0, <1>1, <2>4, <2>6, <2>8, OneClan
<1>2. CASE /\ manager[c] # None /\ UNCHANGED manager
           /\ RunBackfill(c, manager[c], loop[c][manager[c]], LoopCode(c))
  <2>1. manager[c] \in Instances /\ loop[c][manager[c]] \in LoopRecord
    BY <1>2, ClanOf
  <2>2. LoopCode(c) \in Codes \cup {None}
    BY ExternalAssumption DEF LoopCode, ClanCode, PollerInv, DataTyped, Clans
  <2>3. manager' = [manager EXCEPT ![c] = manager[c]]
    BY <1>2 DEF PollerInv, PollerTyped
  <2> QED
    BY <1>1, <1>2, <2>1, <2>2, <2>3
<1>3. CASE /\ manager[c] = None /\ FreeInstances(c) # {}
           /\ LET i == CHOOSE j \in FreeInstances(c) : TRUE IN
              /\ manager' = [manager EXCEPT ![c] = i]
              /\ RunBackfill(c, i, NoLoop, ClanCode(c))
  <2>1. ClanCode(c) \in Codes \cup {None}
    BY DEF ClanCode, PollerInv, DataTyped
  <2> QED
    BY <1>1, <1>3, <2>1, FreshInstance, NoneTyped
<1> QED
  BY <1>2, <1>3 DEF PostBackfill

LEMMA FetchTyped ==
  ASSUME PollerInv, NEW c \in Clans, NEW w \in 0..Weeks, PostFetch(c, w)
  PROVE  PollerInv'
<1> DEFINE r == Asking("manual", c, None, code[c], w)
<1>1. PICK s \in Slots : Ask(c, s, "manual", None, code[c], w)
  BY DEF PostFetch
<1>2. DataTyped' /\ UNCHANGED <<loop, manager>> /\ code[c] \in Codes
  BY DEF PostFetch, Event, PollerInv, DataTyped
<1>3. r \in CallRecord /\ Belongs(r)
  BY <1>2, AskingTyped DEF PollerInv
<1>4. \A i \in Instances : ~Flying(call[c][s], i)
  BY <1>1 DEF Ask, FreeSlots, Flying
<1>5. call' = [call EXCEPT ![c][s] = r]
  BY <1>1 DEF Ask
<1> HIDE DEF r
<1> QED
  BY <1>2, <1>3, <1>4, <1>5, CallStep

\* Steps that leave the loops and the requests alone.
LEMMA QuietTyped ==
  ASSUME PollerInv, UNCHANGED <<manager, loop, call>>, DataTyped'
  PROVE  PollerInv'
BY DEF PollerInv, PollerTyped, ClanInv, Belongs, Flying

LEMMA BootTyped ==
  ASSUME DataTyped
  PROVE  /\ BootManager \in [Clans -> Instances \cup {None}]
         /\ BootLoop \in [Clans -> [Instances -> LoopRecord]]
         /\ BootCall \in [Clans -> [Slots -> CallRecord]]
         /\ \A c \in Clans : ClanInv(BootLoop[c], BootManager[c], BootCall[c])
<1>1. BootInstance \in Instances /\ BootSlot \in Slots
  BY ExternalAssumption DEF BootInstance, BootSlot
<1>2. ASSUME NEW c \in Clans
      PROVE  /\ Backfills(c) \in BOOLEAN
             /\ Started(Backfills(c)) \in LoopRecord
             /\ Backfills(c) => code[c] \in Codes
  <2>1. Backfills(c) \in BOOLEAN
    BY Zenon DEF Backfills, Polls
  <2>2. Backfills(c) => code[c] \in Codes
    BY DEF Backfills, Polls, ClanCode, DataTyped
  <2> QED
    BY <2>1, <2>2, StartedTyped
<1> DEFINE r(c) == Asking("initial", c, BootInstance, code[c], 1)
<1>3. ASSUME NEW c \in Clans, Backfills(c)
      PROVE  r(c) \in CallRecord /\ Belongs(r(c)) /\ Flying(r(c), BootInstance)
  <2>1. r(c) \in CallRecord /\ Belongs(r(c))
    BY <1>1, <1>2, <1>3, AskingTyped, NoneTyped, ExternalAssumption
  <2> QED
    BY <2>1 DEF Flying, Asking
<1> HIDE DEF r
<1>4. BootCall = [c \in Clans |-> [s \in Slots |->
                    IF Backfills(c) /\ s = BootSlot THEN r(c) ELSE NoCall]]
  BY DEF BootCall, r
<1>5. BootManager \in [Clans -> Instances \cup {None}]
  BY <1>1 DEF BootManager
<1>6. BootLoop \in [Clans -> [Instances -> LoopRecord]]
  BY <1>2, NoneTyped DEF BootLoop
<1>7. BootCall \in [Clans -> [Slots -> CallRecord]]
  BY <1>3, <1>4, NoneTyped
<1>8. ASSUME NEW c \in Clans
      PROVE  ClanInv(BootLoop[c], BootManager[c], BootCall[c])
  <2>1. /\ Started(Backfills(c)).timer = ~Backfills(c)
        /\ Started(Backfills(c)).running /\ ~Started(Backfills(c)).backfilling
    BY <1>2 DEF Started
  <2>2. ~NoLoop.running /\ ~NoLoop.timer /\ ~NoLoop.backfilling
    BY DEF NoLoop
  <2>3. \A s \in Slots : Belongs(BootCall[c][s])
    BY <1>3, <1>4, NoneTyped
  <2>4. Backfills(c) => Flying(BootCall[c][BootSlot], BootInstance)
    BY <1>1, <1>3, <1>4
  <2>5. \A i \in Instances : BootLoop[c][i] =
          IF Polls(c) /\ i = BootInstance THEN Started(Backfills(c)) ELSE NoLoop
    BY DEF BootLoop
  <2>6. BootManager[c] = IF Polls(c) THEN BootInstance ELSE None
    BY DEF BootManager
  <2> QED
    BY <1>1, <2>1, <2>2, <2>3, <2>4, <2>5, <2>6 DEF ClanInv
<1> QED
  BY <1>5, <1>6, <1>7, <1>8

LEMMA PollerInit == Init => PollerInv
<1> SUFFICES ASSUME Init PROVE PollerInv
  OBVIOUS
<1> DEFINE empty == [w \in 0..Weeks |-> 0]
<1>1. empty \in [0..Weeks -> Nat] /\ snapshot = [c \in Clans |-> [k \in Codes |-> empty]]
  BY DEF Init
<1>2. snapshot \in [Clans -> [Codes -> [0..Weeks -> Nat]]]
  <2> HIDE DEF empty
  <2> QED
    BY <1>1
<1>3. DataTyped
  BY <1>2, ExternalAssumption DEF Init, DataTyped
<1>4. manager = BootManager /\ loop = BootLoop /\ call = BootCall
  BY DEF Init
<1> QED
  BY <1>3, <1>4, BootTyped DEF PollerInv, PollerTyped

LEMMA RebootTyped == ASSUME PollerInv, Reboot PROVE PollerInv'
<1>1. DataTyped'
  BY DEF Reboot, Event, PollerInv, DataTyped
<1>2. manager' = BootManager /\ loop' = BootLoop /\ call' = BootCall
  BY DEF Reboot
<1>3. PollerTyped'
  BY <1>2, BootTyped DEF PollerInv, PollerTyped
<1>4. ASSUME NEW c \in Clans
      PROVE  ClanInv(loop'[c], manager'[c], call'[c])
  BY <1>2, BootTyped DEF PollerInv
<1> QED
  BY <1>1, <1>3, <1>4 DEF PollerInv, ClanInv, Belongs, Flying

LEMMA PollerStep == PollerInv /\ [Next]_vars => PollerInv'
<1> SUFFICES ASSUME PollerInv, [Next]_vars PROVE PollerInv'
  OBVIOUS
<1>1. ASSUME NEW c \in Clans, NEW i \in Instances, TimerFires(c, i)
      PROVE  PollerInv'
  BY <1>1, TimerTyped
<1>2. ASSUME NEW c \in Clans, NEW s \in Slots, Ingest(c, s) \/ IngestThrows(c, s)
      PROVE  PollerInv'
  BY <1>2, IngestTyped
<1>3. ASSUME NEW c \in Clans, NEW k \in Codes \cup {None},
             PutConfig(c, k) \/ PutChestTracker(c, k)
      PROVE  PollerInv'
  BY <1>3, SettingsTyped
<1>4. ASSUME NEW c \in Clans, PostBackfill(c)
      PROVE  PollerInv'
  BY <1>4, BackfillTyped
<1>5. ASSUME NEW c \in Clans, NEW w \in 0..Weeks, PostFetch(c, w)
      PROVE  PollerInv'
  BY <1>5, FetchTyped
<1>6. ASSUME NEW c \in Clans, DeleteClan(c) \/ RestoreClan(c)
      PROVE  PollerInv'
  <2>1. /\ DataTyped' /\ UNCHANGED <<manager, loop, call>>
    BY <1>6 DEF DeleteClan, RestoreClan, Event, PollerInv, DataTyped
  <2> QED
    BY <2>1, QuietTyped
<1>7. ASSUME NEW k \in Codes, UpstreamMoves(k)
      PROVE  PollerInv'
  <2>1. DataTyped' /\ UNCHANGED <<manager, loop, call>>
    BY <1>7 DEF UpstreamMoves, Event, PollerInv, DataTyped
  <2> QED
    BY <2>1, QuietTyped
<1>8. CASE UNCHANGED vars
  BY <1>8, QuietTyped DEF vars, PollerInv, DataTyped
<1> QED
  BY <1>1, <1>2, <1>3, <1>4, <1>5, <1>6, <1>7, <1>8, RebootTyped DEF Next

\* The types are right.
THEOREM PollerTypesCorrect == Spec => []TypeOK
<1>1. PollerInv => TypeOK
  BY DEF PollerInv, DataTyped, PollerTyped, TypeOK
<1> QED
  BY <1>1, PollerInit, PollerStep, PTL DEF Spec

\* A loop that polls never runs dry, however many polls and backfills, initial
\* or on demand, share it.
THEOREM PollingGoesOn == Spec => []RunningGoesOn
<1>1. PollerInv => RunningGoesOn
  BY DEF PollerInv, ClanInv, RunningGoesOn, WillSchedule, Flying
<1> QED
  BY <1>1, PollerInit, PollerStep, PTL DEF Spec

-----------------------------------------------------------------------------
(* Discarded loops.                                                        *)

Silent ==
  \A c \in Clans, s \in Slots :
    Begins(c, s) /\ call'[c][s].kind # "manual" => call'[c][s].loop = manager'[c]

LEMMA QuietSilent == ASSUME UNCHANGED call PROVE Silent
BY DEF Silent, Begins

\* One slot changes, and carries no request but for the loop that is held.
LEMMA PutSilent ==
  ASSUME PollerTyped, NEW c \in Clans, NEW s \in Slots, NEW r,
         call' = [call EXCEPT ![c][s] = r],
         r.pc = "asking" => r.kind = "manual" \/ r.loop = manager'[c]
  PROVE  Silent
<1> SUFFICES ASSUME NEW d \in Clans, NEW t \in Slots, Begins(d, t),
                    call'[d][t].kind # "manual"
             PROVE  call'[d][t].loop = manager'[d]
  BY DEF Silent
<1>1. CASE d = c /\ t = s
  BY <1>1 DEF PollerTyped, Begins
<1>2. CASE ~(d = c /\ t = s)
  <2>1. call'[d][t] = call[d][t]
    BY <1>2 DEF PollerTyped
  <2> QED
    BY <2>1 DEF Begins
<1> QED
  BY <1>1, <1>2

LEMMA AskSilent ==
  ASSUME PollerTyped, NEW c \in Clans, NEW s, NEW kind, NEW i, NEW k, NEW w,
         Ask(c, s, kind, i, k, w), kind = "manual" \/ i = manager'[c]
  PROVE  Silent
<1> DEFINE r == Asking(kind, c, i, k, w)
<1>1. s \in Slots /\ call' = [call EXCEPT ![c][s] = r]
  BY DEF Ask, FreeSlots
<1>2. r.kind = kind /\ r.loop = i
  BY DEF Asking
<1> HIDE DEF r
<1> QED
  BY <1>1, <1>2, PutSilent

LEMMA ContinueSilent ==
  ASSUME PollerInv, NEW c \in Clans, NEW s \in Slots,
         call[c][s].pc # "idle", Continue(c, s), UNCHANGED manager
  PROVE  Silent
<1> DEFINE x == call[c][s]
           r == Asking(x.kind, c, x.loop, x.code, x.week + 1)
<1>0. PollerTyped /\ x \in CallRecord /\ Belongs(x)
  BY ClanOf DEF ClanInv, PollerInv
<1>1. CASE call' = [call EXCEPT ![c][s] = NoCall]
  BY <1>0, <1>1, PutSilent DEF NoCall
<1>2. CASE /\ x.kind # "manual" /\ GoesOn(loop[c][x.loop], x.kind, x.week)
           /\ call' = [call EXCEPT ![c][s] = r]
  <2>1. x.loop \in Instances
    BY <1>0, <1>2 DEF Belongs, CallRecord
  <2>2. x.loop = manager'[c]
    BY <1>2, <2>1, ClanOf DEF GoesOn, ClanInv
  <2>3. r.loop = x.loop
    BY DEF Asking
  <2> HIDE DEF r
  <2> QED
    BY <1>0, <1>2, <2>2, <2>3, PutSilent
<1> QED
  BY <1>1, <1>2 DEF Continue

LEMMA RestartSilent ==
  ASSUME PollerTyped, NEW c \in Clans, NEW k, RestartClan(c, k)
  PROVE  Silent
<1>1. CASE UNCHANGED call
  BY <1>1, QuietSilent
<1>2. CASE /\ FreeInstances(c) # {}
           /\ LET i == CHOOSE j \in FreeInstances(c) : TRUE IN
              /\ manager' = [manager EXCEPT ![c] = i]
              /\ \E s \in Slots : Ask(c, s, "initial", i, k, 1)
  <2> DEFINE i == CHOOSE j \in FreeInstances(c) : TRUE
  <2>1. PICK s \in Slots : Ask(c, s, "initial", i, k, 1)
    BY <1>2
  <2>2. i = manager'[c]
    BY <1>2 DEF PollerTyped
  <2> HIDE DEF i
  <2> QED
    BY <2>1, <2>2, AskSilent
<1> QED
  BY <1>1, <1>2 DEF RestartClan

LEMMA StepSilent ==
  ASSUME PollerInv, Next
  PROVE  Silent
<1>0. PollerTyped
  BY DEF PollerInv
<1>1. ASSUME NEW c \in Clans, NEW i \in Instances, TimerFires(c, i)
      PROVE  Silent
  <2>1. CASE UNCHANGED call
    BY <2>1, QuietSilent
  <2>2. CASE \E s \in Slots : Ask(c, s, "poll", i, LoopCode(c), 0)
    <3>1. i = manager'[c]
      BY <1>1, ClanOf DEF TimerFires, ClanInv
    <3> QED
      BY <1>0, <2>2, <3>1, AskSilent
  <2> QED
    BY <1>1, <2>1, <2>2 DEF TimerFires
<1>2. ASSUME NEW c \in Clans, NEW s \in Slots, Ingest(c, s) \/ IngestThrows(c, s)
      PROVE  Silent
  <2>1. CASE Answered(c, s)
    <3> DEFINE x == call[c][s]
               r == [x EXCEPT !.pc = "settings", !.body = Shown(x.code, x.week)]
    <3>1. x \in CallRecord
      BY ClanOf
    <3>2. r.pc = "settings"
      BY <3>1 DEF CallRecord
    <3>3. call' = [call EXCEPT ![c][s] = r]
      BY <2>1, <3>1 DEF Answered, PollerInv, PollerTyped, CallRecord
    <3> HIDE DEF r
    <3> QED
      BY <1>0, <3>2, <3>3, PutSilent
  <2>2. CASE NotModified(c, s) \/ IngestThrows(c, s) \/ InsertSnapshot(c, s)
    BY <2>2, ContinueSilent DEF NotModified, IngestThrows, InsertSnapshot
  <2> QED
    BY <1>2, <2>1, <2>2 DEF Ingest
<1>3. ASSUME NEW c \in Clans, NEW k, PutConfig(c, k) \/ PutChestTracker(c, k)
      PROVE  Silent
  BY <1>0, <1>3, RestartSilent DEF PutConfig, PutChestTracker
<1>4. ASSUME NEW c \in Clans, PostBackfill(c)
      PROVE  Silent
  <2>1. ASSUME NEW i, NEW rec, NEW k, RunBackfill(c, i, rec, k), i = manager'[c]
        PROVE  Silent
    <3>1. PICK s \in Slots : Ask(c, s, "backfill", i, k, 1)
      BY <2>1 DEF RunBackfill
    <3> QED
      BY <1>0, <2>1, <3>1, AskSilent
  <2>2. CASE /\ UNCHANGED manager
             /\ RunBackfill(c, manager[c], loop[c][manager[c]], LoopCode(c))
    BY <2>1, <2>2
  <2>3. CASE LET i == CHOOSE j \in FreeInstances(c) : TRUE IN
             /\ manager' = [manager EXCEPT ![c] = i]
             /\ RunBackfill(c, i, NoLoop, ClanCode(c))
    <3> DEFINE i == CHOOSE j \in FreeInstances(c) : TRUE
    <3>1. RunBackfill(c, i, NoLoop, ClanCode(c)) /\ i = manager'[c]
      BY <1>0, <2>3 DEF PollerTyped
    <3> HIDE DEF i
    <3> QED
      BY <2>1, <3>1
  <2> QED
    BY <1>4, <2>2, <2>3 DEF PostBackfill
<1>5. ASSUME NEW c \in Clans, NEW w, PostFetch(c, w)
      PROVE  Silent
  <2>1. PICK s \in Slots : Ask(c, s, "manual", None, code[c], w)
    BY <1>5 DEF PostFetch
  <2> QED
    BY <1>0, <2>1, AskSilent
<1>6. ASSUME UNCHANGED call PROVE Silent
  BY <1>6, QuietSilent
<1>7. CASE Reboot
  <2> SUFFICES ASSUME NEW c \in Clans, NEW s \in Slots, Begins(c, s)
               PROVE  call'[c][s].loop = manager'[c]
    BY DEF Silent
  <2>1. Backfills(c) /\ call'[c][s] = Asking("initial", c, BootInstance, code[c], 1)
    BY <1>7 DEF Reboot, BootCall, Begins, NoCall
  <2>2. manager'[c] = BootInstance
    BY <1>7, <2>1 DEF Reboot, BootManager, Backfills
  <2> QED
    BY <2>1, <2>2 DEF Asking
<1> QED
  BY <1>1, <1>2, <1>3, <1>4, <1>5, <1>6, <1>7
     DEF Next, DeleteClan, RestoreClan, UpstreamMoves

\* A loop that restartClan has discarded begins no further ingest.
THEOREM DiscardedStartsNothing == Spec => DiscardedAsksNoMore
<1>1. PollerInv /\ [Next]_vars => [Silent]_vars
  BY StepSilent
<1>2. Silent <=> \A c \in Clans, s \in Slots :
                   Begins(c, s) /\ call'[c][s].kind # "manual"
                     => call'[c][s].loop = manager'[c]
  BY DEF Silent
<1> QED
  BY <1>1, <1>2, PollerInit, PollerStep, PTL DEF Spec, DiscardedAsksNoMore

=============================================================================
