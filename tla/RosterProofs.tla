---------------------------- MODULE RosterProofs ----------------------------
(***************************************************************************)
(* Proofs about Roster, for any names, spellings, distances, members,      *)
(* readings and events: the types; that a spelling that was merged into a  *)
(* member never becomes a member again (MergesLast); that the rows of one  *)
(* player stay with one member (RowsStayTogether); and that no neighbour   *)
(* takes the rows of a name that is somebody's own (OwnersKeepTheirRows).  *)
(*                                                                         *)
(* Whatever an activity does to the roster lets it grow (Grown): members   *)
(* keep their names and aliases, and a new one does not have a name that   *)
(* is an alias.  Every rule that a merge left has left an alias (Aliased), *)
(* until its owner is merged away.  Each name that is not excused leads to *)
(* one member at most (InOrder), and its rows are there (HousedInv).       *)
(***************************************************************************)
EXTENDS Roster, WellFoundedInduction, FiniteSetTheorems, TLAPS

-----------------------------------------------------------------------------
(* The least of a set.                                                     *)

Less == {p \in Nat \X Nat : p[1] < p[2]}

LEMMA LessWellFounded == IsWellFoundedOn(Less, Nat)
BY NatLessThanWellFounded, Zenon DEF OpToRel, Less

LEMMA LeastExists ==
  ASSUME NEW T \in SUBSET Nat, T # {}
  PROVE  \E x \in T : \A y \in T : x <= y
<1>1. PICK x \in T : \A y \in T : ~(<<y, x>> \in Less)
  BY LessWellFounded, WFMin
<1>2. \A y \in T : ~(y < x)
  BY <1>1 DEF Less
<1> QED
  BY <1>2

LEMMA FirstIn ==
  ASSUME NEW S \in SUBSET Ids
  PROVE  /\ First(S) \in S \cup {0}
         /\ First(S) = 0 <=> S = {}
<1>1. S \subseteq Nat /\ 0 \notin S
  BY RosterAssumption DEF Ids
<1>2. CASE S = {}
  BY <1>2 DEF First
<1>3. CASE S # {}
  <2>1. \E i \in S : \A j \in S : i <= j
    BY <1>1, <1>3, LeastExists
  <2>2. First(S) \in S
    BY <1>3, <2>1 DEF First
  <2> QED
    BY <1>1, <1>3, <2>2
<1> QED
  BY <1>2, <1>3

LEMMA FirstByNameIn ==
  ASSUME NEW M \in [Ids -> Member], NEW S \in SUBSET Live(M)
  PROVE  FirstByName(M, S) \in S \cup {0} /\ (FirstByName(M, S) = 0 => S = {})
<1>1. CASE S = {}
  BY <1>1 DEF FirstByName
<1>2. CASE S # {}
  <2> DEFINE T == {Order[M[i].name] : i \in S}
  <2>1. \A i \in S : M[i].name \in Names
    BY DEF Live, Member
  <2>2. T \subseteq Nat /\ T # {}
    BY <1>2, <2>1, RosterAssumption
  <2>3. PICK x \in T : \A y \in T : x <= y
    BY <2>2, LeastExists
  <2>4. \E i \in S : \A j \in S : Order[M[i].name] <= Order[M[j].name]
    BY <2>3
  <2>5. FirstByName(M, S) \in S
    BY <1>2, <2>4 DEF FirstByName
  <2>6. 0 \notin S
    BY RosterAssumption DEF Live, Ids
  <2> QED
    BY <2>5, <2>6
<1> QED
  BY <1>1, <1>2

-----------------------------------------------------------------------------
(* Rosters.                                                                *)

\* A roster with the next id, as UpsertMember takes and gives it.
RosterState == [m : [Ids -> Member], next : 1..(MaxMembers + 1), id : 0..MaxMembers]

\* Ids from the next one on have never been used.
Fresh(M, next) == \A i \in Ids : i >= next => M[i] = Gone

\* N came from M by recognising and creating members, and by marking them active.
Grown(M, N) ==
  /\ \A i \in Live(M) : N[i].name = M[i].name /\ N[i].aliases = M[i].aliases
  /\ \A i \in Live(N) \ Live(M) :
       /\ N[i].aliases = {}
       /\ \A j \in Live(M) : N[i].name \notin M[j].aliases

LEMMA GoneTyped == Gone \in Member /\ Gone.name = NoName
BY DEF Gone, Member

LEMMA LiveName ==
  ASSUME NEW M \in [Ids -> Member], NEW i \in Ids
  PROVE  /\ M[i] \in Member /\ M[i].aliases \subseteq Names
         /\ i \in Live(M) <=> M[i].name \in Names
BY RosterAssumption DEF Live, Member

LEMMA GrownSame == \A M : Grown(M, M)
BY DEF Grown

LEMMA GrownTwice ==
  ASSUME NEW M \in [Ids -> Member], NEW N \in [Ids -> Member], NEW P \in [Ids -> Member],
         Grown(M, N), Grown(N, P)
  PROVE  Grown(M, P)
<1>1. ASSUME NEW i \in Live(M)
      PROVE  i \in Live(N)
  BY <1>1 DEF Grown, Live
<1>2. ASSUME NEW i \in Live(M)
      PROVE  P[i].name = M[i].name /\ P[i].aliases = M[i].aliases
  BY <1>1 DEF Grown
<1>3. ASSUME NEW i \in Live(P) \ Live(M)
      PROVE  /\ P[i].aliases = {}
             /\ \A j \in Live(M) : P[i].name \notin M[j].aliases
  <2>1. CASE i \in Live(N)
    BY <1>3, <2>1 DEF Grown
  <2>2. CASE i \notin Live(N)
    BY <1>1, <1>3, <2>2 DEF Grown
  <2> QED
    BY <2>1, <2>2
<1> QED
  BY <1>2, <1>3 DEF Grown

\* What is an alias of a member does not become the name of another.
LEMMA GrownNames ==
  ASSUME NEW M \in [Ids -> Member], NEW N \in [Ids -> Member], Grown(M, N),
         NEW n \in Names, NEW j \in Live(M), n \in M[j].aliases
  PROVE  Named(N, n) = Named(M, n)
BY RosterAssumption DEF Grown, Named, Live

\* Members keep their aliases.
LEMMA GrownAliases ==
  ASSUME NEW M, NEW N, Grown(M, N), NEW n, NEW j \in Live(M), n \in M[j].aliases
  PROVE  j \in Live(N) /\ n \in N[j].aliases
BY DEF Grown, Live

LEMMA RecognisedIn ==
  ASSUME NEW M \in [Ids -> Member], NEW n \in Names
  PROVE  /\ Recognised(M, n) \in Live(M) \cup {0}
         /\ Recognised(M, n) = 0 =>
              Named(M, n) = {} /\ \A i \in Live(M) : n \notin M[i].aliases
<1> DEFINE A == {i \in Live(M) : n \in M[i].aliases}
           K == {i \in Keyed(M, n) : M[i].active}
<1>1. /\ Live(M) \subseteq Ids /\ A \subseteq Live(M) /\ K \subseteq Keyed(M, n)
      /\ Named(M, n) \subseteq Live(M) /\ Keyed(M, n) \subseteq Live(M)
  BY RosterAssumption DEF Live, Named, Keyed
<1>2. /\ First(Named(M, n)) \in Named(M, n) \cup {0}
      /\ First(Named(M, n)) = 0 <=> Named(M, n) = {}
      /\ First(A) \in A \cup {0} /\ (First(A) = 0 <=> A = {})
      /\ First(K) \in K \cup {0} /\ (First(K) = 0 <=> K = {})
      /\ First(Keyed(M, n)) \in Keyed(M, n) \cup {0}
      /\ First(Keyed(M, n)) = 0 <=> Keyed(M, n) = {}
  <2>1. /\ Named(M, n) \in SUBSET Ids /\ A \in SUBSET Ids /\ K \in SUBSET Ids
        /\ Keyed(M, n) \in SUBSET Ids
    BY <1>1
  <2> QED
    BY <2>1, FirstIn
<1>3. CASE Named(M, n) # {}
  BY <1>1, <1>2, <1>3 DEF Recognised
<1>4. CASE Named(M, n) = {} /\ Keyed(M, n) # {}
  <2>1. Recognised(M, n) = First(IF K # {} THEN K ELSE Keyed(M, n))
    BY <1>4 DEF Recognised, FindByDespacedKey
  <2> QED
    BY <1>1, <1>2, <1>4, <2>1
<1>5. CASE Named(M, n) = {} /\ Keyed(M, n) = {}
  BY <1>1, <1>2, <1>5 DEF Recognised
<1> QED
  BY <1>3, <1>4, <1>5

LEMMA UpsertTyped ==
  ASSUME NEW s \in RosterState, Fresh(s.m, s.next), NEW n \in Names, Room(s, n)
  PROVE  LET u == UpsertMember(s, n)
         IN  /\ u \in RosterState /\ u.next \in {s.next, s.next + 1}
             /\ Fresh(u.m, u.next) /\ Grown(s.m, u.m) /\ u.id \in Live(u.m)
<1> DEFINE u == UpsertMember(s, n)
           i == Recognised(s.m, n)
<1>1. /\ s.m \in [Ids -> Member] /\ s.next \in 1..(MaxMembers + 1) /\ s.id \in 0..MaxMembers
      /\ MaxMembers \in Nat
  BY RosterAssumption DEF RosterState
<1>2. CASE i # 0
  <2>1. i \in Live(s.m) /\ i \in Ids
    BY <1>1, <1>2, RecognisedIn DEF Live
  <2> HIDE DEF i
  <2> DEFINE N == [s.m EXCEPT ![i].active = TRUE]
  <2>2. u = [s EXCEPT !.m = N, !.id = i]
    BY <1>1, <1>2, <2>1 DEF UpsertMember, i, RosterState
  <2>3. /\ N \in [Ids -> Member]
        /\ \A j \in Ids : N[j].name = s.m[j].name /\ N[j].aliases = s.m[j].aliases
        /\ \A j \in Ids \ {i} : N[j] = s.m[j]
    BY <1>1, <2>1 DEF Member
  <2> HIDE DEF N
  <2> HIDE DEF u
  <2>4. u.m = N /\ u.next = s.next /\ u.id = i /\ u \in RosterState
    <3>1. u = [m |-> N, next |-> s.next, id |-> i]
      BY <2>2 DEF RosterState
    <3>2. i \in 0..MaxMembers
      BY <1>1, <2>1 DEF Ids
    <3> QED
      BY <1>1, <2>3, <3>1, <3>2 DEF RosterState
  <2>5. Live(N) = Live(s.m)
    BY <2>3 DEF Live
  <2>6. Grown(s.m, N)
    BY <2>3, <2>5 DEF Grown, Live
  <2>7. i < s.next
    BY <1>1, <2>1, GoneTyped DEF Fresh, Live, Ids
  <2>8. Fresh(N, s.next)
    BY <1>1, <2>1, <2>3, <2>7 DEF Fresh, Ids
  <2> QED
    BY <2>1, <2>4, <2>5, <2>6, <2>8 DEF u
<1>3. CASE i = 0
  <2> DEFINE rec == [name |-> n, aliases |-> {}, active |-> TRUE]
             N == [s.m EXCEPT ![s.next] = rec]
  <2>1. s.next \in Ids /\ rec \in Member /\ rec.name = n /\ rec.aliases = {}
    BY <1>3 DEF Room, Member
  <2>2. u = [s EXCEPT !.m = N, !.next = s.next + 1, !.id = s.next]
    BY <1>1, <1>3 DEF UpsertMember, RosterState
  <2> HIDE DEF rec
  <2>3. /\ N \in [Ids -> Member] /\ N[s.next] = rec
        /\ \A j \in Ids \ {s.next} : N[j] = s.m[j]
    BY <1>1, <2>1
  <2> HIDE DEF N
  <2> HIDE DEF u
  <2>4. u.m = N /\ u.next = s.next + 1 /\ u.id = s.next /\ u \in RosterState
    <3>1. u = [m |-> N, next |-> s.next + 1, id |-> s.next]
      BY <2>2 DEF RosterState
    <3>2. s.next \in 0..MaxMembers /\ s.next + 1 \in 1..(MaxMembers + 1)
      BY <1>1, <2>1 DEF Ids
    <3> QED
      BY <2>3, <3>1, <3>2 DEF RosterState
  <2>5. s.next \notin Live(s.m)
    BY <1>1, <2>1, GoneTyped DEF Fresh, Live, Ids
  <2>6. \A j \in Live(s.m) : n \notin s.m[j].aliases
    BY <1>1, <1>3, RecognisedIn
  <2>7. Live(N) = Live(s.m) \cup {s.next}
    BY <1>1, <2>1, <2>3, LiveName, RosterAssumption DEF Live
  <2>8. Grown(s.m, N)
    <3>1. ASSUME NEW j \in Live(s.m) PROVE N[j] = s.m[j]
      BY <2>3, <2>5 DEF Live
    <3>2. Live(N) \ Live(s.m) = {s.next}
      BY <2>5, <2>7
    <3> QED
      BY <2>1, <2>3, <2>6, <3>1, <3>2 DEF Grown
  <2>9. Fresh(N, s.next + 1)
    BY <1>1, <2>3 DEF Fresh, Ids
  <2> QED
    BY <1>1, <2>4, <2>7, <2>8, <2>9 DEF u
<1> QED
  BY <1>2, <1>3
-----------------------------------------------------------------------------
(* The invariant.                                                          *)

\* A spelling with a rule is an alias of some member, but for the excuses of
\* MergedStaysMerged.
Aliased ==
  \A n \in Names :
    rule[n] # NoName /\ Key[n] \notin split /\ n \notin orphaned =>
      \E i \in Live(member) : n \in member[i].aliases

\* A crop that is being saved has a reading.
Saves(r) == r.pc = "saving" => r.name \in Names

RosterInv == TypeOK /\ Fresh(member, nextId) /\ Saves(run) /\ Aliased

\* What every activity does to the roster.
Grows ==
  /\ member' \in [Ids -> Member] /\ nextId' \in 1..(MaxMembers + 1)
  /\ Fresh(member', nextId') /\ Grown(member, member')

LEMMA NoRunTyped == NoRun \in RunRecord /\ Saves(NoRun)
<1>1. [i \in Ids |-> Gone] \in [Ids -> Member]
  BY GoneTyped
<1>2. [n \in Names |-> n] \in [Names -> Names]
  OBVIOUS
<1>3. 0 \in 0..MaxReadings /\ 0 \in 0..MaxMembers
  BY RosterAssumption
<1> QED
  BY <1>1, <1>2, <1>3 DEF NoRun, RunRecord, Saves

LEMMA RunFields ==
  ASSUME TypeOK
  PROVE  /\ run.roster \in [Ids -> Member] /\ run.canon \in [Names -> Names]
         /\ run.pushed \subseteq Names /\ run.left \in 0..MaxReadings
         /\ run.id \in 0..MaxMembers /\ run.name \in Names \cup {NoName}
BY DEF TypeOK, RunRecord

LEMMA TheRosterTyped ==
  ASSUME RosterInv
  PROVE  /\ TheRoster \in RosterState /\ TheRoster.m = member
         /\ TheRoster.next = nextId
BY RosterAssumption DEF RosterInv, TypeOK, TheRoster, RosterState

LEMMA GrowsSame ==
  ASSUME RosterInv, UNCHANGED <<member, nextId>>
  PROVE  Grows
BY GrownSame DEF RosterInv, TypeOK, Grows

LEMMA GrowsByUpsert ==
  ASSUME RosterInv, NEW n \in Names, Room(TheRoster, n),
         member' = UpsertMember(TheRoster, n).m, nextId' = UpsertMember(TheRoster, n).next
  PROVE  Grows /\ UpsertMember(TheRoster, n).id \in Live(member') /\ Live(member') \subseteq Ids
<1> DEFINE u == UpsertMember(TheRoster, n)
<1>1. Fresh(TheRoster.m, TheRoster.next)
  BY TheRosterTyped DEF RosterInv
<1>2. /\ u \in RosterState /\ Fresh(u.m, u.next) /\ Grown(TheRoster.m, u.m)
      /\ u.id \in Live(u.m)
  BY <1>1, TheRosterTyped, UpsertTyped
<1>3. u.m \in [Ids -> Member] /\ u.next \in 1..(MaxMembers + 1)
  BY <1>2 DEF RosterState
<1> HIDE DEF u
<1>4. member' = u.m /\ nextId' = u.next
  BY DEF u
<1> QED
  BY <1>2, <1>3, <1>4, TheRosterTyped DEF Grows, Live, u

-----------------------------------------------------------------------------
(* The activities.                                                         *)

LEMMA BeginTyped ==
  ASSUME RosterInv, NEW pc \in {"scan", "might", "resources"}, NEW canon \in [Names -> Names],
         Begin(pc, canon)
  PROVE  run' \in RunRecord /\ Saves(run')
<1>1. member \in [Ids -> Member] /\ MaxReadings \in 0..MaxReadings
  BY RosterAssumption DEF RosterInv, TypeOK
<1>2. run' = [NoRun EXCEPT !.pc = pc, !.roster = member, !.canon = canon, !.left = MaxReadings]
  BY DEF Begin
<1> QED
  BY <1>1, <1>2, NoRunTyped DEF RunRecord, Saves

\* What a step owes the types of the variables other than the roster.
OthersTyped ==
  /\ rule' \in [Names -> Names \cup {NoName}]
  /\ holds' \in [Ids -> SUBSET Names]
  /\ run' \in RunRecord /\ Saves(run')
  /\ split' \subseteq Names /\ orphaned' \subseteq Names /\ events' \in 0..MaxEvents

LEMMA Begins ==
  ASSUME RosterInv, ScanBegins \/ MightBegins \/ ResourcesBegin
  PROVE  Grows /\ OthersTyped
<1>1. UNCHANGED <<member, nextId, rule, holds, split, events, orphaned>>
  BY DEF ScanBegins, MightBegins, ResourcesBegin
<1>2. LoadMergeRules \subseteq [Names -> Names] /\ [n \in Names |-> n] \in [Names -> Names]
  BY DEF LoadMergeRules
<1>3. run' \in RunRecord /\ Saves(run')
  BY <1>2, BeginTyped DEF ScanBegins, MightBegins, ResourcesBegin
<1> QED
  BY <1>1, <1>3, GrowsSame DEF OthersTyped, RosterInv, TypeOK

LEMMA Ends ==
  ASSUME RosterInv, ScanEnds \/ RunFails
  PROVE  Grows /\ OthersTyped
<1>1. UNCHANGED <<member, nextId, rule, holds, split, events, orphaned>> /\ run' = NoRun
  BY DEF ScanEnds, RunFails
<1> QED
  BY <1>1, GrowsSame, NoRunTyped DEF OthersTyped, RosterInv, TypeOK

LEMMA FileRowTyped ==
  ASSUME TypeOK, NEW n \in Names, NEW i \in Ids, FileRow(n, i)
  PROVE  holds' \in [Ids -> SUBSET Names]
BY DEF TypeOK, FileRow

LEMMA RevivedTyped ==
  ASSUME NEW N \in [Ids -> Member]
  PROVE  Revived(N) \subseteq Names
BY LiveName, RosterAssumption DEF Revived, Live

LEMMA MatchTyped ==
  ASSUME TypeOK, NEW n \in Names
  PROVE  MatchKnownPlayer(n) \subseteq Names
<1>1. \A active \in BOOLEAN : NamesOf(active) \subseteq Names
  BY RunFields, LiveName DEF NamesOf, Live
<1>2. \A S : ExactTier(S) \subseteq Names
  BY <1>1, RunFields DEF ExactTier, KnownNames
<1>3. KnownNames \subseteq Names
  BY <1>1, RunFields DEF KnownNames
<1> QED
  BY <1>2, <1>3 DEF MatchKnownPlayer, Closest

LEMMA ReadCardTyped ==
  ASSUME RosterInv, NEW n \in Names, ReadCard(n)
  PROVE  Grows /\ OthersTyped
<1>1. PICK matched \in MatchKnownPlayer(n) :
        LET corrected == run.canon[matched]
            s == UpsertMember(TheRoster, corrected)
        IN  /\ Room(TheRoster, corrected)
            /\ member' = s.m /\ nextId' = s.next
            /\ split' = split \cup Revived(s.m) \cup
                          IF \/ Key[matched] # Key[n]
                             \/ Key[corrected] \in split \cup Revived(s.m)
                            THEN {Key[n]} ELSE {}
            /\ \/ FileRow(n, s.id) /\ run' = [run EXCEPT !.left = @ - 1]
               \/ /\ run' = [run EXCEPT !.pc = "saving", !.left = @ - 1, !.name = n,
                                        !.id = s.id, !.pushed = @ \cup {corrected}]
                  /\ UNCHANGED holds
  BY DEF ReadCard
<1> DEFINE corrected == run.canon[matched]
           s == UpsertMember(TheRoster, corrected)
<1>2. TypeOK /\ run.left > 0 /\ UNCHANGED <<rule, events, orphaned>>
  BY DEF ReadCard, RosterInv
<1>3. matched \in Names /\ corrected \in Names
  BY <1>2, MatchTyped, RunFields
<1>4. Grows /\ s.id \in Ids /\ s.m \in [Ids -> Member]
  BY <1>1, <1>3, GrowsByUpsert DEF Grows
<1> HIDE DEF corrected, s
<1>5. run.left - 1 \in 0..MaxReadings /\ s.id \in 0..MaxMembers
  BY <1>2, <1>4, RunFields, RosterAssumption DEF Ids
<1>6. split' \subseteq Names
  BY <1>1, <1>2, <1>4, RevivedTyped, RosterAssumption DEF TypeOK, corrected, s
<1>7. CASE FileRow(n, s.id) /\ run' = [run EXCEPT !.left = @ - 1]
  <2>0. run.pc = "scan"
    BY DEF ReadCard
  <2>1. run' \in RunRecord /\ Saves(run')
    BY <1>2, <1>5, <1>7, <2>0 DEF TypeOK, RunRecord, Saves
  <2> QED
    BY <1>2, <1>4, <1>6, <1>7, <2>1, FileRowTyped DEF OthersTyped, TypeOK
<1>8. CASE /\ run' = [run EXCEPT !.pc = "saving", !.left = @ - 1, !.name = n,
                                 !.id = s.id, !.pushed = @ \cup {corrected}]
           /\ UNCHANGED holds
  <2>1. run' \in RunRecord /\ Saves(run')
    BY <1>2, <1>3, <1>5, <1>8 DEF TypeOK, RunRecord, Saves
  <2> QED
    BY <1>2, <1>4, <1>6, <1>8, <2>1 DEF OthersTyped, TypeOK
<1> QED
  BY <1>1, <1>7, <1>8 DEF corrected, s
LEMMA CropSavedTyped ==
  ASSUME RosterInv, CropSaved
  PROVE  Grows /\ OthersTyped
<1>1. /\ run' = [run EXCEPT !.pc = "scan", !.id = 0, !.name = NoName]
      /\ UNCHANGED <<member, nextId, rule, split, events, orphaned>>
      /\ TypeOK /\ run.name \in Names
  BY DEF CropSaved, RosterInv, Saves
<1>2. run' \in RunRecord /\ Saves(run')
  <2>1. 0 \in 0..MaxMembers
    BY RosterAssumption
  <2>2. run \in RunRecord
    BY <1>1 DEF TypeOK
  <2> QED
    BY <1>1, <2>1, <2>2 DEF RunRecord, Saves
<1>3. holds' \in [Ids -> SUBSET Names]
  <2>1. CASE run.id \in Live(member)
    BY <1>1, <2>1, FileRowTyped DEF CropSaved, Live
  <2>2. CASE run.id \notin Live(member)
    BY <1>1, <2>2 DEF CropSaved, TypeOK
  <2> QED
    BY <2>1, <2>2
<1> QED
  BY <1>1, <1>2, <1>3, GrowsSame DEF OthersTyped, TypeOK

\* What the rows of a list have done so far.
MightState ==
  [r : RosterState, seen : SUBSET Ids, rows : SUBSET [name : Names, id : Ids], far : SUBSET Names]

LEMMA ExactMatchTyped ==
  ASSUME NEW M \in [Ids -> Member], NEW pool \in SUBSET Live(M), NEW n
  PROVE  ExactMatchMember(M, pool, n) \in Live(M) \cup {0}
BY FirstByNameIn DEF ExactMatchMember

LEMMA CloseTyped ==
  ASSUME NEW M \in [Ids -> Member], NEW pool \in SUBSET Live(M), NEW n
  PROVE  CloseMember(M, pool, n) \in Live(M) \cup {0}
BY FirstByNameIn DEF CloseMember

LEMMA ResolveTyped ==
  ASSUME TypeOK, NEW n \in Names
  PROVE  ResolveMember(n).id \in Ids \cup {0}
<1> DEFINE M == run.roster
           active == {i \in Live(M) : M[i].active}
           inactive == Live(M) \ active
           Exact(x) == IF ExactMatchMember(M, active, x) # 0
                         THEN ExactMatchMember(M, active, x)
                         ELSE ExactMatchMember(M, inactive, x)
           close == IF CloseMember(M, active, n) # 0 THEN CloseMember(M, active, n)
                    ELSE CloseMember(M, inactive, n)
<1>1. M \in [Ids -> Member] /\ active \in SUBSET Live(M) /\ inactive \in SUBSET Live(M)
  BY RunFields
<1>2. Live(M) \subseteq Ids
  BY DEF Live
<1> HIDE DEF active, inactive, M
<1>3. \A x : Exact(x) \in Ids \cup {0}
  BY <1>1, <1>2, ExactMatchTyped
<1>4. close \in Ids \cup {0}
  BY <1>1, <1>2, CloseTyped
<1>5. ResolveMember(n) \in
        {[id |-> Exact(run.canon[n]), exact |-> Exact(run.canon[n]) # 0],
         [id |-> Exact(n), exact |-> TRUE], [id |-> close, exact |-> FALSE]}
  BY DEF ResolveMember, M, active, inactive
<1> HIDE DEF Exact, close
<1> QED
  BY <1>3, <1>4, <1>5

\* A roster state that a match leaves alone but for the member it returns.
LEMMA MatchedTyped ==
  ASSUME NEW s \in RosterState, NEW i \in Ids
  PROVE  LET u == [s EXCEPT !.id = i]
         IN  /\ u \in RosterState /\ u.m = s.m /\ u.next = s.next /\ u.id = i
BY DEF RosterState, Ids

LEMMA TakeMightTyped ==
  ASSUME RosterInv, NEW s \in MightState, s.r.next \in Ids, Fresh(s.r.m, s.r.next),
         NEW n \in Names
  PROVE  LET z == TakeMightRow(s, n)
         IN  /\ z \in MightState /\ Fresh(z.r.m, z.r.next) /\ Grown(s.r.m, z.r.m)
             /\ z.r.next \in {s.r.next, s.r.next + 1}
<1> DEFINE hit == ResolveMember(n)
           other == hit.id # 0 /\ ~hit.exact /\ hit.id \in s.seen
           up == IF hit.id = 0 \/ other THEN UpsertMember(s.r, run.canon[n])
                 ELSE [s.r EXCEPT !.id = hit.id]
           far == IF \/ hit.id # 0 /\ ~hit.exact /\ ~other
                     \/ Key[run.canon[n]] \in split \cup Revived(up.m)
                    THEN s.far \cup {Key[n]} ELSE s.far
           z == TakeMightRow(s, n)
<1>1. TypeOK /\ s.r \in RosterState /\ s.r.m \in [Ids -> Member] /\ run.canon[n] \in Names
      /\ Key[n] \in Names
  BY RunFields, RosterAssumption DEF RosterInv, MightState, RosterState
<1>2. hit.id \in Ids \cup {0}
  BY <1>1, ResolveTyped
<1>3. Room(s.r, run.canon[n])
  BY DEF Room
<1>4. z \in {[s EXCEPT !.r = up],
             [r |-> up, seen |-> s.seen \cup {up.id},
              rows |-> s.rows \cup {[name |-> n, id |-> up.id]}, far |-> far]}
  BY DEF TakeMightRow
<1> HIDE DEF hit
<1>5. /\ up \in RosterState /\ Fresh(up.m, up.next) /\ Grown(s.r.m, up.m)
      /\ up.next \in {s.r.next, s.r.next + 1} /\ up.id \in Ids
  <2>1. CASE hit.id = 0 \/ other
    BY <1>1, <1>3, <2>1, UpsertTyped DEF Live
  <2>2. CASE ~(hit.id = 0 \/ other)
    <3>1. hit.id \in Ids /\ up = [s.r EXCEPT !.id = hit.id]
      BY <1>2, <2>2
    <3> HIDE DEF up
    <3>2. up \in RosterState /\ up.m = s.r.m /\ up.next = s.r.next /\ up.id = hit.id
      BY <1>1, <3>1, MatchedTyped
    <3> QED
      BY <3>1, <3>2, GrownSame
  <2> QED
    BY <2>1, <2>2
<1>6. far \subseteq Names
  BY <1>1 DEF MightState
<1> HIDE DEF up, far, z
<1>7. z \in MightState /\ z.r = up
  <2>1. CASE z = [s EXCEPT !.r = up]
    BY <1>5, <2>1 DEF MightState
  <2>2. CASE z = [r |-> up, seen |-> s.seen \cup {up.id},
                  rows |-> s.rows \cup {[name |-> n, id |-> up.id]}, far |-> far]
    <3>1. /\ s.seen \cup {up.id} \in SUBSET Ids
          /\ s.rows \cup {[name |-> n, id |-> up.id]} \in SUBSET [name : Names, id : Ids]
      BY <1>5 DEF MightState
    <3> QED
      BY <1>5, <1>6, <2>2, <3>1 DEF MightState
  <2> QED
    BY <1>4, <2>1, <2>2
<1> QED
  BY <1>5, <1>7 DEF z
LEMMA UntakenTyped ==
  ASSUME RosterInv
  PROVE  /\ Untaken \in MightState /\ Untaken.r = TheRoster
         /\ Untaken.r.m = member /\ Untaken.r.next = nextId
BY TheRosterTyped DEF Untaken, MightState

LEMMA TakeMightRowsTyped ==
  ASSUME RosterInv, NEW list \in Lists, nextId + Len(list) <= MaxMembers + 1
  PROVE  LET z == TakeMightRows(list)
         IN  /\ z \in MightState /\ Fresh(z.r.m, z.r.next) /\ Grown(member, z.r.m)
<1> DEFINE first == TakeMightRow(Untaken, list[1])
<1>1. nextId \in 1..(MaxMembers + 1) /\ MaxMembers \in Nat
  BY RosterAssumption DEF RosterInv, TypeOK
<1>2. PICK x \in Names, y \in Names : list = <<x>> \/ list = <<x, y>>
  BY DEF Lists
<1>3. list[1] \in Names /\ Untaken.r.next \in Ids
  BY <1>1, <1>2, UntakenTyped DEF Ids
<1>4. /\ first \in MightState /\ Fresh(first.r.m, first.r.next) /\ Grown(member, first.r.m)
      /\ first.r.next \in {nextId, nextId + 1}
  BY <1>3, UntakenTyped, TakeMightTyped DEF RosterInv
<1> HIDE DEF first
<1>5. CASE list = <<x>>
  <2>1. TakeMightRows(list) = first
    BY <1>5 DEF TakeMightRows, first
  <2> QED
    BY <1>4, <2>1
<1>6. CASE list = <<x, y>>
  <2> DEFINE z == TakeMightRow(first, y)
  <2>1. TakeMightRows(list) = z
    BY <1>6 DEF TakeMightRows, first
  <2>2. first.r.next \in Ids
    BY <1>1, <1>4, <1>6 DEF Ids
  <2>3. z \in MightState /\ Fresh(z.r.m, z.r.next) /\ Grown(first.r.m, z.r.m)
    BY <1>4, <2>2, TakeMightTyped
  <2>4. first.r.m \in [Ids -> Member] /\ z.r.m \in [Ids -> Member] /\ member \in [Ids -> Member]
    BY <1>4, <2>3 DEF MightState, RosterState, RosterInv, TypeOK
  <2> HIDE DEF z
  <2> QED
    BY <1>4, <2>1, <2>3, <2>4, GrownTwice
<1> QED
  BY <1>2, <1>5, <1>6

LEMMA StoreRowsTyped ==
  ASSUME RosterInv, NEW s \in MightState, NEW M \in [Ids -> Member],
         Fresh(M, s.r.next), Grown(member, M), StoreRows(s, M)
  PROVE  Grows /\ OthersTyped
<1>1. TypeOK /\ member' = M /\ nextId' = s.r.next /\ s.r.next \in 1..(MaxMembers + 1)
      /\ run' = NoRun /\ UNCHANGED <<rule, events, orphaned>>
  BY DEF StoreRows, MightState, RosterState, RosterInv
<1>2. Grows
  BY <1>1 DEF Grows
<1>3. holds' \in [Ids -> SUBSET Names] /\ split' \subseteq Names
  <2>1. ASSUME NEW i \in Ids
        PROVE  holds[i] \cup {x.name : x \in {y \in s.rows : y.id = i}} \in SUBSET Names
    <3>1. holds[i] \subseteq Names
      BY <1>1 DEF TypeOK
    <3>2. \A x \in s.rows : x.name \in Names
      BY DEF MightState
    <3> QED
      BY <3>1, <3>2
  <2>2. [i \in Ids |-> holds[i] \cup {x.name : x \in {y \in s.rows : y.id = i}}]
          \in [Ids -> SUBSET Names]
    BY <2>1
  <2>3. s.far \subseteq Names /\ Revived(M) \subseteq Names
    BY RevivedTyped DEF MightState
  <2> QED
    BY <1>1, <2>2, <2>3 DEF StoreRows, TypeOK
<1> QED
  BY <1>1, <1>2, <1>3, NoRunTyped DEF OthersTyped, TypeOK

LEMMA MightEndsTyped ==
  ASSUME RosterInv, MightEnds
  PROVE  Grows /\ OthersTyped
<1> DEFINE Seen(z) == [i \in Ids |-> IF i \in z.seen \cap Live(z.r.m)
                                       THEN [z.r.m[i] EXCEPT !.active = TRUE]
                                       ELSE z.r.m[i]]
<1>1. PICK list \in Lists : /\ nextId + Len(list) <= MaxMembers + 1
                            /\ StoreRows(TakeMightRows(list), Seen(TakeMightRows(list)))
  BY DEF MightEnds
<1> DEFINE z == TakeMightRows(list)
           M == z.r.m
           N == Seen(z)
<1>2. z \in MightState /\ Fresh(M, z.r.next) /\ Grown(member, M)
  BY <1>1, TakeMightRowsTyped
<1>3. StoreRows(z, N)
  BY <1>1
<1> HIDE DEF z
<1>4. M \in [Ids -> Member] /\ member \in [Ids -> Member]
  BY <1>2 DEF MightState, RosterState, RosterInv, TypeOK
<1>5. /\ N \in [Ids -> Member]
      /\ \A i \in Ids : N[i].name = M[i].name /\ N[i].aliases = M[i].aliases
      /\ \A i \in Ids \ Live(M) : N[i] = M[i]
  <2>1. ASSUME NEW i \in Ids
        PROVE  /\ N[i] \in Member /\ N[i].name = M[i].name /\ N[i].aliases = M[i].aliases
               /\ i \notin Live(M) => N[i] = M[i]
    <3>1. M[i] \in Member
      BY <1>4
    <3> QED
      BY <3>1 DEF Member
  <2> QED
    BY <2>1
<1> HIDE DEF Seen, N
<1>6. Live(N) = Live(M)
  BY <1>5 DEF Live
<1>7. Grown(M, N)
  BY <1>5, <1>6 DEF Grown, Live
<1>8. Fresh(N, z.r.next)
  <2>1. \A i \in Ids : M[i] = Gone => i \notin Live(M)
    BY GoneTyped DEF Live
  <2> QED
    BY <1>2, <1>5, <2>1 DEF Fresh
<1>9. Grown(member, N)
  BY <1>2, <1>4, <1>5, <1>7, GrownTwice
<1> HIDE DEF M
<1> QED
  BY <1>2, <1>3, <1>5, <1>8, <1>9, StoreRowsTyped

LEMMA AppliedTyped == ASSUME TypeOK, NEW n \in Names PROVE ApplyMergeRules(n) \subseteq Names
BY DEF ApplyMergeRules, TypeOK

LEMMA ResourcesEndTyped ==
  ASSUME RosterInv, ResourcesEnd
  PROVE  Grows /\ OthersTyped
<1>0. PICK n \in Names : \E name \in ApplyMergeRules(n) :
        /\ Room(TheRoster, name)
        /\ StoreRows(TakeResourceRow(name, Untaken, n), TakeResourceRow(name, Untaken, n).r.m)
  BY DEF ResourcesEnd
<1>1. PICK name \in ApplyMergeRules(n) :
        /\ Room(TheRoster, name)
        /\ StoreRows(TakeResourceRow(name, Untaken, n), TakeResourceRow(name, Untaken, n).r.m)
  BY <1>0
<1> DEFINE hit == FuzzyMatchMember(run.roster, n)
           up == IF name # n \/ hit = 0 THEN UpsertMember(TheRoster, name)
                 ELSE [TheRoster EXCEPT !.id = hit]
           far == IF \/ /\ name = n /\ hit # 0
                        /\ ExactMatchMember(run.roster, Live(run.roster), n) = 0
                     \/ Key[name] \in split \cup Revived(up.m)
                    THEN Untaken.far \cup {Key[n]} ELSE Untaken.far
           z == TakeResourceRow(name, Untaken, n)
<1>2. z = [r |-> up, seen |-> Untaken.seen,
           rows |-> Untaken.rows \cup {[name |-> n, id |-> up.id]}, far |-> far]
  BY UntakenTyped DEF TakeResourceRow
<1>3. /\ TypeOK /\ Key[n] \in Names /\ name \in Names
      /\ TheRoster \in RosterState /\ Fresh(TheRoster.m, TheRoster.next)
      /\ TheRoster.m = member
  BY TheRosterTyped, RosterAssumption, AppliedTyped DEF RosterInv
<1>4. hit \in Ids \cup {0}
  <2>1. run.roster \in [Ids -> Member] /\ Live(run.roster) \in SUBSET Live(run.roster)
        /\ Live(run.roster) \subseteq Ids
    BY <1>3, RunFields DEF Live
  <2> QED
    BY <2>1, ExactMatchTyped, CloseTyped DEF FuzzyMatchMember
<1> HIDE DEF hit
<1>5. /\ up \in RosterState /\ Fresh(up.m, up.next) /\ Grown(member, up.m) /\ up.id \in Ids
  <2>1. CASE name # n \/ hit = 0
    BY <1>1, <1>3, <2>1, UpsertTyped DEF Live
  <2>2. CASE ~(name # n \/ hit = 0)
    <3>1. hit \in Ids /\ up = [TheRoster EXCEPT !.id = hit]
      BY <1>4, <2>2
    <3> HIDE DEF up
    <3>2. up \in RosterState /\ up.m = TheRoster.m /\ up.next = TheRoster.next /\ up.id = hit
      BY <1>3, <3>1, MatchedTyped
    <3> QED
      BY <1>3, <3>1, <3>2, GrownSame
  <2> QED
    BY <2>1, <2>2
<1>6. Untaken.seen \subseteq Ids /\ Untaken.rows \subseteq [name : Names, id : Ids]
      /\ Untaken.far \subseteq Names
  BY UntakenTyped DEF MightState
<1>7. far \subseteq Names
  BY <1>3, <1>6
<1> HIDE DEF up, far, z
<1>8. z \in MightState /\ z.r = up
  <2>1. Untaken.rows \cup {[name |-> n, id |-> up.id]} \in SUBSET [name : Names, id : Ids]
    BY <1>5, <1>6
  <2> QED
    BY <1>2, <1>5, <1>6, <1>7, <2>1 DEF MightState
<1>9. up.m \in [Ids -> Member]
  BY <1>5 DEF RosterState
<1>10. StoreRows(z, up.m)
  BY <1>1, <1>8 DEF z
<1> QED
  BY <1>5, <1>8, <1>9, <1>10, StoreRowsTyped

LEMMA CaptureTyped ==
  ASSUME RosterInv, NEW n \in Names, CaptureMember(n)
  PROVE  Grows /\ OthersTyped
<1>1. PICK name \in ApplyMergeRules(n) :
        /\ Room(TheRoster, name)
        /\ member' = UpsertMember(TheRoster, name).m
        /\ nextId' = UpsertMember(TheRoster, name).next
        /\ split' = split \cup Revived(UpsertMember(TheRoster, name).m)
  BY DEF CaptureMember
<1>2. name \in Names
  BY AppliedTyped DEF RosterInv
<1>3. Grows
  BY <1>1, <1>2, GrowsByUpsert
<1>4. split' \subseteq Names
  BY <1>1, <1>3, RevivedTyped DEF Grows, RosterInv, TypeOK
<1> QED
  BY <1>3, <1>4 DEF OthersTyped, CaptureMember, RosterInv, TypeOK
-----------------------------------------------------------------------------
(* Admins and the inactivity sweep.                                        *)

LEMMA EventTyped == ASSUME TypeOK, Event PROVE events' \in 0..MaxEvents
BY RosterAssumption DEF TypeOK, Event

LEMMA ReassignTyped ==
  ASSUME RosterInv, NEW n \in Names, Reassign(n)
  PROVE  Grows /\ OthersTyped
<1>1. /\ TypeOK /\ Room(TheRoster, n) /\ Event
      /\ member' = UpsertMember(TheRoster, n).m /\ nextId' = UpsertMember(TheRoster, n).next
      /\ split' \in {split, split \cup {Key[n]}} /\ UNCHANGED <<rule, holds, run, orphaned>>
  BY DEF Reassign, RosterInv
<1>2. split' \subseteq Names
  BY <1>1, RosterAssumption DEF TypeOK
<1> QED
  BY <1>1, <1>2, GrowsByUpsert, EventTyped DEF OthersTyped, TypeOK, RosterInv

LEMMA DeleteRuleTyped ==
  ASSUME RosterInv, NEW f \in Names, DeleteMergeRule(f)
  PROVE  Grows /\ OthersTyped
<1>1. TypeOK /\ Key[f] \in Names
  BY RosterAssumption DEF RosterInv
<1> QED
  BY <1>1, GrowsSame, EventTyped DEF DeleteMergeRule, OthersTyped, TypeOK, RosterInv

\* Marking members keeps who they are.
LEMMA MarkedGrows ==
  ASSUME RosterInv, nextId' = nextId, member' \in [Ids -> Member],
         \A i \in Ids : member'[i].name = member[i].name
                        /\ member'[i].aliases = member[i].aliases,
         \A i \in Ids \ Live(member) : member'[i] = member[i]
  PROVE  Grows
<1>1. Live(member') = Live(member)
  BY DEF Live
<1>2. Grown(member, member')
  BY <1>1 DEF Grown, Live
<1>3. \A i \in Ids : member[i] = Gone => i \notin Live(member)
  BY GoneTyped DEF Live
<1> QED
  BY <1>2, <1>3 DEF Grows, Fresh, RosterInv, TypeOK

LEMMA MarkTyped ==
  ASSUME RosterInv, (\E S \in SUBSET Ids : Deactivate(S)) \/ \E i \in Ids : RestoreMember(i)
  PROVE  Grows /\ OthersTyped
<1>1. UNCHANGED <<nextId, rule, holds, run, split, orphaned>> /\ Event /\ TypeOK
  BY DEF Deactivate, RestoreMember, RosterInv
<1>2. /\ member' \in [Ids -> Member]
      /\ \A i \in Ids : member'[i].name = member[i].name
                        /\ member'[i].aliases = member[i].aliases
      /\ \A i \in Ids \ Live(member) : member'[i] = member[i]
  <2>1. CASE \E S \in SUBSET Ids : Deactivate(S)
    <3>1. PICK S \in SUBSET Ids : Deactivate(S)
      BY <2>1
    <3>2. /\ \A i \in S : i \in Live(member)
          /\ member' = [i \in Ids |-> IF i \in S THEN [member[i] EXCEPT !.active = FALSE]
                                      ELSE member[i]]
      BY <3>1 DEF Deactivate
    <3>3. ASSUME NEW i \in Ids
          PROVE  /\ member'[i] \in Member
                 /\ member'[i].name = member[i].name /\ member'[i].aliases = member[i].aliases
                 /\ i \notin S => member'[i] = member[i]
      <4>1. member[i] \in Member
        BY <1>1 DEF TypeOK
      <4> QED
        BY <3>2, <4>1 DEF Member
    <3> QED
      BY <3>2, <3>3
  <2>2. CASE \E i \in Ids : RestoreMember(i)
    <3>1. PICK i \in Ids : /\ i \in Live(member)
                           /\ member' = [member EXCEPT ![i].active = TRUE]
      BY <2>2 DEF RestoreMember
    <3>2. member \in [Ids -> Member]
      BY <1>1 DEF TypeOK
    <3> QED
      BY <3>1, <3>2 DEF Member
  <2> QED
    BY <2>1, <2>2
<1> QED
  BY <1>1, <1>2, MarkedGrows, EventTyped DEF OthersTyped, TypeOK, RosterInv

\* A new alias or another name takes no alias away.
LEMMA EditTyped ==
  ASSUME RosterInv, NEW i \in Ids, NEW n \in Names, AddAlias(i, n) \/ RenameMember(i, n)
  PROVE  TypeOK' /\ Fresh(member', nextId') /\ nextId' = nextId
         /\ (\A j \in Live(member) : /\ j \in Live(member')
                                    /\ member[j].aliases \subseteq member'[j].aliases)
         /\ split \subseteq split' /\ UNCHANGED <<rule, run, orphaned>>
<1>1. /\ UNCHANGED <<nextId, rule, holds, run, orphaned>> /\ Event /\ TypeOK /\ i \in Live(member)
      /\ member \in [Ids -> Member]
  BY DEF AddAlias, RenameMember, RosterInv, TypeOK
<1>2. split' \subseteq Names /\ split \subseteq split'
  <2>1. \A x \in Names : Key[x] \in Names
    BY RosterAssumption
  <2>2. holds[i] \subseteq Names /\ member[i].aliases \subseteq Names /\ member[i].name \in Names
        /\ split \subseteq Names
    BY <1>1, LiveName DEF TypeOK
  <2>3. CASE AddAlias(i, n)
    BY <2>1, <2>2, <2>3 DEF AddAlias
  <2>4. CASE RenameMember(i, n)
    BY <2>1, <2>2, <2>4 DEF RenameMember
  <2> QED
    BY <2>3, <2>4
<1>3. /\ member' \in [Ids -> Member] /\ member'[i].name \in Names
      /\ member[i].aliases \subseteq member'[i].aliases
      /\ \A j \in Ids \ {i} : member'[j] = member[j]
  <2>0. member[i] \in Member /\ member[i].name \in Names /\ member[i].aliases \subseteq Names
    BY <1>1, LiveName
  <2>1. CASE AddAlias(i, n)
    <3>1. member' = [member EXCEPT ![i].aliases = @ \cup {n}]
      BY <2>1 DEF AddAlias
    <3> QED
      BY <1>1, <2>0, <3>1 DEF Member
  <2>2. CASE RenameMember(i, n)
    <3>1. member' = [member EXCEPT ![i].name = n]
      BY <2>2 DEF RenameMember
    <3> QED
      BY <1>1, <2>0, <3>1 DEF Member
  <2> QED
    BY <2>1, <2>2
<1>4. \A j \in Live(member) : j \in Live(member') /\ member[j].aliases \subseteq member'[j].aliases
  BY <1>1, <1>3, RosterAssumption DEF Live
<1>5. i < nextId
  BY <1>1, GoneTyped, RosterAssumption DEF RosterInv, Fresh, Live, TypeOK, Ids
<1>6. Fresh(member', nextId')
  BY <1>1, <1>3, <1>5, RosterAssumption DEF RosterInv, Fresh, TypeOK, Ids
<1> QED
  BY <1>1, <1>2, <1>3, <1>4, <1>6, EventTyped DEF TypeOK

LEMMA MergedRuleTyped ==
  ASSUME TypeOK, NEW f \in Names, NEW t \in Names
  PROVE  /\ MergedRule(f, t) \in [Names -> Names \cup {NoName}]
         /\ \A n \in Names : \/ MergedRule(f, t)[n] = rule[n]
                             \/ n = f
                             \/ Key[n] = Key[f] /\ rule[n] # NoName
<1> DEFINE covering == {g \in Names \ {f} : rule[g] # NoName /\ Key[g] = Key[f]}
           other    == CHOOSE g \in covering : TRUE
<1>1. rule \in [Names -> Names \cup {NoName}]
  BY DEF TypeOK
<1>2. CASE covering = {}
  <2>1. MergedRule(f, t) = [rule EXCEPT ![f] = t]
    BY <1>2 DEF MergedRule
  <2> QED
    BY <1>1, <2>1
<1>3. CASE covering # {}
  <2>1. other \in covering
    BY <1>3
  <2>2. MergedRule(f, t) = [rule EXCEPT ![other] = t]
    BY <1>3 DEF MergedRule
  <2>3. other \in Names /\ Key[other] = Key[f] /\ rule[other] # NoName
    BY <2>1
  <2> HIDE DEF other
  <2> QED
    BY <1>1, <2>2, <2>3
<1> QED
  BY <1>2, <1>3

LEMMA WithAliasTyped ==
  ASSUME NEW M \in [Ids -> Member], NEW f \in Names, NEW t \in Names, f # t
  PROVE  LET N == WithAlias(M, f, t)
         IN  /\ N \in [Ids -> Member]
             /\ \A i \in Ids : N[i].name = M[i].name /\ M[i].aliases \subseteq N[i].aliases
             /\ \A i \in Named(M, t) : f \in N[i].aliases
             /\ \A i \in Ids \ Live(M) : N[i] = M[i]
<1> DEFINE N == WithAlias(M, f, t)
<1>1. ASSUME NEW i \in Ids
      PROVE  /\ N[i] \in Member /\ N[i].name = M[i].name /\ M[i].aliases \subseteq N[i].aliases
             /\ i \in Named(M, t) => f \in N[i].aliases
             /\ i \notin Live(M) => N[i] = M[i]
  <2>1. M[i] \in Member
    OBVIOUS
  <2>2. N[i] = IF i \in Named(M, t) THEN [M[i] EXCEPT !.aliases = @ \cup {f}] ELSE M[i]
    BY DEF WithAlias
  <2>3. i \notin Live(M) => i \notin Named(M, t)
    BY RosterAssumption DEF Named, Live
  <2> QED
    BY <2>1, <2>2, <2>3 DEF Member
<1>2. DOMAIN N = Ids /\ N = [i \in Ids |-> N[i]]
  BY DEF WithAlias
<1>3. Named(M, t) \subseteq Ids
  BY DEF Named, Live
<1> HIDE DEF N
<1>4. N \in [Ids -> Member]
  BY <1>1, <1>2
<1> QED
  BY <1>1, <1>3, <1>4 DEF N

\* A merge leaves an alias with the member it merges into; the aliases of the other
\* one go with it, and are orphaned.
LEMMA MergeTyped ==
  ASSUME RosterInv, NEW f \in Names, NEW t \in Names, AddMergeRule(f, t)
  PROVE  RosterInv' /\ nextId' = nextId
<1> DEFINE from == First(Named(member, f))
           to   == First(Named(member, t))
           M    == IF from = 0 THEN member
                   ELSE IF to = 0 THEN [member EXCEPT ![from].name = t]
                   ELSE [member EXCEPT ![from] = Gone]
<1>1. /\ TypeOK /\ Event /\ f # t /\ UNCHANGED <<nextId, run>>
      /\ rule' = MergedRule(f, t) /\ member' = WithAlias(M, f, t)
      /\ member \in [Ids -> Member] /\ Fresh(member, nextId) /\ Saves(run) /\ Aliased
  BY DEF AddMergeRule, RosterInv, TypeOK
<1>2. /\ from = 0 \/ from \in Named(member, f)
      /\ to = 0 \/ to \in Named(member, t)
  <2>1. Named(member, f) \in SUBSET Ids /\ Named(member, t) \in SUBSET Ids
    BY DEF Named, Live
  <2> QED
    BY <2>1, FirstIn
<1>3. /\ holds' \in [Ids -> SUBSET Names] /\ split' \subseteq Names /\ orphaned' \subseteq Names
      /\ IF from = 0 \/ to = 0
           THEN split' = split \cup {Key[f], Key[t]} /\ orphaned' = orphaned
           ELSE orphaned' = (orphaned \cup member[from].aliases) \ {f} /\ split' = split
  <2>1. Key[f] \in Names /\ Key[t] \in Names
    BY RosterAssumption
  <2>2. IF from = 0 \/ to = 0
          THEN split' = split \cup {Key[f], Key[t]} /\ orphaned' = orphaned
          ELSE orphaned' = (orphaned \cup member[from].aliases) \ {f} /\ split' = split
    BY DEF AddMergeRule
  <2>3. \/ holds' = holds
        \/ /\ from # 0 /\ to # 0
           /\ holds' = [holds EXCEPT ![to] = @ \cup holds[from], ![from] = {}]
    BY DEF AddMergeRule
  <2> HIDE DEF from, to
  <2>4. from # 0 => from \in Ids /\ member[from].aliases \subseteq Names
    BY <1>1, <1>2, LiveName DEF Named, Live
  <2>5. to # 0 => to \in Ids
    BY <1>2 DEF Named, Live
  <2>6. holds' \in [Ids -> SUBSET Names]
    BY <1>1, <2>3, <2>4, <2>5 DEF TypeOK
  <2> QED
    BY <1>1, <2>1, <2>2, <2>4, <2>6 DEF TypeOK
<1> HIDE DEF from, to
<1>4. from # 0 => from \in Ids /\ member[from].name = f /\ from < nextId
  <2>1. from # 0 => from \in Ids /\ member[from].name = f
    BY <1>2 DEF Named
  <2>2. f # NoName
    BY RosterAssumption
  <2>3. from # 0 => ~(from >= nextId)
    BY <1>1, <2>1, <2>2 DEF Fresh, Gone
  <2>4. nextId \in Nat /\ (from # 0 => from \in Nat)
    BY <1>1, <2>1, RosterAssumption DEF TypeOK, Ids
  <2> QED
    BY <2>1, <2>3, <2>4
<1>5. /\ M \in [Ids -> Member]
      /\ \A i \in Ids : i # from => M[i] = member[i]
      /\ \/ from # 0 /\ to # 0
         \/ \A i \in Live(member) : i \in Live(M) /\ M[i].aliases = member[i].aliases
  <2>1. CASE from = 0
    BY <1>1, <2>1
  <2>2. CASE from # 0 /\ to = 0
    <3>1. M = [member EXCEPT ![from].name = t] /\ member[from] \in Member
      BY <1>1, <1>4, <2>2
    <3> HIDE DEF M
    <3>2. M \in [Ids -> Member] /\ M[from].name = t /\ M[from].aliases = member[from].aliases
          /\ \A i \in Ids : i # from => M[i] = member[i]
      BY <1>1, <1>4, <2>2, <3>1 DEF Member
    <3> QED
      BY <3>2, RosterAssumption DEF Live
  <2>3. CASE from # 0 /\ to # 0
    BY <1>1, <1>4, <2>3, GoneTyped
  <2> QED
    BY <2>1, <2>2, <2>3
<1> HIDE DEF M
<1>6. /\ member' \in [Ids -> Member]
      /\ \A i \in Ids : member'[i].name = M[i].name /\ M[i].aliases \subseteq member'[i].aliases
      /\ \A i \in Named(M, t) : f \in member'[i].aliases
      /\ \A i \in Ids \ Live(M) : member'[i] = M[i]
  BY <1>1, <1>5, WithAliasTyped
<1>7. Fresh(member', nextId')
  <2>1. ASSUME NEW i \in Ids, i >= nextId
        PROVE  member'[i] = Gone
    <3>1. i # from /\ member[i] = Gone
      BY <1>1, <1>4, <2>1, RosterAssumption DEF Fresh, TypeOK, Ids
    <3>2. M[i] = Gone /\ i \notin Live(M)
      BY <1>5, <3>1, GoneTyped DEF Live
    <3> QED
      BY <1>6, <3>2
  <2> QED
    BY <1>1, <2>1 DEF Fresh
<1>8. TypeOK'
  BY <1>1, <1>3, <1>6, MergedRuleTyped, EventTyped DEF TypeOK
<1>9. Aliased'
  <2>1. SUFFICES ASSUME NEW n \in Names, rule'[n] # NoName, Key[n] \notin split',
                        n \notin orphaned'
                 PROVE  \E i \in Live(member') : n \in member'[i].aliases
    BY DEF Aliased
  <2>2. rule'[n] = rule[n] \/ n = f \/ (Key[n] = Key[f] /\ rule[n] # NoName)
    BY <1>1, MergedRuleTyped
  <2>3. CASE from = 0 \/ to = 0
    <3>1. Key[n] # Key[f] /\ Key[n] \notin split /\ n \notin orphaned
      BY <1>3, <2>1, <2>3
    <3>2. PICK i \in Live(member) : n \in member[i].aliases
      BY <1>1, <2>1, <2>2, <3>1 DEF Aliased
    <3> QED
      BY <1>5, <1>6, <2>3, <3>2 DEF Live
  <2>4. CASE from # 0 /\ to # 0 /\ n = f
    <3>1. to \in Named(member, t) /\ to # from /\ to \in Ids
      BY <1>1, <1>2, <1>4, <2>4 DEF Named, Live
    <3>2. to \in Named(M, t)
      BY <1>5, <3>1 DEF Named, Live
    <3>3. member'[to].name # NoName
      BY <1>6, <3>1, <3>2, RosterAssumption DEF Named
    <3> QED
      BY <1>6, <2>4, <3>1, <3>2, <3>3 DEF Live
  <2>5. CASE from # 0 /\ to # 0 /\ n # f
    <3>1. n \notin orphaned /\ n \notin member[from].aliases /\ Key[n] \notin split
      BY <1>3, <2>1, <2>5
    <3>2. PICK i \in Live(member) : n \in member[i].aliases
      BY <1>1, <2>1, <2>2, <2>5, <3>1 DEF Aliased
    <3>3. i # from /\ i \in Ids
      BY <3>1, <3>2 DEF Live
    <3> QED
      BY <1>5, <1>6, <3>2, <3>3 DEF Live
  <2> QED
    BY <2>3, <2>4, <2>5
<1> QED
  BY <1>1, <1>7, <1>8, <1>9 DEF RosterInv

-----------------------------------------------------------------------------
(* The theorems.                                                           *)

\* No step but a merge adds a rule or orphans an alias, and excuses only grow.
KeepsRules ==
  /\ \A n \in Names : rule'[n] \in {rule[n], NoName}
  /\ split \subseteq split' /\ orphaned' = orphaned

LEMMA AliasedKept ==
  ASSUME RosterInv, KeepsRules,
         \A j \in Live(member) : /\ j \in Live(member')
                                 /\ member[j].aliases \subseteq member'[j].aliases
  PROVE  Aliased'
BY DEF RosterInv, Aliased, KeepsRules

\* The steps that recognise, create and mark members.
Growth ==
  \/ ScanBegins \/ CropSaved \/ ScanEnds \/ MightBegins \/ MightEnds
  \/ ResourcesBegin \/ ResourcesEnd \/ RunFails
  \/ \E n \in Names : \/ ReadCard(n) \/ CaptureMember(n)
                     \/ DeleteMergeRule(n) \/ Reassign(n)
  \/ \E S \in SUBSET Ids : Deactivate(S)
  \/ \E i \in Ids : RestoreMember(i)

LEMMA GrowthKeepsRules == ASSUME TypeOK, Growth PROVE KeepsRules
<1>1. ASSUME UNCHANGED <<rule, orphaned>>, split \subseteq split' PROVE KeepsRules
  BY <1>1 DEF KeepsRules
<1>2. CASE ScanBegins \/ CropSaved \/ ScanEnds \/ MightBegins \/ ResourcesBegin \/ RunFails
  BY <1>1, <1>2 DEF ScanBegins, CropSaved, ScanEnds, MightBegins, ResourcesBegin, RunFails
<1>3. CASE MightEnds
  <2>1. \E s, M : StoreRows(s, M)
    BY <1>3 DEF MightEnds
  <2> QED
    BY <1>1, <2>1 DEF StoreRows
<1>4. CASE ResourcesEnd
  <2>1. \E s, M : StoreRows(s, M)
    BY <1>4 DEF ResourcesEnd
  <2> QED
    BY <1>1, <2>1 DEF StoreRows
<1>5. CASE \E n \in Names : ReadCard(n)
  <2>1. PICK n \in Names : ReadCard(n)
    BY <1>5
  <2>2. UNCHANGED <<rule, orphaned>> /\ split \subseteq split'
    BY <2>1 DEF ReadCard
  <2> QED
    BY <1>1, <2>2
<1>6. CASE \E n \in Names : CaptureMember(n)
  BY <1>1, <1>6 DEF CaptureMember
<1>7. CASE \E n \in Names : DeleteMergeRule(n)
  <2>1. PICK f \in Names : DeleteMergeRule(f)
    BY <1>7
  <2>2. rule \in [Names -> Names \cup {NoName}]
    BY DEF TypeOK
  <2> QED
    BY <2>1, <2>2 DEF DeleteMergeRule, KeepsRules
<1>8. CASE \E n \in Names : Reassign(n)
  <2>1. PICK n \in Names : Reassign(n)
    BY <1>8
  <2>2. UNCHANGED <<rule, orphaned>> /\ split' \in {split, split \cup {Key[n]}}
    BY <2>1 DEF Reassign
  <2> QED
    BY <1>1, <2>2
<1>9. CASE (\E S \in SUBSET Ids : Deactivate(S)) \/ \E i \in Ids : RestoreMember(i)
  BY <1>1, <1>9 DEF Deactivate, RestoreMember
<1> QED
  BY <1>2, <1>3, <1>4, <1>5, <1>6, <1>7, <1>8, <1>9 DEF Growth

LEMMA GrowthGrows == ASSUME RosterInv, Growth PROVE Grows /\ OthersTyped
BY Begins, Ends, CropSavedTyped, MightEndsTyped, ResourcesEndTyped, ReadCardTyped,
   CaptureTyped, DeleteRuleTyped, ReassignTyped, MarkTyped DEF Growth

LEMMA GrowthInv == ASSUME RosterInv, Growth PROVE RosterInv'
<1>1. Grows /\ OthersTyped /\ KeepsRules
  BY GrowthGrows, GrowthKeepsRules DEF RosterInv
<1>2. \A j \in Live(member) : j \in Live(member') /\ member[j].aliases \subseteq member'[j].aliases
  BY <1>1 DEF Grows, Grown, Live
<1>3. Aliased'
  BY <1>1, <1>2, AliasedKept
<1> QED
  BY <1>1, <1>3 DEF Grows, OthersTyped, RosterInv, TypeOK

LEMMA InitInv == Init => RosterInv
<1> SUFFICES ASSUME Init PROVE RosterInv
  OBVIOUS
<1>1. 1 \in 1..(MaxMembers + 1) /\ MaxEvents \in 0..MaxEvents
  BY RosterAssumption
<1>2. member \in [Ids -> Member] /\ Fresh(member, nextId)
  BY GoneTyped DEF Init, Fresh
<1> QED
  BY <1>1, <1>2, NoRunTyped DEF Init, RosterInv, TypeOK, Aliased

LEMMA StepInv == RosterInv /\ [Next]_vars => RosterInv'
<1> SUFFICES ASSUME RosterInv, [Next]_vars PROVE RosterInv'
  OBVIOUS
<1>1. CASE Growth
  BY <1>1, GrowthInv
<1>2. CASE \E f, t \in Names : AddMergeRule(f, t)
  BY <1>2, MergeTyped
<1>3. CASE \E i \in Ids, n \in Names : AddAlias(i, n) \/ RenameMember(i, n)
  <2>1. PICK i \in Ids, n \in Names : AddAlias(i, n) \/ RenameMember(i, n)
    BY <1>3
  <2>2. KeepsRules
    BY <2>1, EditTyped DEF KeepsRules
  <2>3. Aliased'
    BY <2>1, <2>2, EditTyped, AliasedKept
  <2>4. Saves(run') /\ TypeOK' /\ Fresh(member', nextId')
    BY <2>1, EditTyped DEF RosterInv
  <2> QED
    BY <2>3, <2>4 DEF RosterInv
<1>4. CASE UNCHANGED vars
  BY <1>4 DEF vars, RosterInv, TypeOK, Aliased
<1> QED
  BY <1>1, <1>2, <1>3, <1>4 DEF Next, Growth

\* While its rule stands, a spelling that was merged away names no new member: the
\* alias that the merge left is recognised before a member is created.
LEMMA StepMerges ==
  ASSUME RosterInv, [Next]_vars, NEW n \in Names, rule[n] # NoName, Key[n] \notin split,
         n \notin orphaned, nextId' # nextId
  PROVE  Named(member', n) = Named(member, n)
<1>1. PICK j \in Live(member) : n \in member[j].aliases
  BY DEF RosterInv, Aliased
<1>2. CASE Growth
  <2>1. Grown(member, member') /\ member \in [Ids -> Member] /\ member' \in [Ids -> Member]
    BY <1>2, GrowthGrows DEF Grows, RosterInv, TypeOK
  <2> QED
    BY <1>1, <2>1, GrownNames
<1>3. CASE \E f, t \in Names : AddMergeRule(f, t)
  BY <1>3, MergeTyped
<1>4. CASE \E i \in Ids, x \in Names : AddAlias(i, x) \/ RenameMember(i, x)
  BY <1>4, EditTyped
<1>5. CASE UNCHANGED vars
  BY <1>5 DEF vars
<1> QED
  BY <1>2, <1>3, <1>4, <1>5 DEF Next, Growth

\* The types of the roster, of the rules and of the activity under way always hold,
\* whatever is read, merged, renamed or removed (member-repo.ts, merge-repo.ts).
THEOREM RosterTypesCorrect == Spec => []TypeOK
<1>1. RosterInv => TypeOK
  BY DEF RosterInv
<1> QED
  BY InitInv, StepInv, <1>1, PTL DEF Spec

\* No activity, however old its copy of the rules, turns a spelling that was merged
\* into a member back into a member while the rule stands: addMergeRule leaves an
\* alias, and upsertMember recognises aliases before it creates.
THEOREM MergesLast == Spec => MergedStaysMerged
<1>1. RosterInv /\ [Next]_vars =>
        [\A n \in Names :
           rule[n] # NoName /\ Key[n] \notin split /\ n \notin orphaned /\ nextId' # nextId
             => Named(member', n) = Named(member, n)]_vars
  BY StepMerges
<1> QED
  BY InitInv, StepInv, <1>1, PTL DEF Spec, MergedStaysMerged
-----------------------------------------------------------------------------
(* Who a name belongs to, whatever was merged.  A key that is not excused is  *)
(* in one of three conditions: nobody has been called so, or one member is    *)
(* and no rule is about it, or the member was merged away, and then a rule    *)
(* stands, and the aliases that are left are with one member, the one that    *)
(* the rule names if it is there.                                             *)

Ruled(ru, k) == \E g \in Names : ru[g] # NoName /\ Key[g] = k

KeyedBy(M, n) == \E i \in Live(M) : Key[M[i].name] = Key[n]

\* Two members never have one name.
UniqueNames(M) == \A i, j \in Live(M) : M[i].name = M[j].name => i = j

\* One member is known by a name, whether it is called so or has it for an alias.
OneKnown(M, S) == \A n \in Names : Key[n] \notin S => \A i, j \in KnownAs(M, n) : i = j

\* Spellings of one name have one rule.
OneRule(ru, S) ==
  \A f, g \in Names :
    ru[f] # NoName /\ ru[g] # NoName /\ Key[f] = Key[g] /\ Key[f] \notin S => f = g

\* A name that a rule turns into another is not the name of a member.
Unruled(M, ru, S) ==
  \A i \in Live(M) : Key[M[i].name] \notin S => ~Ruled(ru, Key[M[i].name])

\* An alias comes from a rule.
AliasRuled(M, ru, S) ==
  \A i \in Live(M) : \A x \in M[i].aliases : Key[x] \notin S => Ruled(ru, Key[x])

\* A rule leads to another name, which is a member's or has a rule itself; and who is
\* known by the name that was merged away is called what the rule says.
Leads(M, ru, S) ==
  \A g \in Names : ru[g] # NoName /\ Key[g] \notin S =>
    /\ Key[ru[g]] # Key[g]
    /\ Key[ru[g]] \notin S =>
         /\ KeyedBy(M, ru[g]) \/ Ruled(ru, Key[ru[g]])
         /\ \A i \in KnownAs(M, g) : Key[M[i].name] = Key[ru[g]]

InOrder(M, ru, S) ==
  /\ UniqueNames(M) /\ OneKnown(M, S) /\ OneRule(ru, S)
  /\ Unruled(M, ru, S) /\ AliasRuled(M, ru, S) /\ Leads(M, ru, S)

\* The row r is where its name leads: at whoever is known by it, at whoever is known
\* by the result of its rule, and where the other rows of the name are.
Housed(M, ru, R, S, r) ==
  /\ \A i \in KnownAs(M, r.name) : r.id = i
  /\ \A g \in Names : ru[g] # NoName /\ Key[g] = Key[r.name] /\ Key[ru[g]] \notin S =>
       \A i \in KnownAs(M, ru[g]) : r.id = i
  /\ KeyedBy(M, r.name) \/ Ruled(ru, Key[r.name])
  /\ \A q \in R : q.id \in Live(M) /\ Key[q.name] = Key[r.name] => q.id = r.id

\* So are all rows of members who are there, but for those of the names in T.
AllHoused(M, ru, R, S, T) ==
  \A r \in R : r.id \in Live(M) /\ Key[r.name] \notin T => Housed(M, ru, R, S, r)

Row == [name : Names, id : Ids]

LEMMA InOrderMore ==
  ASSUME NEW M, NEW ru, NEW S, NEW T, S \subseteq T, InOrder(M, ru, S)
  PROVE  InOrder(M, ru, T)
<1>1. OneKnown(M, T) /\ OneRule(ru, T)
  BY DEF InOrder, OneKnown, OneRule
<1>2. Unruled(M, ru, T) /\ AliasRuled(M, ru, T)
  BY DEF InOrder, Unruled, AliasRuled
<1>3. Leads(M, ru, T)
  BY DEF InOrder, Leads
<1> QED
  BY <1>1, <1>2, <1>3 DEF InOrder

LEMMA HousedMore ==
  ASSUME NEW M, NEW ru, NEW R, NEW S, NEW T, NEW X, NEW Y, S \subseteq X, T \subseteq Y,
         AllHoused(M, ru, R, S, T)
  PROVE  AllHoused(M, ru, R, X, Y)
BY DEF AllHoused, Housed

LEMMA HousedFewer ==
  ASSUME NEW M, NEW ru, NEW R, NEW S, NEW T, NEW Q, Q \subseteq R,
         AllHoused(M, ru, R, S, T)
  PROVE  AllHoused(M, ru, Q, S, T)
BY DEF AllHoused, Housed

\* M and N have the same members, some of them active in one and not in the other.
SameMembers(M, N) == \A i \in Ids : N[i].name = M[i].name /\ N[i].aliases = M[i].aliases

LEMMA SameKnown ==
  ASSUME NEW M, NEW N, SameMembers(M, N)
  PROVE  /\ Live(N) = Live(M)
         /\ \A n : KnownAs(N, n) = KnownAs(M, n) /\ KeyedBy(N, n) = KeyedBy(M, n)
<1>1. Live(N) = Live(M)
  BY DEF Live, SameMembers
<1>2. ASSUME NEW n
      PROVE  KnownAs(N, n) = KnownAs(M, n) /\ KeyedBy(N, n) = KeyedBy(M, n)
  BY <1>1 DEF KnownAs, KeyedBy, SameMembers, Live
<1> QED
  BY <1>1, <1>2

LEMMA SameInOrder ==
  ASSUME NEW M, NEW N, SameMembers(M, N), NEW ru, NEW S, NEW T, NEW R
  PROVE  /\ InOrder(M, ru, S) => InOrder(N, ru, S)
         /\ AllHoused(M, ru, R, S, T) => AllHoused(N, ru, R, S, T)
<1>1. /\ Live(N) = Live(M) /\ Live(M) \subseteq Ids
      /\ \A n : KnownAs(N, n) = KnownAs(M, n) /\ KeyedBy(N, n) = KeyedBy(M, n)
  BY SameKnown DEF Live
<1>2. \A i \in Ids : N[i].name = M[i].name /\ N[i].aliases = M[i].aliases
  BY DEF SameMembers
<1>3. ASSUME InOrder(M, ru, S) PROVE InOrder(N, ru, S)
  <2>1. UniqueNames(N) /\ OneKnown(N, S)
    BY <1>1, <1>2, <1>3 DEF InOrder, UniqueNames, OneKnown
  <2>2. Unruled(N, ru, S) /\ AliasRuled(N, ru, S)
    BY <1>1, <1>2, <1>3 DEF InOrder, Unruled, AliasRuled
  <2>3. Leads(N, ru, S)
    <3>1. \A n : KnownAs(M, n) \subseteq Ids
      BY <1>1 DEF KnownAs
    <3> QED
      BY <1>1, <1>2, <1>3, <3>1 DEF InOrder, Leads
  <2> QED
    BY <1>3, <2>1, <2>2, <2>3 DEF InOrder
<1>4. ASSUME AllHoused(M, ru, R, S, T) PROVE AllHoused(N, ru, R, S, T)
  BY <1>1, <1>4 DEF AllHoused, Housed
<1> QED
  BY <1>3, <1>4

\* A name is recognised in a member who is known by it.
LEMMA RecognisedKnown ==
  ASSUME NEW M \in [Ids -> Member], NEW n \in Names
  PROVE  /\ Recognised(M, n) \in KnownAs(M, n) \cup {0}
         /\ Recognised(M, n) = 0 => ~KeyedBy(M, n)
<1> DEFINE A == {i \in Live(M) : n \in M[i].aliases}
           K == {i \in Keyed(M, n) : M[i].active}
<1>1. /\ Named(M, n) \in SUBSET Ids /\ A \in SUBSET Ids /\ K \in SUBSET Ids
      /\ Keyed(M, n) \in SUBSET Ids
  BY DEF Named, Keyed, Live
<1>2. /\ First(Named(M, n)) \in Named(M, n) \cup {0}
      /\ First(A) \in A \cup {0}
      /\ First(K) \in K \cup {0}
      /\ First(Keyed(M, n)) \in Keyed(M, n) \cup {0}
      /\ First(Keyed(M, n)) = 0 <=> Keyed(M, n) = {}
      /\ First(K) = 0 <=> K = {}
      /\ First(Named(M, n)) = 0 <=> Named(M, n) = {}
  BY <1>1, FirstIn
<1>3. Named(M, n) \subseteq KnownAs(M, n) /\ Named(M, n) \subseteq Keyed(M, n)
  BY RosterAssumption DEF Named, KnownAs, Live, Keyed
<1>4. A \subseteq KnownAs(M, n)
  BY DEF KnownAs
<1>5. Keyed(M, n) \subseteq KnownAs(M, n) /\ K \subseteq Keyed(M, n)
  BY DEF Keyed, KnownAs, Live
<1>6. KeyedBy(M, n) => Keyed(M, n) # {}
  BY DEF KeyedBy, Keyed, Live
<1>7. CASE Named(M, n) # {}
  BY <1>2, <1>3, <1>7 DEF Recognised
<1>8. CASE Named(M, n) = {} /\ Keyed(M, n) # {}
  <2>1. Recognised(M, n) = First(IF K # {} THEN K ELSE Keyed(M, n))
    BY <1>8 DEF Recognised, FindByDespacedKey
  <2> QED
    BY <1>2, <1>5, <1>8, <2>1
<1>9. CASE Named(M, n) = {} /\ Keyed(M, n) = {}
  BY <1>2, <1>4, <1>6, <1>9 DEF Recognised
<1> QED
  BY <1>7, <1>8, <1>9

\* A name that no rule turns into another has no rule.
LEMMA OwnNameUnruled ==
  ASSUME NEW M, NEW S, Leads(M, rule, S), NEW n \in Names, Key[n] \notin S,
         ApplyMergeRules(n) = {n}
  PROVE  ~Ruled(rule, Key[n])
<1> SUFFICES ASSUME NEW g \in Names, rule[g] # NoName, Key[g] = Key[n] PROVE FALSE
  BY DEF Ruled
<1>1. PICK h \in Names : rule[h] # NoName /\ Key[h] = Key[n] /\ rule[h] \in ApplyMergeRules(n)
  <2>1. CASE rule[n] # NoName
    BY <2>1 DEF ApplyMergeRules
  <2>2. CASE rule[n] = NoName
    BY <2>2 DEF ApplyMergeRules
  <2> QED
    BY <2>1, <2>2
<1> QED
  BY <1>1 DEF Leads

\* A new member has no name that belongs to another.
LEMMA CreatedInOrder ==
  ASSUME NEW M \in [Ids -> Member], NEW N \in [Ids -> Member],
         NEW i \in Ids \ Live(M), NEW n \in Names, NEW S,
         N[i].name = n, N[i].aliases = {}, \A j \in Ids \ {i} : N[j] = M[j],
         ~KeyedBy(M, n), InOrder(M, rule, S), Key[n] \in S \/ ApplyMergeRules(n) = {n}
  PROVE  /\ InOrder(N, rule, S) /\ i \in KnownAs(N, n) /\ Live(N) = Live(M) \cup {i}
         /\ \A R \in SUBSET Row, T \in SUBSET Names :
              AllHoused(M, rule, R, S, T) /\ S \subseteq T /\ (\A r \in R : r.id # i)
                => AllHoused(N, rule, R, S, T)
<1>1. /\ Live(N) = Live(M) \cup {i} /\ \A j \in Live(M) : N[j] = M[j] /\ j # i
      /\ Live(M) \subseteq Ids /\ i \notin Live(M)
  BY RosterAssumption DEF Live
<1>2. \A m : KnownAs(N, m) = KnownAs(M, m) \cup {j \in {i} : Key[n] = Key[m]}
  BY <1>1 DEF KnownAs
<1>3. \A m : KeyedBy(N, m) <=> KeyedBy(M, m) \/ Key[n] = Key[m]
  BY <1>1 DEF KeyedBy
<1>4. Key[n] \notin S => ~Ruled(rule, Key[n])
  BY OwnNameUnruled DEF InOrder
<1>5. \A m : Key[n] = Key[m] /\ Key[n] \notin S => KnownAs(M, m) = {}
  <2> SUFFICES ASSUME NEW m, Key[n] = Key[m], Key[n] \notin S, NEW j \in KnownAs(M, m)
               PROVE  FALSE
    OBVIOUS
  <2>1. j \in Live(M) /\ \E x \in {M[j].name} \cup M[j].aliases : Key[x] = Key[n]
    BY DEF KnownAs
  <2>2. Key[M[j].name] # Key[n]
    BY <2>1 DEF KeyedBy
  <2>3. PICK x \in M[j].aliases : Key[x] = Key[n]
    BY <2>1, <2>2
  <2> QED
    BY <1>4, <2>1, <2>3 DEF InOrder, AliasRuled
<1> HIDE DEF Member, Live
<1>6. InOrder(N, rule, S)
  <2>1. UniqueNames(N)
    <3>1. \A j \in Live(M) : M[j].name # n
      BY DEF KeyedBy
    <3> QED
      BY <1>1, <3>1 DEF InOrder, UniqueNames
  <2>2. OneKnown(N, S)
    BY <1>2, <1>5 DEF InOrder, OneKnown
  <2>3. OneRule(rule, S)
    BY DEF InOrder
  <2>4. Unruled(N, rule, S)
    BY <1>1, <1>4 DEF InOrder, Unruled
  <2>5. AliasRuled(N, rule, S)
    BY <1>1 DEF InOrder, AliasRuled
  <2>6. Leads(N, rule, S)
    <3> SUFFICES ASSUME NEW g \in Names, rule[g] # NoName, Key[g] \notin S
                 PROVE  /\ Key[rule[g]] # Key[g]
                        /\ Key[rule[g]] \notin S =>
                             /\ KeyedBy(N, rule[g]) \/ Ruled(rule, Key[rule[g]])
                             /\ \A j \in KnownAs(N, g) : Key[N[j].name] = Key[rule[g]]
      BY DEF Leads
    <3>1. /\ Key[rule[g]] # Key[g]
          /\ Key[rule[g]] \notin S =>
               /\ KeyedBy(M, rule[g]) \/ Ruled(rule, Key[rule[g]])
               /\ \A j \in KnownAs(M, g) : Key[M[j].name] = Key[rule[g]]
      BY DEF InOrder, Leads
    <3>2. Key[n] # Key[g]
      BY <1>4 DEF Ruled
    <3>3. KnownAs(N, g) = KnownAs(M, g) /\ \A j \in KnownAs(M, g) : N[j] = M[j]
      BY <1>1, <1>2, <3>2 DEF KnownAs
    <3> QED
      BY <1>3, <3>1, <3>3
  <2> QED
    BY <2>1, <2>2, <2>3, <2>4, <2>5, <2>6 DEF InOrder
<1>7. ASSUME NEW R \in SUBSET Row, NEW T \in SUBSET Names, AllHoused(M, rule, R, S, T),
             S \subseteq T, \A r \in R : r.id # i
      PROVE  AllHoused(N, rule, R, S, T)
  <2> SUFFICES ASSUME NEW r \in R, r.id \in Live(N), Key[r.name] \notin T
               PROVE  Housed(N, rule, R, S, r)
    BY DEF AllHoused
  <2>1. r.id \in Live(M) /\ Housed(M, rule, R, S, r)
    BY <1>1, <1>7 DEF AllHoused
  <2>2. KeyedBy(M, r.name) \/ Ruled(rule, Key[r.name])
    BY <2>1 DEF Housed
  <2>3. KeyedBy(M, r.name) => Key[r.name] # Key[n]
    BY DEF KeyedBy
  <2>4. Key[r.name] \notin S /\ Key[r.name] # Key[n]
    BY <1>4, <1>7, <2>2, <2>3
  <2>5. KnownAs(N, r.name) = KnownAs(M, r.name)
    BY <1>2, <2>4
  <2>6. ASSUME NEW g \in Names, rule[g] # NoName, Key[g] = Key[r.name], Key[rule[g]] \notin S
        PROVE  KnownAs(N, rule[g]) = KnownAs(M, rule[g])
    <3>1. KeyedBy(M, rule[g]) \/ Ruled(rule, Key[rule[g]])
      BY <2>4, <2>6 DEF InOrder, Leads
    <3>2. KeyedBy(M, rule[g]) => Key[rule[g]] # Key[n]
      BY DEF KeyedBy
    <3>3. Key[rule[g]] # Key[n]
      BY <1>4, <2>6, <3>1, <3>2
    <3> QED
      BY <1>2, <3>3
  <2>7. \A q \in R : q.id \in Live(N) => q.id \in Live(M)
    BY <1>1, <1>7
  <2> QED
    BY <1>3, <2>1, <2>5, <2>6, <2>7 DEF Housed
<1> QED
  BY <1>1, <1>2, <1>6, <1>7

\* A reading is filed with somebody known by what the rules, present or copied, make of
\* it, when that is another spelling of the name or the result of its rule.
Follows(ru, n, c) == Key[c] = Key[n] \/ \E g \in Names : Key[g] = Key[n] /\ ru[g] = c

LEMMA FiledHoused ==
  ASSUME rule \in [Names -> Names \cup {NoName}],
         NEW M, NEW R \in SUBSET Row, NEW S, NEW T, S \subseteq T, InOrder(M, rule, S),
         AllHoused(M, rule, R, S, T), NEW n \in Names, NEW c \in Names, NEW i \in Ids,
         Key[n] \notin T => Follows(rule, n, c) /\ Key[c] \notin S
                            /\ (i \in Live(M) => i \in KnownAs(M, c))
  PROVE  AllHoused(M, rule, R \cup {[name |-> n, id |-> i]}, S, T)
<1> DEFINE new == [name |-> n, id |-> i]
           Q   == R \cup {new}
<1>1. new.name = n /\ new.id = i
  OBVIOUS
<1>2. CASE Key[n] \in T \/ i \notin Live(M)
  <2> SUFFICES ASSUME NEW r \in Q, r.id \in Live(M), Key[r.name] \notin T
               PROVE  Housed(M, rule, Q, S, r)
    BY DEF AllHoused
  <2>1. r # new
    BY <1>1, <1>2
  <2>2. Housed(M, rule, R, S, r)
    BY <2>1 DEF AllHoused
  <2>3. \A q \in Q : q.id \in Live(M) /\ Key[q.name] = Key[r.name] => q \in R
    BY <1>1, <1>2
  <2> QED
    BY <2>2, <2>3 DEF Housed
<1>3. CASE Key[n] \notin T /\ i \in Live(M)
  <2>1. Follows(rule, n, c) /\ Key[c] \notin S /\ i \in KnownAs(M, c) /\ Key[n] \notin S
    BY <1>3
  <2>2. \A m \in Names : Key[m] = Key[n] => KnownAs(M, m) = KnownAs(M, n)
    BY DEF KnownAs
  <2>3. /\ \A j, k \in KnownAs(M, c) : j = k
        /\ \A j, k \in KnownAs(M, n) : j = k
    BY <2>1 DEF InOrder, OneKnown
  <2> DEFINE At(p) == /\ \A j \in KnownAs(M, n) : p = j
                      /\ \A g \in Names : /\ rule[g] # NoName /\ Key[g] = Key[n]
                                           /\ Key[rule[g]] \notin S
                           => \A j \in KnownAs(M, rule[g]) : p = j
  <2>4. At(i) /\ (\A p : At(p) => p = i) /\ (KeyedBy(M, n) \/ Ruled(rule, Key[n]))
    <3>1. CASE Key[c] = Key[n]
      <4>1. i \in KnownAs(M, n)
        BY <2>1, <2>2, <3>1
      <4>2. ASSUME NEW g \in Names, rule[g] # NoName, Key[g] = Key[n], Key[rule[g]] \notin S
            PROVE  \A j \in KnownAs(M, rule[g]) : i = j
        <5>1. rule[g] \in Names
          BY <4>2
        <5>2. Key[M[i].name] = Key[rule[g]]
          BY <2>1, <2>2, <4>1, <4>2 DEF InOrder, Leads
        <5>3. i \in KnownAs(M, rule[g])
          BY <1>3, <5>2 DEF KnownAs
        <5> QED
          BY <4>2, <5>1, <5>3 DEF InOrder, OneKnown
      <4>3. KeyedBy(M, n) \/ Ruled(rule, Key[n])
        <5>1. PICK x \in {M[i].name} \cup M[i].aliases : Key[x] = Key[n]
          BY <4>1 DEF KnownAs
        <5>2. CASE x = M[i].name
          BY <1>3, <5>1, <5>2 DEF KeyedBy
        <5>3. CASE x \in M[i].aliases
          BY <1>3, <2>1, <5>1, <5>3 DEF InOrder, AliasRuled
        <5> QED
          BY <5>1, <5>2, <5>3
      <4> QED
        BY <2>3, <4>1, <4>2, <4>3
    <3>2. CASE \E g \in Names : Key[g] = Key[n] /\ rule[g] = c
      <4>1. PICK h \in Names : Key[h] = Key[n] /\ rule[h] = c
        BY <3>2
      <4>2. rule[h] # NoName
        BY <4>1, RosterAssumption
      <4>3. \A j \in KnownAs(M, n) : j \in KnownAs(M, c)
        <5> SUFFICES ASSUME NEW j \in KnownAs(M, n) PROVE j \in KnownAs(M, c)
          OBVIOUS
        <5>1. Key[M[j].name] = Key[c]
          BY <2>1, <2>2, <4>1, <4>2 DEF InOrder, Leads
        <5> QED
          BY <5>1 DEF KnownAs
      <4>4. \A g \in Names : rule[g] # NoName /\ Key[g] = Key[n] => g = h
        BY <2>1, <4>1, <4>2 DEF InOrder, OneRule
      <4>5. Ruled(rule, Key[n])
        BY <4>1, <4>2 DEF Ruled
      <4>6. At(i)
        BY <2>1, <2>3, <4>1, <4>3, <4>4
      <4>7. \A p : At(p) => p = i
        BY <2>1, <4>1, <4>2
      <4> QED
        BY <4>5, <4>6, <4>7
    <3> QED
      BY <2>1, <3>1, <3>2 DEF Follows
  <2> SUFFICES ASSUME NEW r \in Q, r.id \in Live(M), Key[r.name] \notin T
               PROVE  Housed(M, rule, Q, S, r)
    BY DEF AllHoused
  <2>5. \A q \in R : q.name \in Names
    BY DEF Row
  <2>6. \A q \in R : q.id \in Live(M) /\ Key[q.name] = Key[n] => q.id = i
    <3> SUFFICES ASSUME NEW q \in R, q.id \in Live(M), Key[q.name] = Key[n] PROVE q.id = i
      OBVIOUS
    <3>1. Housed(M, rule, R, S, q)
      BY <1>3 DEF AllHoused
    <3>2. At(q.id)
      BY <2>2, <2>5, <3>1 DEF Housed
    <3> HIDE DEF At
    <3> QED
      BY <2>4, <3>2
  <2>7. CASE r \in R
    <3>1. Housed(M, rule, R, S, r)
      BY <2>7 DEF AllHoused
    <3>2. \A q \in Q : q.id \in Live(M) /\ Key[q.name] = Key[r.name] => q.id = r.id
      BY <1>1, <2>6, <2>7, <3>1 DEF Housed
    <3> QED
      BY <3>1, <3>2 DEF Housed
  <2>8. CASE r = new
    <3>1. \A q \in Q : q.id \in Live(M) /\ Key[q.name] = Key[n] => q.id = i
      BY <1>1, <2>6
    <3> QED
      BY <1>1, <2>4, <2>8, <3>1 DEF Housed
  <2> QED
    BY <2>7, <2>8
<1> QED
  BY <1>2, <1>3

LEMMA UpsertCases ==
  ASSUME NEW s \in RosterState, Fresh(s.m, s.next), NEW n \in Names, Room(s, n)
  PROVE  LET u == UpsertMember(s, n)
             i == Recognised(s.m, n)
         IN  /\ i # 0 => /\ i \in Live(s.m) /\ u.id = i /\ u.next = s.next
                         /\ SameMembers(s.m, u.m)
             /\ i = 0 => /\ s.next \in Ids \ Live(s.m) /\ u.id = s.next
                         /\ u.next = s.next + 1
                         /\ u.m[s.next].name = n /\ u.m[s.next].aliases = {}
                         /\ \A j \in Ids \ {s.next} : u.m[j] = s.m[j]
<1> DEFINE u == UpsertMember(s, n)
           i == Recognised(s.m, n)
<1>1. /\ s.m \in [Ids -> Member] /\ s.next \in 1..(MaxMembers + 1) /\ s.id \in 0..MaxMembers
      /\ MaxMembers \in Nat
  BY RosterAssumption DEF RosterState
<1>2. CASE i # 0
  <2>1. i \in Live(s.m) /\ i \in Ids
    BY <1>1, <1>2, RecognisedIn DEF Live
  <2> HIDE DEF i
  <2> DEFINE N == [s.m EXCEPT ![i].active = TRUE]
  <2>2. u = [s EXCEPT !.m = N, !.id = i]
    BY <1>1, <1>2, <2>1 DEF UpsertMember, i, RosterState
  <2>3. SameMembers(s.m, N)
    BY <1>1, <2>1 DEF Member, SameMembers
  <2> HIDE DEF N, u
  <2>4. u.m = N /\ u.next = s.next /\ u.id = i
    BY <2>2 DEF RosterState
  <2> QED
    BY <1>2, <2>1, <2>3, <2>4 DEF u, i
<1>3. CASE i = 0
  <2> DEFINE rec == [name |-> n, aliases |-> {}, active |-> TRUE]
             N == [s.m EXCEPT ![s.next] = rec]
  <2>1. s.next \in Ids
    BY <1>3 DEF Room
  <2>2. u = [s EXCEPT !.m = N, !.next = s.next + 1, !.id = s.next]
    BY <1>1, <1>3 DEF UpsertMember, RosterState
  <2>3. N[s.next] = rec /\ \A j \in Ids \ {s.next} : N[j] = s.m[j]
    BY <1>1, <2>1
  <2>4. rec.name = n /\ rec.aliases = {}
    OBVIOUS
  <2>5. s.next \notin Live(s.m)
    BY <1>1, <2>1, GoneTyped DEF Fresh, Live, Ids
  <2> HIDE DEF N, u, rec
  <2>6. u.m = N /\ u.next = s.next + 1 /\ u.id = s.next
    BY <2>2 DEF RosterState
  <2> QED
    BY <1>3, <2>1, <2>3, <2>4, <2>5, <2>6 DEF u
<1> QED
  BY <1>2, <1>3

LEMMA RevivedMore ==
  ASSUME NEW N, NEW P, Live(N) \subseteq Live(P), \A i \in Live(N) : P[i].name = N[i].name
  PROVE  Revived(N) \subseteq Revived(P)
BY DEF Revived

-----------------------------------------------------------------------------
(* What an activity does, row by row, to the roster that it found.          *)

\* The roster r, grown from the one at the beginning of the step, is in order, and the
\* rows R are housed, those of the names in F excused.
Sound(r, R, F) ==
  /\ r \in RosterState /\ Fresh(r.m, r.next) /\ Grown(member, r.m) /\ nextId <= r.next
  /\ \A j \in Live(r.m) \ Live(member) : j >= nextId
  /\ InOrder(r.m, rule, split \cup Revived(r.m))
  /\ AllHoused(r.m, rule, R, split \cup Revived(r.m), split \cup Revived(r.m) \cup F)
  /\ R \in SUBSET Row /\ \A q \in R : q.id < r.next

LEMMA SoundUpsert ==
  ASSUME RosterInv, NEW r, NEW R, NEW F \in SUBSET Names, Sound(r, R, F),
         NEW c \in Names, Room(r, c)
  PROVE  LET u == UpsertMember(r, c)
         IN  /\ Sound(u, R, F) /\ u.id \in KnownAs(u.m, c)
             /\ u.id \in Ids /\ u.id < u.next /\ r.next <= u.next
             /\ Live(r.m) \subseteq Live(u.m)
             /\ u.id \in Live(r.m) \/ u.id = r.next
<1> DEFINE u == UpsertMember(r, c)
           i == Recognised(r.m, c)
           S == split \cup Revived(u.m)
<1>1. /\ r \in RosterState /\ Fresh(r.m, r.next) /\ r.m \in [Ids -> Member]
      /\ r.next \in Nat /\ nextId \in Nat /\ nextId <= r.next
      /\ member \in [Ids -> Member] /\ split \subseteq Names
  BY RosterAssumption DEF Sound, RosterState, RosterInv, TypeOK
<1>2. /\ u \in RosterState /\ u.next \in {r.next, r.next + 1}
      /\ Fresh(u.m, u.next) /\ Grown(r.m, u.m) /\ u.id \in Live(u.m)
  BY <1>1, UpsertTyped
<1>3. /\ i # 0 => /\ i \in Live(r.m) /\ u.id = i /\ u.next = r.next
                  /\ SameMembers(r.m, u.m)
      /\ i = 0 => /\ r.next \in Ids \ Live(r.m) /\ u.id = r.next
                  /\ u.next = r.next + 1
                  /\ u.m[r.next].name = c /\ u.m[r.next].aliases = {}
                  /\ \A j \in Ids \ {r.next} : u.m[j] = r.m[j]
  BY <1>1, UpsertCases
<1>4. i \in KnownAs(r.m, c) \cup {0} /\ (i = 0 => ~KeyedBy(r.m, c))
  BY <1>1, RecognisedKnown
<1> HIDE DEF u, i
<1>5. u.m \in [Ids -> Member] /\ Grown(member, u.m) /\ nextId <= u.next /\ u.next \in Nat
  <2>1. u.m \in [Ids -> Member]
    BY <1>2 DEF RosterState
  <2>2. Grown(member, u.m)
    BY <1>1, <1>2, <2>1, GrownTwice DEF Sound
  <2> QED
    BY <1>1, <1>2, <2>1, <2>2
<1>6. /\ Live(r.m) \subseteq Live(u.m) /\ \A j \in Live(r.m) : u.m[j].name = r.m[j].name
      /\ Live(u.m) \subseteq Ids
  BY <1>2 DEF Grown, Live
<1>7. split \cup Revived(r.m) \subseteq S /\ S \subseteq Names
  BY <1>1, <1>5, <1>6, RevivedMore, RevivedTyped
<1>8. /\ InOrder(r.m, rule, S) /\ AllHoused(r.m, rule, R, S, S \cup F)
      /\ R \in SUBSET Row /\ \A q \in R : q.id < r.next /\ q.id \in Ids
  <2>1. split \cup Revived(r.m) \cup F \subseteq S \cup F
    BY <1>7
  <2>2. InOrder(r.m, rule, S)
    BY <1>7, InOrderMore DEF Sound
  <2>3. AllHoused(r.m, rule, R, S, S \cup F)
    BY <1>7, <2>1, HousedMore DEF Sound
  <2> QED
    BY <2>2, <2>3 DEF Sound, Row
<1>9. u.id < u.next
  BY <1>1, <1>2, <1>5, <1>6, GoneTyped DEF Fresh, Live, Ids
<1>10. CASE i # 0
  <2>1. SameMembers(r.m, u.m) /\ u.next = r.next /\ u.id = i /\ i \in Live(r.m)
    BY <1>3, <1>10
  <2>2. Live(u.m) = Live(r.m) /\ \A n : KnownAs(u.m, n) = KnownAs(r.m, n)
    BY <2>1, SameKnown
  <2>3. InOrder(u.m, rule, S) /\ AllHoused(u.m, rule, R, S, S \cup F)
    BY <1>8, <2>1, SameInOrder
  <2>4. Sound(u, R, F)
    BY <1>2, <1>5, <1>8, <2>1, <2>2, <2>3 DEF Sound
  <2> QED
    <3>1. u.id \in KnownAs(u.m, c) /\ u.id \in Ids
      BY <1>4, <1>6, <1>10, <2>1, <2>2
    <3>2. r.next <= u.next /\ Live(r.m) \subseteq Live(u.m) /\ u.id \in Live(r.m)
      BY <1>1, <2>1, <2>2
    <3> QED
      BY <1>9, <2>4, <3>1, <3>2 DEF u
<1>11. CASE i = 0
  <2>1. /\ r.next \in Ids \ Live(r.m) /\ u.id = r.next /\ u.next = r.next + 1
        /\ u.m[r.next].name = c /\ u.m[r.next].aliases = {}
        /\ \A j \in Ids \ {r.next} : u.m[j] = r.m[j]
        /\ ~KeyedBy(r.m, c)
    BY <1>3, <1>4, <1>11
  <2>2. r.next \notin Live(member)
    BY <1>1, <2>1, GoneTyped DEF RosterInv, Fresh, Live, Ids
  <2>3. Key[c] \in S \/ ApplyMergeRules(c) = {c}
    BY <1>2, <2>1, <2>2 DEF Revived
  <2>4. \A q \in R : q.id # r.next
    BY <1>1, <1>8 DEF Ids
  <2>5. /\ InOrder(u.m, rule, S) /\ r.next \in KnownAs(u.m, c)
        /\ Live(u.m) = Live(r.m) \cup {r.next}
        /\ AllHoused(u.m, rule, R, S, S \cup F)
    <3>1. S \cup F \in SUBSET Names /\ S \subseteq S \cup F
      BY <1>7
    <3> HIDE DEF S
    <3>2. /\ InOrder(u.m, rule, S) /\ r.next \in KnownAs(u.m, c)
          /\ Live(u.m) = Live(r.m) \cup {r.next}
          /\ \A Q \in SUBSET Row, T \in SUBSET Names :
               AllHoused(r.m, rule, Q, S, T) /\ S \subseteq T /\ (\A q \in Q : q.id # r.next)
                 => AllHoused(u.m, rule, Q, S, T)
      BY <1>1, <1>5, <1>8, <2>1, <2>3, CreatedInOrder
    <3> QED
      BY <1>8, <2>4, <3>1, <3>2
  <2>6. \A j \in Live(u.m) \ Live(member) : j >= nextId
    BY <1>1, <2>5 DEF Sound
  <2>7. \A q \in R : q.id < u.next
    BY <1>1, <1>8, <2>1 DEF Ids
  <2>8. Sound(u, R, F)
    BY <1>2, <1>5, <1>8, <2>5, <2>6, <2>7 DEF Sound
  <2> QED
    BY <1>1, <1>6, <1>9, <2>1, <2>5, <2>8 DEF u
<1> QED
  BY <1>10, <1>11

\* One more row.
LEMMA SoundFiled ==
  ASSUME RosterInv, NEW r, NEW R, NEW F \in SUBSET Names, NEW G \in SUBSET Names,
         F \subseteq G, Sound(r, R, F), NEW n \in Names, NEW c \in Names,
         NEW i \in Ids, i < r.next,
         Key[n] \notin split \cup G =>
           /\ Follows(rule, n, c) /\ Key[c] \notin split \cup Revived(r.m)
           /\ i \in Live(r.m) => i \in KnownAs(r.m, c)
  PROVE  Sound(r, R \cup {[name |-> n, id |-> i]}, G)
<1> DEFINE S == split \cup Revived(r.m)
           Q == R \cup {[name |-> n, id |-> i]}
<1>1. rule \in [Names -> Names \cup {NoName}]
  BY DEF RosterInv, TypeOK
<1>2. /\ InOrder(r.m, rule, S) /\ AllHoused(r.m, rule, R, S, S \cup F) /\ R \in SUBSET Row
      /\ \A q \in R : q.id < r.next
  BY DEF Sound
<1>3. S \subseteq S \cup G /\ S \cup F \subseteq S \cup G
  OBVIOUS
<1>4. Key[n] \notin S \cup G => /\ Follows(rule, n, c) /\ Key[c] \notin S
                                /\ i \in Live(r.m) => i \in KnownAs(r.m, c)
  OBVIOUS
<1>5. Q \in SUBSET Row /\ \A q \in Q : q.id < r.next
  BY <1>2 DEF Row
<1> HIDE DEF S
<1>6. AllHoused(r.m, rule, R, S, S \cup G)
  BY <1>2, <1>3, HousedMore
<1>7. AllHoused(r.m, rule, Q, S, S \cup G)
  BY <1>1, <1>2, <1>3, <1>4, <1>6, FiledHoused
<1> QED
  BY <1>5, <1>7 DEF Sound, S

-----------------------------------------------------------------------------
(* The invariant of who holds what.                                         *)

\* The rows, and the one that a crop is being saved for.
Rows ==
  {r \in Row : \/ r.name \in holds[r.id]
               \/ run.pc = "saving" /\ r.name = run.name /\ r.id = run.id}

HoldersLive == \A i \in Ids : holds[i] # {} => i \in Live(member)

\* A copy of the rules says what the rules say, but for names that are excused.
CanonKept ==
  \A x \in Names : Key[x] \notin split =>
    \/ Key[run.canon[x]] = Key[x]
    \/ \E g \in Names : Key[g] = Key[x] /\ rule[g] = run.canon[x]

\* So does a copy of the roster, of the members who are still there; and a member that is
\* created later is not in it.
RosterKept ==
  /\ \A n \in Names : Key[n] \notin split =>
       KnownAs(run.roster, n) \cap Live(member) \subseteq KnownAs(member, n)
  /\ \A i \in Live(run.roster) : i < nextId

HousedInv ==
  /\ InOrder(member, rule, split) /\ AllHoused(member, rule, Rows, split, split)
  /\ HoldersLive /\ (\A q \in Rows : q.id < nextId)
  /\ CanonKept /\ RosterKept

LEMMA HousedStart ==
  ASSUME RosterInv, HousedInv
  PROVE  Sound(TheRoster, Rows, {}) /\ Revived(member) = {}
<1>1. /\ TheRoster \in RosterState /\ TheRoster.m = member /\ TheRoster.next = nextId
      /\ Fresh(member, nextId) /\ nextId \in Nat
  BY TheRosterTyped, RosterAssumption DEF RosterInv, TypeOK
<1>2. Revived(member) = {}
  BY DEF Revived
<1>3. Rows \in SUBSET Row
  BY DEF Rows
<1>4. split \cup Revived(member) = split /\ split \cup Revived(member) \cup {} = split
  BY <1>2
<1> QED
  BY <1>1, <1>2, <1>3, <1>4, GrownSame DEF HousedInv, Sound

\* The step is over: the roster is the one that the activity made.
LEMMA Landed ==
  ASSUME RosterInv, HousedInv, NEW r, NEW R, NEW F, Sound(r, R, F),
         SameMembers(r.m, member'), nextId' = r.next, rule' = rule,
         split \cup Revived(r.m) \cup F \subseteq split', Rows' \subseteq R,
         \A i \in Ids : holds'[i] # {} => holds[i] # {} \/ i \in Live(r.m),
         CanonKept', RosterKept'
  PROVE  HousedInv'
<1> DEFINE S == split \cup Revived(r.m)
<1>1. S \subseteq split' /\ S \cup F \subseteq split'
  OBVIOUS
<1>2. /\ InOrder(r.m, rule, S) /\ AllHoused(r.m, rule, R, S, S \cup F)
      /\ \A q \in R : q.id < r.next
  BY DEF Sound
<1> HIDE DEF S
<1>3. InOrder(r.m, rule, split')
  BY <1>1, <1>2, InOrderMore
<1>4. AllHoused(r.m, rule, R, split', split')
  BY <1>1, <1>2, HousedMore
<1>5. AllHoused(r.m, rule, Rows', split', split')
  BY <1>4, HousedFewer
<1>6. InOrder(member', rule', split') /\ AllHoused(member', rule', Rows', split', split')
  BY <1>3, <1>5, SameInOrder
<1>7. HoldersLive'
  <2>1. Live(member') = Live(r.m) /\ Live(member) \subseteq Live(r.m)
    BY SameKnown DEF Sound, Grown, Live
  <2> QED
    BY <2>1 DEF HoldersLive, HousedInv
<1>8. \A q \in Rows' : q.id < nextId'
  BY <1>2
<1> QED
  BY <1>6, <1>7, <1>8 DEF HousedInv

\* A copy stays true while the roster only grows.
LEMMA CopyStays ==
  ASSUME HousedInv, RosterInv, Grown(member, member'), nextId <= nextId', nextId' \in Nat,
         rule' = rule, split \subseteq split',
         run'.canon = run.canon, run'.roster = run.roster,
         \A j \in Live(member') \ Live(member) : j >= nextId
  PROVE  CanonKept' /\ RosterKept'
<1>1. CanonKept'
  BY DEF HousedInv, CanonKept
<1>2. \A i \in Live(run.roster) : i < nextId /\ i \in Nat /\ nextId \in Nat
  BY RosterAssumption DEF HousedInv, RosterKept, RosterInv, TypeOK, Live, Ids
<1>3. ASSUME NEW n \in Names, Key[n] \notin split', NEW i \in KnownAs(run.roster, n),
             i \in Live(member')
      PROVE  i \in KnownAs(member', n)
  <2>1. i \in Live(member)
    BY <1>2, <1>3 DEF KnownAs
  <2>2. i \in KnownAs(member, n)
    BY <1>3, <2>1 DEF HousedInv, RosterKept
  <2> QED
    BY <1>3, <2>1, <2>2 DEF Grown, KnownAs
<1>4. RosterKept'
  BY <1>2, <1>3 DEF RosterKept
<1> QED
  BY <1>1, <1>4

LEMMA CopyNone == ASSUME run' = NoRun PROVE CanonKept' /\ RosterKept'
<1>1. \A x \in Names : run'.canon[x] = x
  BY DEF NoRun
<1>2. Live(run'.roster) = {}
  BY GoneTyped DEF NoRun, Live
<1> QED
  BY <1>1, <1>2 DEF CanonKept, RosterKept, KnownAs

\* The rules say so, whichever of them is applied.
LEMMA AppliedFollows ==
  ASSUME TypeOK, NEW n \in Names, NEW c \in ApplyMergeRules(n)
  PROVE  Follows(rule, n, c)
<1>1. CASE rule[n] # NoName
  BY <1>1 DEF ApplyMergeRules, Follows
<1>2. CASE rule[n] = NoName
  BY <1>2 DEF ApplyMergeRules, Follows
<1> QED
  BY <1>1, <1>2

LEMMA HousedBegins ==
  ASSUME RosterInv, HousedInv, ScanBegins \/ MightBegins \/ ResourcesBegin
  PROVE  HousedInv'
<1>1. UNCHANGED <<member, nextId, rule, holds, split>>
  BY DEF ScanBegins, MightBegins, ResourcesBegin
<1>2. PICK pc \in {"scan", "might", "resources"}, canon \in [Names -> Names] :
        /\ Begin(pc, canon)
        /\ \A x \in Names : canon[x] = x \/ canon[x] \in ApplyMergeRules(x)
  BY DEF ScanBegins, MightBegins, ResourcesBegin, LoadMergeRules
<1>3. run'.pc = pc /\ run'.canon = canon /\ run'.roster = member /\ run.pc = "idle"
  BY <1>2 DEF Begin, NoRun, ScanBegins, MightBegins, ResourcesBegin
<1>4. CanonKept'
  <2>1. \A x \in Names : Follows(rule, x, canon[x])
    BY <1>2, AppliedFollows DEF RosterInv, Follows
  <2> QED
    BY <1>1, <1>3, <2>1 DEF CanonKept, Follows
<1>5. RosterKept'
  <2>1. \A i \in Live(member) : i < nextId
    BY GoneTyped, RosterAssumption DEF RosterInv, TypeOK, Fresh, Live, Ids
  <2> QED
    BY <1>1, <1>3, <2>1 DEF RosterKept
<1>6. Rows' = Rows
  BY <1>1, <1>3 DEF Rows
<1> QED
  BY <1>1, <1>4, <1>5, <1>6 DEF HousedInv, HoldersLive

\* A step that leaves the roster, the copies and the rules alone, and files no row that
\* was not pending.
LEMMA HousedQuiet ==
  ASSUME RosterInv, HousedInv, UNCHANGED <<member, nextId, rule, split>>, Rows' \subseteq Rows,
         \A i \in Ids : holds'[i] # {} => holds[i] # {} \/ i \in Live(member),
         CanonKept', RosterKept'
  PROVE  HousedInv'
<1>1. TheRoster.m = member /\ TheRoster.next = nextId
  BY TheRosterTyped
<1>2. Sound(TheRoster, Rows, {}) /\ Revived(member) = {}
  BY HousedStart
<1>3. SameMembers(TheRoster.m, member')
  BY <1>1 DEF SameMembers
<1>4. split \cup Revived(TheRoster.m) \cup {} \subseteq split'
  BY <1>1, <1>2
<1> QED
  BY <1>1, <1>2, <1>3, <1>4, Landed

LEMMA HousedEnds ==
  ASSUME RosterInv, HousedInv, ScanEnds \/ RunFails
  PROVE  HousedInv'
<1>1. UNCHANGED <<member, nextId, rule, holds, split>> /\ run' = NoRun
  BY DEF ScanEnds, RunFails
<1>2. Rows' \subseteq Rows
  BY <1>1 DEF Rows, NoRun
<1> QED
  BY <1>1, <1>2, CopyNone, HousedQuiet

\* A pending row is already where it will be filed.
LEMMA HousedCropSaved ==
  ASSUME RosterInv, HousedInv, CropSaved
  PROVE  HousedInv'
<1>1. /\ UNCHANGED <<member, nextId, rule, split>> /\ run.pc = "saving"
      /\ run' = [run EXCEPT !.pc = "scan", !.id = 0, !.name = NoName]
      /\ \/ run.id \in Live(member) /\ FileRow(run.name, run.id)
         \/ holds' = holds
  BY DEF CropSaved
<1>2. run'.pc = "scan" /\ run'.canon = run.canon /\ run'.roster = run.roster
  BY <1>1 DEF RosterInv, TypeOK, RunRecord
<1>3. holds \in [Ids -> SUBSET Names]
  BY DEF RosterInv, TypeOK
<1>4. /\ \A r \in Row : r.name \in holds'[r.id] =>
           r.name \in holds[r.id] \/ (r.name = run.name /\ r.id = run.id)
      /\ \A i \in Ids : holds'[i] # {} => holds[i] # {} \/ i \in Live(member)
  <2>1. CASE run.id \in Live(member) /\ FileRow(run.name, run.id)
    BY <1>3, <2>1 DEF FileRow, Row, Live
  <2>2. CASE holds' = holds
    BY <2>2
  <2> QED
    BY <1>1, <2>1, <2>2
<1>5. Rows' \subseteq Rows
  BY <1>1, <1>2, <1>4 DEF Rows
<1>6. CanonKept' /\ RosterKept'
  BY <1>1, <1>2 DEF HousedInv, CanonKept, RosterKept
<1> QED
  BY <1>1, <1>4, <1>5, <1>6, HousedQuiet

LEMMA HousedMarks ==
  ASSUME RosterInv, HousedInv,
         (\E S \in SUBSET Ids : Deactivate(S)) \/ \E i \in Ids : RestoreMember(i)
  PROVE  HousedInv'
<1>1. /\ UNCHANGED <<nextId, rule, holds, run, split>> /\ Grown(member, member')
  BY MarkTyped DEF Deactivate, RestoreMember, Grows
<1>2. SameMembers(member, member')
  <2>0. member \in [Ids -> Member]
    BY DEF RosterInv, TypeOK
  <2>1. CASE \E S \in SUBSET Ids : Deactivate(S)
    <3>1. PICK S \in SUBSET Ids : Deactivate(S)
      BY <2>1
    <3>2. member' = [i \in Ids |-> IF i \in S THEN [member[i] EXCEPT !.active = FALSE]
                                   ELSE member[i]]
      BY <3>1 DEF Deactivate
    <3> QED
      BY <2>0, <3>2 DEF SameMembers, Member
  <2>2. CASE \E i \in Ids : RestoreMember(i)
    <3>1. PICK i \in Ids : member' = [member EXCEPT ![i].active = TRUE]
      BY <2>2 DEF RestoreMember
    <3> QED
      BY <2>0, <3>1 DEF SameMembers, Member
  <2> QED
    BY <2>1, <2>2
<1>3. TheRoster.m = member /\ TheRoster.next = nextId /\ nextId \in Nat
  BY TheRosterTyped, RosterAssumption DEF RosterInv, TypeOK
<1>4. Sound(TheRoster, Rows, {}) /\ Revived(member) = {}
  BY HousedStart
<1>5. Live(member') = Live(member)
  BY <1>2, SameKnown
<1>6. CanonKept' /\ RosterKept'
  BY <1>1, <1>3, <1>5, CopyStays
<1>7. Rows' = Rows
  BY <1>1 DEF Rows
<1>8. split \cup Revived(TheRoster.m) \cup {} \subseteq split'
  BY <1>1, <1>3, <1>4
<1> QED
  BY <1>1, <1>2, <1>3, <1>4, <1>6, <1>7, <1>8, Landed

LEMMA HousedCard ==
  ASSUME RosterInv, HousedInv, NEW n \in Names, ReadCard(n)
  PROVE  HousedInv'
<1>1. PICK matched \in MatchKnownPlayer(n) :
        LET corrected == run.canon[matched]
            s == UpsertMember(TheRoster, corrected)
        IN  /\ Room(TheRoster, corrected)
            /\ member' = s.m /\ nextId' = s.next
            /\ split' = split \cup Revived(s.m) \cup
                          IF \/ Key[matched] # Key[n]
                             \/ Key[corrected] \in split \cup Revived(s.m)
                            THEN {Key[n]} ELSE {}
            /\ \/ FileRow(n, s.id) /\ run' = [run EXCEPT !.left = @ - 1]
               \/ /\ run' = [run EXCEPT !.pc = "saving", !.left = @ - 1, !.name = n,
                                        !.id = s.id, !.pushed = @ \cup {corrected}]
                  /\ UNCHANGED holds
  BY DEF ReadCard
<1> DEFINE c   == run.canon[matched]
           u   == UpsertMember(TheRoster, c)
           far == IF Key[matched] # Key[n] \/ Key[c] \in split \cup Revived(u.m)
                    THEN {Key[n]} ELSE {}
           new == [name |-> n, id |-> u.id]
<1>2. /\ TypeOK /\ run.pc = "scan" /\ rule' = rule /\ Room(TheRoster, c)
      /\ member' = u.m /\ nextId' = u.next
      /\ split' = split \cup Revived(u.m) \cup far
      /\ \/ FileRow(n, u.id) /\ run' = [run EXCEPT !.left = @ - 1]
         \/ /\ run' = [run EXCEPT !.pc = "saving", !.left = @ - 1, !.name = n,
                                  !.id = u.id, !.pushed = @ \cup {c}]
            /\ UNCHANGED holds
  BY <1>1 DEF ReadCard, RosterInv
<1>3. matched \in Names /\ c \in Names /\ Key[n] \in Names
  BY <1>2, MatchTyped, RunFields, RosterAssumption
<1>4. Key[n] \notin split \cup far =>
        Follows(rule, n, c) /\ Key[c] \notin split \cup Revived(u.m)
  BY <1>3 DEF HousedInv, CanonKept, Follows
<1>5. Sound(TheRoster, Rows, {}) /\ {} \in SUBSET Names
  BY HousedStart
<1>6. /\ Sound(u, Rows, {}) /\ u.id \in KnownAs(u.m, c) /\ u.id \in Ids
      /\ u.id < u.next
  BY <1>2, <1>3, <1>5, SoundUpsert
<1> HIDE DEF u, c
<1>7. far \in SUBSET Names /\ {} \subseteq far
  BY <1>3
<1> HIDE DEF far
<1>8. Sound(u, Rows \cup {new}, far)
  BY <1>3, <1>4, <1>5, <1>6, <1>7, SoundFiled
<1>9. /\ run'.canon = run.canon /\ run'.roster = run.roster
      /\ \/ run'.pc = "scan" /\ FileRow(n, u.id)
         \/ run'.pc = "saving" /\ run'.name = n /\ run'.id = u.id /\ holds' = holds
  BY <1>2 DEF TypeOK, RunRecord
<1>10. /\ Rows' \subseteq Rows \cup {new}
       /\ \A i \in Ids : holds'[i] # {} => holds[i] # {} \/ i \in Live(u.m)
  <2>1. \A r \in Row : r.name = n /\ r.id = u.id => r = new
    BY DEF Row
  <2>2. u.id \in Live(u.m)
    BY <1>6 DEF KnownAs
  <2> HIDE DEF new
  <2>3. CASE run'.pc = "scan" /\ FileRow(n, u.id)
    <3>1. \A i \in Ids : holds'[i] = IF i = u.id THEN holds[i] \cup {n} ELSE holds[i]
      BY <1>2, <2>3 DEF FileRow, TypeOK
    <3> QED
      BY <2>1, <2>2, <2>3, <3>1 DEF Rows, Row
  <2>4. CASE run'.pc = "saving" /\ run'.name = n /\ run'.id = u.id /\ holds' = holds
    BY <1>2, <2>1, <2>4 DEF Rows
  <2> QED
    BY <1>9, <2>3, <2>4
<1>11. CanonKept' /\ RosterKept'
  <2>1. Grown(member, member') /\ nextId' \in Nat
    BY ReadCardTyped, RosterAssumption DEF Grows
  <2>2. nextId <= nextId' /\ \A j \in Live(member') \ Live(member) : j >= nextId
    BY <1>2, <1>6 DEF Sound
  <2>3. split \subseteq split'
    BY <1>2
  <2> QED
    BY <1>2, <1>9, <2>1, <2>2, <2>3, CopyStays
<1>12. SameMembers(u.m, member')
  BY <1>2 DEF SameMembers
<1> HIDE DEF new
<1> QED
  BY <1>2, <1>8, <1>10, <1>11, <1>12, Landed

\* Members created from a list or by an admin, who are given no row.
LEMMA HousedCreated ==
  ASSUME RosterInv, HousedInv, NEW c \in Names, Room(TheRoster, c),
         member' = UpsertMember(TheRoster, c).m, nextId' = UpsertMember(TheRoster, c).next,
         UNCHANGED <<rule, holds, run>>,
         split \cup Revived(UpsertMember(TheRoster, c).m) \subseteq split'
  PROVE  HousedInv'
<1> DEFINE u == UpsertMember(TheRoster, c)
<1>1. Sound(TheRoster, Rows, {}) /\ {} \in SUBSET Names
  BY HousedStart
<1>2. Sound(u, Rows, {}) /\ member' = u.m /\ nextId' = u.next
      /\ split \cup Revived(u.m) \cup {} \subseteq split'
  BY <1>1, SoundUpsert
<1>3. Grown(member, member') /\ nextId' \in Nat
  BY GrowsByUpsert, RosterAssumption DEF Grows
<1> HIDE DEF u
<1>4. nextId <= nextId' /\ \A j \in Live(member') \ Live(member) : j >= nextId
  BY <1>2 DEF Sound
<1>5. CanonKept' /\ RosterKept'
  BY <1>2, <1>3, <1>4, CopyStays
<1>6. SameMembers(u.m, member') /\ Rows' = Rows
  BY <1>2 DEF SameMembers, Rows
<1> QED
  BY <1>2, <1>5, <1>6, Landed

LEMMA HousedCapture ==
  ASSUME RosterInv, HousedInv, NEW n \in Names, CaptureMember(n)
  PROVE  HousedInv'
<1>1. PICK name \in ApplyMergeRules(n) :
        /\ Room(TheRoster, name)
        /\ member' = UpsertMember(TheRoster, name).m
        /\ nextId' = UpsertMember(TheRoster, name).next
        /\ split' = split \cup Revived(UpsertMember(TheRoster, name).m)
  BY DEF CaptureMember
<1>2. name \in Names
  BY AppliedTyped DEF RosterInv
<1>3. UNCHANGED <<rule, holds, run>>
  BY DEF CaptureMember
<1> QED
  BY <1>1, <1>2, <1>3, HousedCreated

LEMMA HousedReassign ==
  ASSUME RosterInv, HousedInv, NEW n \in Names, Reassign(n)
  PROVE  HousedInv'
<1> DEFINE u == UpsertMember(TheRoster, n)
<1>1. /\ Room(TheRoster, n) /\ member' = u.m /\ nextId' = u.next
      /\ split' = (IF Recognised(member, n) = 0 THEN split \cup {Key[n]} ELSE split)
      /\ UNCHANGED <<rule, holds, run>>
  BY DEF Reassign
<1>2. /\ TheRoster \in RosterState /\ TheRoster.m = member /\ TheRoster.next = nextId
      /\ Fresh(member, nextId)
  BY TheRosterTyped DEF RosterInv
<1>3. /\ Recognised(member, n) # 0 => SameMembers(member, u.m)
      /\ Recognised(member, n) = 0 => /\ u.m[nextId].name = n
                                      /\ \A j \in Ids \ {nextId} : u.m[j] = member[j]
  BY <1>1, <1>2, UpsertCases
<1> HIDE DEF u
<1>4. Revived(u.m) \subseteq split'
  <2>1. CASE Recognised(member, n) # 0
    <3>1. Live(u.m) = Live(member)
      BY <1>3, <2>1, SameKnown
    <3> QED
      BY <3>1 DEF Revived
  <2>2. CASE Recognised(member, n) = 0
    <3>1. \A j \in Live(u.m) \ Live(member) : u.m[j].name = n
      BY <1>3, <2>2 DEF Live
    <3> QED
      BY <1>1, <2>2, <3>1 DEF Revived
  <2> QED
    BY <2>1, <2>2
<1>5. split \subseteq split'
  BY <1>1
<1> QED
  BY <1>1, <1>4, <1>5, HousedCreated DEF u

-----------------------------------------------------------------------------
(* The rows of a list.                                                      *)

\* Who matches a name exactly is known by it, and nobody who is known by it is missed.
LEMMA ExactKnown ==
  ASSUME NEW M \in [Ids -> Member], NEW pool \in SUBSET Live(M), NEW n \in Names
  PROVE  /\ ExactMatchMember(M, pool, n) \in (KnownAs(M, n) \cap pool) \cup {0}
         /\ ExactMatchMember(M, pool, n) = 0 => KnownAs(M, n) \cap pool = {}
<1> DEFINE alike == {i \in pool : n \in {M[i].name} \cup M[i].aliases}
           keyed == {i \in pool : \E a \in {M[i].name} \cup M[i].aliases : Key[a] = Key[n]}
<1>1. /\ alike \in SUBSET Live(M) /\ keyed \in SUBSET Live(M)
      /\ alike \subseteq keyed /\ keyed = KnownAs(M, n) \cap pool
  BY DEF KnownAs
<1>2. ExactMatchMember(M, pool, n) = FirstByName(M, IF alike # {} THEN alike ELSE keyed)
  BY DEF ExactMatchMember
<1> HIDE DEF alike, keyed
<1>3. /\ FirstByName(M, alike) \in alike \cup {0}
      /\ FirstByName(M, alike) = 0 => alike = {}
      /\ FirstByName(M, keyed) \in keyed \cup {0}
      /\ FirstByName(M, keyed) = 0 => keyed = {}
  BY <1>1, FirstByNameIn
<1> QED
  BY <1>1, <1>2, <1>3

\* resolveMember looks at all members, active or not; its exact hit is known by what the
\* copied rules make of the name, and whoever is known by that is not missed.
LEMMA ResolveKnown ==
  ASSUME TypeOK, NEW n \in Names
  PROVE  LET hit == ResolveMember(n)
         IN  /\ hit.exact /\ hit.id # 0 => hit.id \in KnownAs(run.roster, run.canon[n])
             /\ KnownAs(run.roster, run.canon[n]) # {} => hit.exact /\ hit.id # 0
             /\ hit.id \in Live(run.roster) \cup {0}
<1> DEFINE M == run.roster
           active == {i \in Live(M) : M[i].active}
           inactive == Live(M) \ active
           Exact(x) == IF ExactMatchMember(M, active, x) # 0
                         THEN ExactMatchMember(M, active, x)
                         ELSE ExactMatchMember(M, inactive, x)
           close == IF CloseMember(M, active, n) # 0 THEN CloseMember(M, active, n)
                    ELSE CloseMember(M, inactive, n)
<1>1. /\ M \in [Ids -> Member] /\ run.canon[n] \in Names
      /\ active \in SUBSET Live(M) /\ inactive \in SUBSET Live(M)
      /\ \A x : KnownAs(M, x) \subseteq active \cup inactive
  BY RunFields DEF KnownAs
<1>2. ResolveMember(n) =
        IF run.canon[n] # n THEN [id |-> Exact(run.canon[n]), exact |-> Exact(run.canon[n]) # 0]
        ELSE IF Exact(n) # 0 THEN [id |-> Exact(n), exact |-> TRUE]
        ELSE [id |-> close, exact |-> FALSE]
  BY DEF ResolveMember
<1>8. close \in Live(M) \cup {0}
  BY <1>1, CloseTyped
<1> HIDE DEF M, active, inactive, close
<1>3. \A x \in Names : /\ Exact(x) \in KnownAs(M, x) \cup {0}
                       /\ Exact(x) = 0 => KnownAs(M, x) = {}
  <2> SUFFICES ASSUME NEW x \in Names
               PROVE  /\ Exact(x) \in KnownAs(M, x) \cup {0}
                      /\ Exact(x) = 0 => KnownAs(M, x) = {}
    OBVIOUS
  <2>1. /\ ExactMatchMember(M, active, x) \in (KnownAs(M, x) \cap active) \cup {0}
        /\ ExactMatchMember(M, active, x) = 0 => KnownAs(M, x) \cap active = {}
        /\ ExactMatchMember(M, inactive, x) \in (KnownAs(M, x) \cap inactive) \cup {0}
        /\ ExactMatchMember(M, inactive, x) = 0 => KnownAs(M, x) \cap inactive = {}
    BY <1>1, ExactKnown
  <2>2. KnownAs(M, x) \subseteq active \cup inactive
    BY <1>1
  <2> QED
    BY <2>1, <2>2
<1>4. \A x : 0 \notin KnownAs(M, x)
  BY RosterAssumption DEF KnownAs, Live, Ids
<1>9. \A x : KnownAs(M, x) \subseteq Live(M)
  BY DEF KnownAs
<1> HIDE DEF Exact
<1>5. CASE run.canon[n] # n
  <2>1. /\ ResolveMember(n).id = Exact(run.canon[n])
        /\ ResolveMember(n).exact = (Exact(run.canon[n]) # 0)
    BY <1>2, <1>5
  <2> QED
    BY <1>1, <1>3, <1>9, <2>1 DEF M
<1>6. CASE run.canon[n] = n /\ Exact(n) # 0
  <2>1. ResolveMember(n).id = Exact(n) /\ ResolveMember(n).exact
    BY <1>2, <1>6
  <2> QED
    BY <1>3, <1>6, <1>9, <2>1 DEF M
<1>7. CASE run.canon[n] = n /\ Exact(n) = 0
  <2>1. ~ResolveMember(n).exact /\ ResolveMember(n).id = close
    BY <1>2, <1>7
  <2> QED
    BY <1>3, <1>7, <1>8, <2>1 DEF M
<1> QED
  BY <1>5, <1>6, <1>7

\* A member of the copy is older than what the activity creates; known there by a name,
\* he is known by it while he is there.
LEMMA StillKnown ==
  ASSUME RosterInv, HousedInv, NEW r, NEW R, NEW F, Sound(r, R, F),
         NEW c \in Names, NEW i \in Live(run.roster)
  PROVE  /\ i \in Ids /\ i < r.next
         /\ i \in KnownAs(run.roster, c) /\ i \in Live(r.m) /\ Key[c] \notin split
              => i \in KnownAs(r.m, c)
<1>1. /\ i \in Ids /\ i < nextId /\ i \in Nat /\ nextId \in Nat /\ r.next \in Nat
      /\ nextId <= r.next
  BY RosterAssumption DEF HousedInv, RosterKept, Live, Ids, RosterInv, TypeOK,
     Sound, RosterState
<1>2. ASSUME i \in KnownAs(run.roster, c), i \in Live(r.m), Key[c] \notin split
      PROVE  i \in KnownAs(r.m, c)
  <2>1. i \in Live(member)
    BY <1>1, <1>2 DEF Sound
  <2>2. i \in KnownAs(member, c)
    BY <1>2, <2>1 DEF HousedInv, RosterKept
  <2> QED
    BY <1>2, <2>1, <2>2 DEF Sound, Grown, KnownAs
<1> QED
  BY <1>1, <1>2

\* The rows of the list may be stored, or lost.
ListSound(s) == Sound(s.r, Rows, {}) /\ Sound(s.r, Rows \cup s.rows, s.far)

LEMMA SoundId ==
  ASSUME NEW r, NEW u, NEW R, NEW F, Sound(r, R, F), u \in RosterState, u.m = r.m,
         u.next = r.next
  PROVE  Sound(u, R, F)
BY DEF Sound

LEMMA HousedMightRow ==
  ASSUME RosterInv, HousedInv, NEW s \in MightState, s.r.next \in Ids, ListSound(s),
         NEW n \in Names
  PROVE  ListSound(TakeMightRow(s, n))
<1> DEFINE hit == ResolveMember(n)
           c == run.canon[n]
           other == hit.id # 0 /\ ~hit.exact /\ hit.id \in s.seen
           up == IF hit.id = 0 \/ other THEN UpsertMember(s.r, c)
                 ELSE [s.r EXCEPT !.id = hit.id]
           far == IF \/ hit.id # 0 /\ ~hit.exact /\ ~other
                     \/ Key[c] \in split \cup Revived(up.m)
                    THEN s.far \cup {Key[n]} ELSE s.far
           rows == s.rows \cup {[name |-> n, id |-> up.id]}
           z == TakeMightRow(s, n)
<1>1. /\ TypeOK /\ s.r \in RosterState /\ c \in Names /\ Key[n] \in Names
      /\ s.far \in SUBSET Names /\ {} \in SUBSET Names
      /\ Sound(s.r, Rows, {}) /\ Sound(s.r, Rows \cup s.rows, s.far)
  BY RunFields, RosterAssumption DEF RosterInv, MightState, ListSound
<1>2. hit.id \in Ids \cup {0}
  BY <1>1, ResolveTyped
<1>3. /\ Room(s.r, c)
      /\ hit.exact /\ hit.id # 0 => hit.id \in KnownAs(run.roster, c)
      /\ hit.id \in Live(run.roster) \cup {0}
  BY <1>1, ResolveKnown DEF Room
<1>4. z = IF up.id \in s.seen THEN [s EXCEPT !.r = up]
          ELSE [r |-> up, seen |-> s.seen \cup {up.id}, rows |-> rows, far |-> far]
  BY DEF TakeMightRow
<1> HIDE DEF hit, c, z
<1>5. Key[n] \notin split => Follows(rule, n, c)
  BY DEF HousedInv, CanonKept, Follows, c
<1>6. /\ Sound(up, Rows, {}) /\ Sound(up, Rows \cup s.rows, s.far)
      /\ up.id \in Ids /\ up.id < up.next
      /\ Key[n] \notin far /\ up.id \in Live(up.m) => up.id \in KnownAs(up.m, c)
  <2>1. CASE hit.id = 0 \/ other
    <3>1. up = UpsertMember(s.r, c)
      BY <2>1
    <3> HIDE DEF up
    <3>2. Sound(up, Rows, {}) /\ up.id \in Ids /\ up.id < up.next
          /\ up.id \in KnownAs(up.m, c)
      BY <1>1, <1>3, <3>1, SoundUpsert
    <3>3. Sound(up, Rows \cup s.rows, s.far)
      BY <1>1, <1>3, <3>1, SoundUpsert
    <3> QED
      BY <3>2, <3>3
  <2>2. CASE ~(hit.id = 0 \/ other)
    <3>1. hit.id \in Ids /\ up = [s.r EXCEPT !.id = hit.id]
      BY <1>2, <2>2
    <3>2. hit.exact \/ Key[n] \in far
      BY <2>2
    <3>3. Key[n] \notin far => Key[c] \notin split
      OBVIOUS
    <3> HIDE DEF up, far
    <3>4. up \in RosterState /\ up.m = s.r.m /\ up.next = s.r.next /\ up.id = hit.id
      BY <1>1, <3>1, MatchedTyped
    <3>5. Sound(up, Rows, {}) /\ Sound(up, Rows \cup s.rows, s.far)
      BY <1>1, <3>4, SoundId
    <3>6. /\ hit.id < up.next
          /\ /\ hit.id \in KnownAs(run.roster, c) /\ hit.id \in Live(up.m)
             /\ Key[c] \notin split
             => hit.id \in KnownAs(up.m, c)
      <4>1. hit.id \in Live(run.roster)
        BY <1>3, <2>2
      <4> QED
        BY <1>1, <3>5, <4>1, StillKnown
    <3> QED
      BY <1>3, <2>2, <3>1, <3>2, <3>3, <3>4, <3>5, <3>6
  <2> QED
    BY <2>1, <2>2
<1>7. Key[n] \notin split \cup far => Key[c] \notin split \cup Revived(up.m)
  OBVIOUS
<1>8. far \in SUBSET Names /\ s.far \subseteq far
  BY <1>1
<1> DEFINE row == [name |-> n, id |-> up.id]
<1> HIDE DEF up, far, other
<1>9. Sound(up, Rows \cup s.rows \cup {row}, far)
  BY <1>1, <1>5, <1>6, <1>7, <1>8, SoundFiled
<1>10. Rows \cup s.rows \cup {row} = Rows \cup rows
  OBVIOUS
<1> HIDE DEF rows, row
<1>11. CASE up.id \in s.seen
  <2>1. z.r = up /\ z.rows = s.rows /\ z.far = s.far
    BY <1>4, <1>11 DEF MightState
  <2> QED
    BY <1>6, <2>1 DEF ListSound, z
<1>12. CASE up.id \notin s.seen
  <2>1. z.r = up /\ z.rows = rows /\ z.far = far
    BY <1>4, <1>12
  <2> QED
    BY <1>6, <1>9, <1>10, <2>1 DEF ListSound, z
<1> QED
  BY <1>11, <1>12

\* The rows are stored together, or none of them is.
LEMMA HousedStored ==
  ASSUME RosterInv, HousedInv, NEW s \in MightState, ListSound(s), NEW M \in [Ids -> Member],
         SameMembers(s.r.m, M), StoreRows(s, M), run.pc # "saving"
  PROVE  HousedInv'
<1>1. /\ member' = M /\ nextId' = s.r.next /\ run' = NoRun /\ rule' = rule
      /\ \/ /\ \A x \in s.rows : x.id \in Live(M)
            /\ holds' = [i \in Ids |-> holds[i] \cup {x.name : x \in {y \in s.rows : y.id = i}}]
            /\ split' = split \cup Revived(M) \cup s.far
         \/ holds' = holds /\ split' = split \cup Revived(M)
  BY DEF StoreRows
<1>2. CanonKept' /\ RosterKept'
  BY <1>1, CopyNone
<1>3. SameMembers(s.r.m, member') /\ Live(M) = Live(s.r.m) /\ Revived(M) = Revived(s.r.m)
  <2>1. Live(M) = Live(s.r.m)
    BY SameKnown
  <2>2. \A i \in Live(M) : M[i].name = s.r.m[i].name
    BY DEF SameMembers, Live
  <2>3. Revived(M) \subseteq Revived(s.r.m) /\ Revived(s.r.m) \subseteq Revived(M)
    BY <2>1, <2>2, RevivedMore
  <2> QED
    BY <1>1, <2>1, <2>3
<1>4. run'.pc = "idle"
  BY <1>1 DEF NoRun
<1>5. Sound(s.r, Rows, {}) /\ Sound(s.r, Rows \cup s.rows, s.far)
  BY DEF ListSound
<1>6. CASE /\ \A x \in s.rows : x.id \in Live(M)
           /\ holds' = [i \in Ids |-> holds[i] \cup {x.name : x \in {y \in s.rows : y.id = i}}]
           /\ split' = split \cup Revived(M) \cup s.far
  <2>1. \A i \in Ids : holds'[i] = holds[i] \cup {x.name : x \in {y \in s.rows : y.id = i}}
    BY <1>6
  <2>2. \A i \in Ids : holds'[i] # {} => holds[i] # {} \/ i \in Live(s.r.m)
    BY <1>3, <1>6, <2>1
  <2>3. Rows' \subseteq Rows \cup s.rows
    <3> SUFFICES ASSUME NEW q \in Row, q.name \in holds'[q.id] PROVE q \in Rows \cup s.rows
      BY <1>4 DEF Rows
    <3>1. CASE q.name \in holds[q.id]
      BY <3>1 DEF Rows
    <3>2. CASE q.name \notin holds[q.id]
      <4>1. PICK y \in s.rows : y.id = q.id /\ y.name = q.name
        BY <2>1, <3>2 DEF Row
      <4>2. y \in Row
        BY DEF MightState, Row
      <4>3. y = q
        BY <4>1, <4>2 DEF Row
      <4> QED
        BY <4>3
    <3> QED
      BY <3>1, <3>2
  <2>4. split \cup Revived(s.r.m) \cup s.far \subseteq split'
    BY <1>3, <1>6
  <2> QED
    BY <1>1, <1>2, <1>3, <1>5, <2>2, <2>3, <2>4, Landed
<1>7. CASE holds' = holds /\ split' = split \cup Revived(M)
  <2>1. Rows' \subseteq Rows
    BY <1>4, <1>7 DEF Rows
  <2>2. split \cup Revived(s.r.m) \cup {} \subseteq split'
    BY <1>3, <1>7
  <2> QED
    BY <1>1, <1>2, <1>3, <1>5, <1>7, <2>1, <2>2, Landed
<1> QED
  BY <1>1, <1>6, <1>7

LEMMA UntakenSound ==
  ASSUME RosterInv, HousedInv
  PROVE  ListSound(Untaken)
<1>1. Untaken.r = TheRoster /\ Untaken.rows = {} /\ Untaken.far = {}
  BY DEF Untaken
<1>2. Rows \cup {} = Rows
  OBVIOUS
<1> QED
  BY <1>1, <1>2, HousedStart DEF ListSound

LEMMA HousedMight ==
  ASSUME RosterInv, HousedInv, MightEnds
  PROVE  HousedInv'
<1> DEFINE Seen(z) == [i \in Ids |-> IF i \in z.seen \cap Live(z.r.m)
                                       THEN [z.r.m[i] EXCEPT !.active = TRUE]
                                       ELSE z.r.m[i]]
<1>1. PICK list \in Lists : /\ nextId + Len(list) <= MaxMembers + 1
                            /\ StoreRows(TakeMightRows(list), Seen(TakeMightRows(list)))
  BY DEF MightEnds
<1> DEFINE first == TakeMightRow(Untaken, list[1])
           z == TakeMightRows(list)
<1>2. nextId \in 1..(MaxMembers + 1) /\ MaxMembers \in Nat
  BY RosterAssumption DEF RosterInv, TypeOK
<1>3. PICK x \in Names, y \in Names : list = <<x>> \/ list = <<x, y>>
  BY DEF Lists
<1>4. list[1] \in Names /\ Untaken.r.next \in Ids
  BY <1>1, <1>2, <1>3, UntakenTyped DEF Ids
<1>5. /\ first \in MightState /\ Fresh(first.r.m, first.r.next)
      /\ first.r.next \in {nextId, nextId + 1} /\ ListSound(first)
  BY <1>4, UntakenTyped, UntakenSound, TakeMightTyped, HousedMightRow DEF RosterInv
<1>6. z \in MightState
  BY <1>1, TakeMightRowsTyped
<1>7. ListSound(z)
  <2> HIDE DEF first
  <2>1. CASE list = <<x>>
    <3>1. z = first
      BY <2>1 DEF TakeMightRows, first
    <3> QED
      BY <1>5, <3>1
  <2>2. CASE list = <<x, y>>
    <3>1. z = TakeMightRow(first, y)
      BY <2>2 DEF TakeMightRows, first
    <3>2. first.r.next \in Ids
      BY <1>1, <1>2, <1>5, <2>2 DEF Ids
    <3> HIDE DEF z
    <3> QED
      BY <1>5, <3>1, <3>2, HousedMightRow
  <2> QED
    BY <1>3, <2>1, <2>2
<1>8. StoreRows(z, Seen(z)) /\ run.pc # "saving"
  BY <1>1 DEF MightEnds
<1> HIDE DEF z
<1>9. Seen(z) \in [Ids -> Member] /\ SameMembers(z.r.m, Seen(z))
  <2>1. z.r.m \in [Ids -> Member]
    BY <1>6 DEF MightState, RosterState
  <2> QED
    BY <2>1 DEF Member, SameMembers
<1> HIDE DEF Seen
<1> QED
  BY <1>6, <1>7, <1>8, <1>9, HousedStored

LEMMA HousedResources ==
  ASSUME RosterInv, HousedInv, ResourcesEnd
  PROVE  HousedInv'
<1>0. PICK n \in Names : \E name \in ApplyMergeRules(n) :
        /\ Room(TheRoster, name)
        /\ StoreRows(TakeResourceRow(name, Untaken, n), TakeResourceRow(name, Untaken, n).r.m)
  BY DEF ResourcesEnd
<1>1. PICK c \in ApplyMergeRules(n) :
        /\ Room(TheRoster, c)
        /\ StoreRows(TakeResourceRow(c, Untaken, n), TakeResourceRow(c, Untaken, n).r.m)
  BY <1>0
<1> DEFINE hit == FuzzyMatchMember(run.roster, n)
           up == IF c # n \/ hit = 0 THEN UpsertMember(TheRoster, c)
                 ELSE [TheRoster EXCEPT !.id = hit]
           exact == ExactMatchMember(run.roster, Live(run.roster), n)
           far == IF \/ c = n /\ hit # 0 /\ exact = 0
                     \/ Key[c] \in split \cup Revived(up.m)
                    THEN {Key[n]} ELSE {}
           z == TakeResourceRow(c, Untaken, n)
           row == [name |-> n, id |-> up.id]
<1>2. z.r = up /\ z.rows = {row} /\ z.far = far /\ z.seen = {}
  BY DEF TakeResourceRow, Untaken
<1>3. /\ TypeOK /\ Key[n] \in Names /\ c \in Names /\ {} \in SUBSET Names
      /\ TheRoster \in RosterState /\ TheRoster.m = member /\ TheRoster.next = nextId
      /\ Follows(rule, n, c) /\ Sound(TheRoster, Rows, {})
  BY TheRosterTyped, RosterAssumption, AppliedTyped, AppliedFollows, HousedStart DEF RosterInv
<1>4. /\ hit \in Live(run.roster) \cup {0} /\ Live(run.roster) \subseteq Ids
      /\ exact # 0 => hit \in KnownAs(run.roster, n)
  <2>1. run.roster \in [Ids -> Member] /\ Live(run.roster) \in SUBSET Live(run.roster)
        /\ Live(run.roster) \subseteq Ids
    BY <1>3, RunFields DEF Live
  <2>2. CloseMember(run.roster, Live(run.roster), n) \in Live(run.roster) \cup {0}
    BY <2>1, CloseTyped
  <2>3. exact \in (KnownAs(run.roster, n) \cap Live(run.roster)) \cup {0}
    BY <2>1, ExactKnown
  <2> QED
    BY <2>1, <2>2, <2>3 DEF FuzzyMatchMember
<1> HIDE DEF hit, exact
<1>5. /\ Sound(up, Rows, {}) /\ up.id \in Ids /\ up.id < up.next
      /\ Key[n] \notin far /\ up.id \in Live(up.m) => up.id \in KnownAs(up.m, c)
  <2>1. CASE c # n \/ hit = 0
    <3>1. up = UpsertMember(TheRoster, c)
      BY <2>1
    <3> HIDE DEF up
    <3> QED
      BY <1>1, <1>3, <3>1, SoundUpsert
  <2>2. CASE ~(c # n \/ hit = 0)
    <3>1. hit \in Ids /\ up = [TheRoster EXCEPT !.id = hit] /\ hit \in Live(run.roster)
      BY <1>4, <2>2
    <3>2. Key[n] \notin far => exact # 0 /\ Key[c] \notin split
      BY <2>2
    <3> HIDE DEF up, far
    <3>3. up \in RosterState /\ up.m = TheRoster.m /\ up.next = TheRoster.next /\ up.id = hit
      BY <1>3, <3>1, MatchedTyped
    <3>4. Sound(up, Rows, {})
      BY <1>3, <3>3, SoundId
    <3>5. /\ hit < up.next
          /\ hit \in KnownAs(run.roster, c) /\ hit \in Live(up.m) /\ Key[c] \notin split
             => hit \in KnownAs(up.m, c)
      BY <1>3, <3>1, <3>4, StillKnown
    <3> QED
      BY <1>4, <2>2, <3>1, <3>2, <3>3, <3>4, <3>5
  <2> QED
    BY <2>1, <2>2
<1>6. Key[n] \notin split \cup far => Key[c] \notin split \cup Revived(up.m)
  OBVIOUS
<1>7. far \in SUBSET Names /\ {} \subseteq far
  BY <1>3
<1> HIDE DEF up, far
<1>8. Sound(up, Rows \cup {row}, far)
  BY <1>3, <1>5, <1>6, <1>7, SoundFiled
<1>9. ListSound(z)
  BY <1>2, <1>5, <1>8 DEF ListSound
<1>10. z \in MightState /\ up.m \in [Ids -> Member]
  <2>1. up \in RosterState
    BY <1>5 DEF Sound
  <2>2. {row} \in SUBSET [name : Names, id : Ids]
    BY <1>5
  <2>3. z = [r |-> z.r, seen |-> z.seen, rows |-> z.rows, far |-> z.far]
    BY DEF TakeResourceRow
  <2> HIDE DEF z, row
  <2>4. z \in MightState
    BY <1>2, <1>7, <2>1, <2>2, <2>3 DEF MightState
  <2> QED
    BY <2>1, <2>4 DEF RosterState
<1>11. StoreRows(z, z.r.m) /\ run.pc # "saving" /\ SameMembers(z.r.m, z.r.m)
  BY <1>1 DEF ResourcesEnd, SameMembers
<1> HIDE DEF z, row
<1> QED
  BY <1>2, <1>9, <1>10, <1>11, HousedStored

-----------------------------------------------------------------------------
(* What admins do.                                                          *)

\* An edit that disturbs the names and rules of excused keys only.
LEMMA Edited ==
  ASSUME RosterInv, HousedInv, UNCHANGED <<nextId, holds, run>>, split \subseteq split',
         split' \subseteq Names,
         Live(member') = Live(member), UniqueNames(member'),
         \A n \in Names : Key[n] \notin split' =>
           rule'[n] = rule[n] /\ KnownAs(member', n) = KnownAs(member, n),
         \A i \in Live(member) : Key[member[i].name] \notin split'
                                 \/ Key[member'[i].name] \notin split'
                                 => member'[i].name = member[i].name,
         \A i \in Live(member) : \A x \in member'[i].aliases :
           Key[x] \notin split' => x \in member[i].aliases
  PROVE  HousedInv'
<1>1. /\ InOrder(member, rule, split) /\ AllHoused(member, rule, Rows, split, split)
      /\ HoldersLive /\ (\A q \in Rows : q.id < nextId) /\ CanonKept /\ RosterKept
      /\ rule \in [Names -> Names \cup {NoName}]
  BY DEF HousedInv, RosterInv, TypeOK
<1>2. \A k : k \notin split' => (Ruled(rule', k) <=> Ruled(rule, k))
  BY DEF Ruled
<1>3. \A n : Key[n] \notin split' => (KeyedBy(member', n) <=> KeyedBy(member, n))
  BY DEF KeyedBy
<1>4. \A n \in Names : \A i \in KnownAs(member, n) : i \in Live(member)
  BY DEF KnownAs
<1>5. InOrder(member', rule', split')
  <2>1. OneKnown(member', split') /\ OneRule(rule', split')
    BY <1>1 DEF InOrder, OneKnown, OneRule
  <2>2. Unruled(member', rule', split')
    BY <1>1, <1>2 DEF InOrder, Unruled
  <2>3. AliasRuled(member', rule', split')
    BY <1>1, <1>2 DEF InOrder, AliasRuled
  <2>4. Leads(member', rule', split')
    <3> SUFFICES ASSUME NEW g \in Names, rule'[g] # NoName, Key[g] \notin split'
                 PROVE  /\ Key[rule'[g]] # Key[g]
                        /\ Key[rule'[g]] \notin split' =>
                             /\ KeyedBy(member', rule'[g]) \/ Ruled(rule', Key[rule'[g]])
                             /\ \A i \in KnownAs(member', g) :
                                  Key[member'[i].name] = Key[rule'[g]]
      BY DEF Leads
    <3>1. rule'[g] = rule[g] /\ rule[g] \in Names /\ KnownAs(member', g) = KnownAs(member, g)
      BY <1>1
    <3>2. /\ Key[rule[g]] # Key[g]
          /\ Key[rule[g]] \notin split =>
               /\ KeyedBy(member, rule[g]) \/ Ruled(rule, Key[rule[g]])
               /\ \A i \in KnownAs(member, g) : Key[member[i].name] = Key[rule[g]]
      BY <1>1, <3>1 DEF InOrder, Leads
    <3> QED
      BY <1>2, <1>3, <1>4, <3>1, <3>2
  <2> QED
    BY <2>1, <2>2, <2>3, <2>4 DEF InOrder
<1>6. Rows' = Rows /\ \A r \in Rows : r.name \in Names
  BY DEF Rows, Row
<1>7. AllHoused(member', rule', Rows', split', split')
  <2> SUFFICES ASSUME NEW r \in Rows, r.id \in Live(member), Key[r.name] \notin split'
               PROVE  Housed(member', rule', Rows, split', r)
    BY <1>6 DEF AllHoused
  <2>1. Housed(member, rule, Rows, split, r) /\ r.name \in Names
    BY <1>1, <1>6 DEF AllHoused
  <2>2. ASSUME NEW g \in Names, rule'[g] # NoName, Key[g] = Key[r.name],
               Key[rule'[g]] \notin split', NEW i \in KnownAs(member', rule'[g])
        PROVE  r.id = i
    <3>1. rule'[g] = rule[g] /\ rule[g] \in Names
      BY <1>1, <2>2
    <3>2. i \in KnownAs(member, rule[g])
      BY <2>2, <3>1
    <3> QED
      BY <2>1, <2>2, <3>1, <3>2 DEF Housed
  <2>3. \A i \in KnownAs(member', r.name) : r.id = i
    BY <2>1 DEF Housed
  <2>4. KeyedBy(member', r.name) \/ Ruled(rule', Key[r.name])
    BY <1>2, <1>3, <2>1 DEF Housed
  <2> QED
    BY <2>1, <2>2, <2>3, <2>4 DEF Housed
<1>8. CanonKept'
  BY <1>1 DEF CanonKept
<1>9. RosterKept'
  BY <1>1 DEF RosterKept
<1>10. HoldersLive' /\ \A q \in Rows' : q.id < nextId'
  BY <1>1, <1>6 DEF HoldersLive
<1> QED
  BY <1>5, <1>7, <1>8, <1>9, <1>10 DEF HousedInv

LEMMA HousedRuleDeleted ==
  ASSUME RosterInv, HousedInv, NEW f \in Names, DeleteMergeRule(f)
  PROVE  HousedInv'
<1>1. /\ rule' = [rule EXCEPT ![f] = NoName] /\ split' = split \cup {Key[f]}
      /\ UNCHANGED <<member, nextId, holds, run>>
      /\ rule \in [Names -> Names \cup {NoName}] /\ split \subseteq Names
  BY DEF DeleteMergeRule, RosterInv, TypeOK
<1>2. Key[f] \in Names /\ UniqueNames(member)
  BY RosterAssumption DEF HousedInv, InOrder
<1>3. \A n \in Names : Key[n] \notin split' => rule'[n] = rule[n]
  BY <1>1
<1>4. split' \subseteq Names /\ split \subseteq split'
  BY <1>1, <1>2
<1> QED
  BY <1>1, <1>2, <1>3, <1>4, Edited

\* A new name that nobody has leaves the names of the others apart.
LEMMA Renamed ==
  ASSUME NEW M \in [Ids -> Member], NEW N, UniqueNames(M), NEW i \in Live(M), NEW n \in Names,
         Named(M, n) = {}, N[i].name = n, \A j \in Ids \ {i} : N[j].name = M[j].name
  PROVE  UniqueNames(N) /\ Live(N) = Live(M)
<1>1. Live(N) = Live(M) /\ i \in Ids
  BY RosterAssumption DEF Live
<1>2. \A j \in Live(M) : M[j].name # n
  BY DEF Named, Live
<1> QED
  BY <1>1, <1>2 DEF UniqueNames, Live

LEMMA HousedEdit ==
  ASSUME RosterInv, HousedInv, NEW i \in Ids, NEW n \in Names,
         AddAlias(i, n) \/ RenameMember(i, n)
  PROVE  HousedInv'
<1>1. /\ UNCHANGED <<nextId, rule, holds, run>> /\ i \in Live(member)
      /\ member \in [Ids -> Member] /\ UniqueNames(member)
  BY DEF AddAlias, RenameMember, RosterInv, TypeOK, HousedInv, InOrder
<1>2. split' \subseteq Names /\ split \subseteq split'
  BY EditTyped DEF TypeOK
<1>3. member[i] \in Member
  BY <1>1
<1>4. CASE AddAlias(i, n)
  <2>1. member' = [member EXCEPT ![i].aliases = @ \cup {n}] /\ Key[n] \in split'
    BY <1>4 DEF AddAlias
  <2>2. /\ member'[i].aliases = member[i].aliases \cup {n}
        /\ \A j \in Ids : member'[j].name = member[j].name
        /\ \A j \in Ids \ {i} : member'[j] = member[j]
    BY <1>1, <1>3, <2>1 DEF Member
  <2>3. Live(member') = Live(member) /\ Live(member) \subseteq Ids
    BY <2>2 DEF Live
  <2>4. UniqueNames(member')
    BY <1>1, <2>2, <2>3 DEF UniqueNames
  <2>5. \A j \in Live(member) : \A x \in member'[j].aliases :
          x \in member[j].aliases \/ x = n
    BY <2>2, <2>3
  <2>6. \A j \in Live(member) : member[j].aliases \subseteq member'[j].aliases
    BY <2>2, <2>3
  <2>7. \A m \in Names : Key[m] \notin split' => KnownAs(member', m) = KnownAs(member, m)
    BY <2>1, <2>2, <2>3, <2>5, <2>6 DEF KnownAs
  <2>8. /\ \A j \in Live(member) : member'[j].name = member[j].name
        /\ \A j \in Live(member) : \A x \in member'[j].aliases :
             Key[x] \notin split' => x \in member[j].aliases
    BY <2>1, <2>2, <2>3, <2>5
  <2> QED
    BY <1>1, <1>2, <2>3, <2>4, <2>7, <2>8, Edited
<1>5. CASE RenameMember(i, n)
  <2>1. /\ member' = [member EXCEPT ![i].name = n] /\ Named(member, n) = {}
        /\ Key[n] \in split' /\ Key[member[i].name] \in split'
    BY <1>5 DEF RenameMember
  <2>2. /\ member'[i].name = n
        /\ \A j \in Ids : member'[j].aliases = member[j].aliases
        /\ \A j \in Ids \ {i} : member'[j] = member[j]
    BY <1>1, <1>3, <2>1 DEF Member
  <2>3. Live(member') = Live(member) /\ UniqueNames(member') /\ Live(member) \subseteq Ids
    <3>1. \A j \in Ids \ {i} : member'[j].name = member[j].name
      BY <2>2
    <3>2. UniqueNames(member') /\ Live(member') = Live(member)
      BY <1>1, <2>1, <2>2, <3>1, Renamed
    <3> QED
      BY <3>2 DEF Live
  <2>4. \A j \in Live(member) : \/ member'[j].name = member[j].name
                                \/ /\ Key[member[j].name] \in split'
                                   /\ Key[member'[j].name] \in split'
    BY <2>1, <2>2, <2>3
  <2>5. \A j \in Live(member) : member'[j].aliases = member[j].aliases
    BY <2>2, <2>3
  <2>6. \A m \in Names : Key[m] \notin split' => KnownAs(member', m) = KnownAs(member, m)
    BY <2>3, <2>4, <2>5 DEF KnownAs
  <2> QED
    BY <1>1, <1>2, <2>3, <2>4, <2>5, <2>6, Edited
<1> QED
  BY <1>4, <1>5

\* The rule of a merge is of the key of the name that is merged away; it is the only one
\* of the key if there was none.
LEMMA MergedRuleIs ==
  ASSUME TypeOK, NEW f \in Names, NEW t \in Names
  PROVE  /\ MergedRule(f, t) \in [Names -> Names \cup {NoName}]
         /\ \A g \in Names : Key[g] # Key[f] => MergedRule(f, t)[g] = rule[g]
         /\ Ruled(MergedRule(f, t), Key[f])
         /\ ~Ruled(rule, Key[f]) =>
              /\ MergedRule(f, t)[f] = t
              /\ \A g \in Names : g # f => MergedRule(f, t)[g] = rule[g]
<1> DEFINE covering == {g \in Names \ {f} : rule[g] # NoName /\ Key[g] = Key[f]}
           other    == CHOOSE g \in covering : TRUE
<1>1. rule \in [Names -> Names \cup {NoName}] /\ t # NoName
  BY RosterAssumption DEF TypeOK
<1>2. CASE covering = {}
  <2>1. MergedRule(f, t) = [rule EXCEPT ![f] = t]
    BY <1>2 DEF MergedRule
  <2> QED
    BY <1>1, <2>1 DEF Ruled
<1>3. CASE covering # {}
  <2>1. other \in covering
    BY <1>3
  <2>2. MergedRule(f, t) = [rule EXCEPT ![other] = t]
    BY <1>3 DEF MergedRule
  <2>3. other \in Names /\ Key[other] = Key[f] /\ rule[other] # NoName
    BY <2>1
  <2> HIDE DEF other
  <2>4. MergedRule(f, t)[other] = t
    BY <1>1, <2>2, <2>3
  <2> QED
    BY <1>1, <2>2, <2>3, <2>4 DEF Ruled
<1> QED
  BY <1>2, <1>3

\* A merge with a name that nobody had excuses both.
LEMMA HousedMergeApart ==
  ASSUME RosterInv, HousedInv, NEW f \in Names, NEW t \in Names, AddMergeRule(f, t),
         Named(member, f) = {} \/ Named(member, t) = {}
  PROVE  HousedInv'
<1> DEFINE from == First(Named(member, f))
           to   == First(Named(member, t))
<1>1. /\ TypeOK /\ f # t /\ UNCHANGED <<nextId, run>> /\ rule' = MergedRule(f, t)
      /\ member \in [Ids -> Member] /\ UniqueNames(member)
  BY DEF AddMergeRule, RosterInv, TypeOK, HousedInv, InOrder
<1>2. /\ from \in Named(member, f) \cup {0} /\ (from = 0 <=> Named(member, f) = {})
      /\ to \in Named(member, t) \cup {0} /\ (to = 0 <=> Named(member, t) = {})
  <2>1. Named(member, f) \in SUBSET Ids /\ Named(member, t) \in SUBSET Ids
    BY DEF Named, Live
  <2> QED
    BY <2>1, FirstIn
<1>3. /\ split' = split \cup {Key[f], Key[t]} /\ holds' = holds
      /\ member' = WithAlias(IF from = 0 THEN member ELSE [member EXCEPT ![from].name = t], f, t)
  BY <1>2 DEF AddMergeRule
<1> DEFINE M == IF from = 0 THEN member ELSE [member EXCEPT ![from].name = t]
<1> HIDE DEF from, to
<1>4. /\ M \in [Ids -> Member] /\ UniqueNames(M) /\ Live(M) = Live(member)
      /\ \A i \in Ids : M[i].aliases = member[i].aliases
      /\ \A i \in Ids : i # from => M[i] = member[i]
      /\ from # 0 => from \in Ids /\ member[from].name = f /\ M[from].name = t
  <2>1. CASE from = 0
    BY <1>1, <2>1
  <2>2. CASE from # 0
    <3>1. from \in Live(member) /\ from \in Ids /\ member[from].name = f
          /\ member[from] \in Member /\ Named(member, t) = {}
      BY <1>1, <1>2, <2>2, RosterAssumption DEF Named, Live
    <3>2. M = [member EXCEPT ![from].name = t]
      BY <2>2
    <3> HIDE DEF M
    <3>3. /\ M \in [Ids -> Member] /\ M[from].name = t
          /\ \A i \in Ids : M[i].aliases = member[i].aliases
          /\ \A i \in Ids : i # from => M[i] = member[i]
      BY <1>1, <3>1, <3>2 DEF Member
    <3>4. \A i \in Ids \ {from} : M[i].name = member[i].name
      BY <3>3
    <3>5. UniqueNames(M) /\ Live(M) = Live(member)
      BY <1>1, <3>1, <3>3, <3>4, Renamed
    <3> QED
      BY <3>1, <3>3, <3>5
  <2> QED
    BY <2>1, <2>2
<1> HIDE DEF M
<1>5. \A i \in Ids : /\ member'[i].name = M[i].name
                     /\ member'[i].aliases \in {M[i].aliases, M[i].aliases \cup {f}}
  <2>1. member' = WithAlias(M, f, t)
    BY <1>3 DEF M
  <2> SUFFICES ASSUME NEW i \in Ids
               PROVE  /\ member'[i].name = M[i].name
                      /\ member'[i].aliases \in {M[i].aliases, M[i].aliases \cup {f}}
    OBVIOUS
  <2>2. M[i] \in Member /\ member'[i] \in {M[i], [M[i] EXCEPT !.aliases = @ \cup {f}]}
    BY <1>4, <2>1 DEF WithAlias
  <2> QED
    BY <2>2 DEF Member
<1>6. Live(member') = Live(member) /\ UniqueNames(member') /\ Live(member) \subseteq Ids
  BY <1>4, <1>5 DEF Live, UniqueNames
<1>7. /\ \A i \in Live(member) : Key[member[i].name] \notin split'
                                 \/ Key[member'[i].name] \notin split'
                                 => member'[i].name = member[i].name
      /\ \A i \in Live(member) : \A x \in member'[i].aliases : x \in member[i].aliases \/ x = f
      /\ \A i \in Live(member) : member[i].aliases \subseteq member'[i].aliases
  <2>1. ASSUME NEW i \in Live(member)
        PROVE  \/ member'[i].name = member[i].name
               \/ Key[member[i].name] \in split' /\ Key[member'[i].name] \in split'
    <3>1. member'[i].name = M[i].name /\ i \in Ids
      BY <1>5, <1>6
    <3>2. i = from => from # 0 /\ member[i].name = f /\ M[i].name = t
      BY <1>4, <3>1, RosterAssumption DEF Ids
    <3> QED
      BY <1>3, <1>4, <3>1, <3>2
  <2>2. ASSUME NEW i \in Live(member)
        PROVE  /\ \A x \in member'[i].aliases : x \in member[i].aliases \/ x = f
               /\ member[i].aliases \subseteq member'[i].aliases
    BY <1>4, <1>5, <1>6
  <2> QED
    BY <2>1, <2>2
<1>8. \A n \in Names : Key[n] \notin split' =>
        rule'[n] = rule[n] /\ KnownAs(member', n) = KnownAs(member, n)
  <2> SUFFICES ASSUME NEW n \in Names, Key[n] \notin split'
               PROVE  rule'[n] = rule[n] /\ KnownAs(member', n) = KnownAs(member, n)
    OBVIOUS
  <2>1. rule'[n] = rule[n]
    BY <1>1, <1>3, MergedRuleIs
  <2>2. Key[f] # Key[n]
    BY <1>3
  <2>3. KnownAs(member', n) = KnownAs(member, n)
    BY <1>6, <1>7, <2>2 DEF KnownAs
  <2> QED
    BY <2>1, <2>3
<1>9. \A i \in Live(member) : \A x \in member'[i].aliases :
        Key[x] \notin split' => x \in member[i].aliases
  BY <1>3, <1>7
<1>10. split \subseteq split' /\ split' \subseteq Names
  BY <1>1, <1>3, RosterAssumption DEF TypeOK
<1>11. UNCHANGED <<nextId, holds, run>>
  BY <1>1, <1>3
<1> QED
  BY <1>6, <1>7, <1>8, <1>9, <1>10, <1>11, Edited

\* A merge of two members: the one called f goes, and leaves his name as an alias, his
\* rows, and a rule.
LEMMA HousedMergeBoth ==
  ASSUME RosterInv, HousedInv, NEW f \in Names, NEW t \in Names, AddMergeRule(f, t),
         Named(member, f) # {}, Named(member, t) # {}
  PROVE  HousedInv'
<1> DEFINE from == First(Named(member, f))
           to   == First(Named(member, t))
<1>1. /\ TypeOK /\ f # t /\ UNCHANGED <<nextId, run>> /\ rule' = MergedRule(f, t)
      /\ member \in [Ids -> Member] /\ rule \in [Names -> Names \cup {NoName}]
      /\ holds \in [Ids -> SUBSET Names]
  BY DEF AddMergeRule, RosterInv, TypeOK
<1>2. from \in Named(member, f) /\ to \in Named(member, t) /\ from # 0 /\ to # 0
  <2>1. Named(member, f) \in SUBSET Ids /\ Named(member, t) \in SUBSET Ids
    BY DEF Named, Live
  <2>2. 0 \notin Ids
    BY RosterAssumption DEF Ids
  <2> QED
    BY <2>1, <2>2, FirstIn
<1>3. /\ split' = split
      /\ member' = WithAlias([member EXCEPT ![from] = Gone], f, t)
      /\ holds' = [holds EXCEPT ![to] = @ \cup holds[from], ![from] = {}]
  BY <1>2 DEF AddMergeRule
<1> HIDE DEF from, to
<1>4. /\ from \in Live(member) /\ to \in Live(member) /\ from # to /\ from \in Ids /\ to \in Ids
      /\ member[from].name = f /\ member[to].name = t /\ f # NoName /\ t # NoName
      /\ Live(member) \subseteq Ids
  BY <1>1, <1>2, RosterAssumption DEF Named, Live
<1>5. /\ InOrder(member, rule, split) /\ AllHoused(member, rule, Rows, split, split)
      /\ HoldersLive /\ (\A q \in Rows : q.id < nextId) /\ CanonKept /\ RosterKept
      /\ UniqueNames(member) /\ OneKnown(member, split) /\ OneRule(rule, split)
      /\ Unruled(member, rule, split) /\ AliasRuled(member, rule, split)
      /\ Leads(member, rule, split)
  BY DEF HousedInv, InOrder
\* The members who are left are who they were, but for the alias.
<1>6. /\ member'[from].name = NoName
      /\ \A i \in Ids \ {from, to} : member'[i] = member[i]
      /\ member'[to].name = t /\ member'[to].aliases = member[to].aliases \cup {f}
  <2> DEFINE M == [member EXCEPT ![from] = Gone]
  <2>1. M[from] = Gone /\ \A i \in Ids \ {from} : M[i] = member[i]
    BY <1>1, <1>4
  <2> HIDE DEF M
  <2>2. Named(M, t) = {to}
    <3>1. \A i \in Ids \ {from} : member[i].name = t => i = to
      BY <1>4, <1>5 DEF UniqueNames, Live
    <3>2. M[from].name # t
      BY <1>4, <2>1, GoneTyped
    <3> QED
      BY <1>4, <2>1, <3>1, <3>2 DEF Named, Live
  <2>3. \A i \in Ids : member'[i] = IF i = to THEN [M[i] EXCEPT !.aliases = @ \cup {f}] ELSE M[i]
    BY <1>1, <1>3, <2>2 DEF WithAlias, M
  <2>4. member[to] \in Member
    BY <1>1, <1>4
  <2> QED
    BY <1>4, <2>1, <2>3, <2>4, GoneTyped DEF Member
<1>7. /\ Live(member') = Live(member) \ {from} /\ from \notin Live(member')
      /\ to \in Live(member')
      /\ \A i \in Live(member') : i \in Ids /\ member'[i].name = member[i].name
      /\ \A i \in Live(member') : \A x : x \in member'[i].aliases <=>
                                         x \in member[i].aliases \/ (i = to /\ x = f)
  BY <1>4, <1>6 DEF Live
\* Who is known by a name is known by it still; and the one who takes the rows is known by f.
<1>8. /\ \A n : KnownAs(member', n) = (KnownAs(member, n) \ {from})
                                      \cup {i \in {to} : Key[n] = Key[f]}
      /\ \A n : KeyedBy(member', n) => KeyedBy(member, n)
      /\ \A n : KeyedBy(member, n) /\ Key[n] # Key[f] => KeyedBy(member', n)
  <2>1. ASSUME NEW n
        PROVE  KnownAs(member', n) = (KnownAs(member, n) \ {from})
                                     \cup {i \in {to} : Key[n] = Key[f]}
    BY <1>7 DEF KnownAs
  <2>2. ASSUME NEW n
        PROVE  /\ KeyedBy(member', n) => KeyedBy(member, n)
               /\ KeyedBy(member, n) /\ Key[n] # Key[f] => KeyedBy(member', n)
    BY <1>4, <1>7 DEF KeyedBy
  <2> QED
    BY <2>1, <2>2
<1>9. \A n \in Names : Key[n] = Key[f] => from \in KnownAs(member, n)
  BY <1>4 DEF KnownAs
<1>10. Key[f] \notin split =>
         /\ \A n \in Names : Key[n] = Key[f] => KnownAs(member, n) = {from}
         /\ \A n \in Names : Key[n] = Key[f] => KnownAs(member', n) = {to}
         /\ Key[t] # Key[f] /\ ~Ruled(rule, Key[f])
  <2> SUFFICES ASSUME Key[f] \notin split
               PROVE  /\ \A n \in Names : Key[n] = Key[f] => KnownAs(member, n) = {from}
                      /\ \A n \in Names : Key[n] = Key[f] => KnownAs(member', n) = {to}
                      /\ Key[t] # Key[f] /\ ~Ruled(rule, Key[f])
    OBVIOUS
  <2>1. \A n \in Names : Key[n] = Key[f] => KnownAs(member, n) = {from}
    BY <1>5, <1>9 DEF OneKnown
  <2>2. \A n \in Names : Key[n] = Key[f] => KnownAs(member', n) = {to}
    BY <1>8, <2>1
  <2>3. Key[t] # Key[f]
    <3>1. to \in KnownAs(member, t)
      BY <1>4 DEF KnownAs
    <3> QED
      BY <1>4, <2>1, <3>1
  <2>4. ~Ruled(rule, Key[f])
    BY <1>4, <1>5 DEF Unruled
  <2> QED
    BY <2>1, <2>2, <2>3, <2>4
\* The rules
<1>11. /\ rule' \in [Names -> Names \cup {NoName}]
       /\ \A g \in Names : Key[g] # Key[f] => rule'[g] = rule[g]
       /\ Ruled(rule', Key[f])
       /\ \A k : Ruled(rule, k) => Ruled(rule', k)
       /\ \A k : k # Key[f] => (Ruled(rule', k) <=> Ruled(rule, k))
       /\ Key[f] \notin split => /\ rule'[f] = t
                                 /\ \A g \in Names : Key[g] = Key[f] /\ rule'[g] # NoName => g = f
                                 /\ \A g \in Names : g # f => rule'[g] = rule[g]
  <2>1. /\ rule' \in [Names -> Names \cup {NoName}]
        /\ \A g \in Names : Key[g] # Key[f] => rule'[g] = rule[g]
        /\ Ruled(rule', Key[f])
        /\ ~Ruled(rule, Key[f]) => /\ rule'[f] = t
                                   /\ \A g \in Names : g # f => rule'[g] = rule[g]
    BY <1>1, MergedRuleIs
  <2>2. \A k : k # Key[f] => (Ruled(rule', k) <=> Ruled(rule, k))
    BY <2>1 DEF Ruled
  <2>3. Key[f] \notin split => \A g \in Names : Key[g] = Key[f] /\ rule'[g] # NoName => g = f
    BY <1>10, <2>1 DEF Ruled
  <2> QED
    BY <1>10, <2>1, <2>2, <2>3
<1>12. OneKnown(member', split)
  <2> SUFFICES ASSUME NEW n \in Names, Key[n] \notin split
               PROVE  \A i, j \in KnownAs(member', n) : i = j
    BY DEF OneKnown
  <2>1. CASE Key[n] = Key[f]
    BY <1>10, <2>1
  <2>2. CASE Key[n] # Key[f]
    BY <1>5, <1>8, <2>2 DEF OneKnown
  <2> QED
    BY <2>1, <2>2
<1>13. InOrder(member', rule', split')
  <2>1. UniqueNames(member')
    BY <1>5, <1>7 DEF UniqueNames
  <2>2. OneRule(rule', split)
    <3> SUFFICES ASSUME NEW g \in Names, NEW h \in Names, rule'[g] # NoName,
                        rule'[h] # NoName, Key[g] = Key[h], Key[g] \notin split
                 PROVE  g = h
      BY DEF OneRule
    <3>1. CASE Key[g] = Key[f]
      BY <1>11, <3>1
    <3>2. CASE Key[g] # Key[f]
      BY <1>5, <1>11, <3>2 DEF OneRule
    <3> QED
      BY <3>1, <3>2
  <2>3. Unruled(member', rule', split)
    <3> SUFFICES ASSUME NEW i \in Live(member'), Key[member'[i].name] \notin split
                 PROVE  ~Ruled(rule', Key[member'[i].name])
      BY DEF Unruled
    <3>1. i \in Live(member) /\ i # from /\ member'[i].name = member[i].name
      BY <1>7
    <3>2. Key[member[i].name] # Key[f]
      <4>1. i \in KnownAs(member, member[i].name) /\ member[i].name \in Names
        BY <1>1, <3>1, LiveName DEF KnownAs, Live
      <4> QED
        BY <1>10, <3>1, <4>1
    <3> QED
      BY <1>5, <1>11, <3>1, <3>2 DEF Unruled
  <2>4. AliasRuled(member', rule', split)
    <3> SUFFICES ASSUME NEW i \in Live(member'), NEW x \in member'[i].aliases,
                        Key[x] \notin split
                 PROVE  Ruled(rule', Key[x])
      BY DEF AliasRuled
    <3>1. i \in Live(member) /\ (x \in member[i].aliases \/ x = f)
      BY <1>7
    <3> QED
      BY <1>5, <1>11, <3>1 DEF AliasRuled
  <2>5. Leads(member', rule', split)
    <3> SUFFICES ASSUME NEW g \in Names, rule'[g] # NoName, Key[g] \notin split
                 PROVE  /\ Key[rule'[g]] # Key[g]
                        /\ Key[rule'[g]] \notin split =>
                             /\ KeyedBy(member', rule'[g]) \/ Ruled(rule', Key[rule'[g]])
                             /\ \A i \in KnownAs(member', g) :
                                  Key[member'[i].name] = Key[rule'[g]]
      BY DEF Leads
    <3>1. CASE Key[g] = Key[f]
      <4>1. g = f /\ rule'[g] = t /\ KnownAs(member', g) = {to} /\ Key[t] # Key[f]
        BY <1>10, <1>11, <3>1
      <4>2. KeyedBy(member', t) /\ member'[to].name = t
        BY <1>6, <1>7 DEF KeyedBy
      <4> QED
        BY <4>1, <4>2
    <3>2. CASE Key[g] # Key[f]
      <4>1. rule'[g] = rule[g] /\ rule[g] \in Names
        BY <1>1, <1>11, <3>2
      <4>2. /\ Key[rule[g]] # Key[g]
            /\ Key[rule[g]] \notin split =>
                 /\ KeyedBy(member, rule[g]) \/ Ruled(rule, Key[rule[g]])
                 /\ \A i \in KnownAs(member, g) : Key[member[i].name] = Key[rule[g]]
        BY <1>5, <4>1 DEF Leads
      <4>3. \A i \in KnownAs(member', g) :
              i \in KnownAs(member, g) /\ member'[i].name = member[i].name
        BY <1>7, <1>8, <3>2 DEF KnownAs
      <4> QED
        BY <1>8, <1>11, <4>1, <4>2, <4>3
    <3> QED
      BY <3>1, <3>2
  <2> QED
    BY <1>3, <1>12, <2>1, <2>2, <2>3, <2>4, <2>5 DEF InOrder
\* A row that is left was a row before, of the member it is with or of the one who went.
<1>14. /\ \A i \in Ids : holds'[i] = IF i = from THEN {}
                                     ELSE IF i = to THEN holds[to] \cup holds[from] ELSE holds[i]
       /\ \A r \in Rows' : r.id \in Live(member') =>
            \E q \in Rows : /\ q.name = r.name /\ q.id \in Live(member)
                            /\ r.id = IF q.id = from THEN to ELSE q.id
  <2>1. \A i \in Ids : holds'[i] = IF i = from THEN {}
                                   ELSE IF i = to THEN holds[to] \cup holds[from] ELSE holds[i]
    BY <1>1, <1>3, <1>4
  <2>2. ASSUME NEW r \in Rows', r.id \in Live(member')
        PROVE  \E q \in Rows : /\ q.name = r.name /\ q.id \in Live(member)
                               /\ r.id = IF q.id = from THEN to ELSE q.id
    <3>1. r \in Row /\ r.id \in Ids /\ r.name \in Names /\ r.id \in Live(member) /\ r.id # from
      BY <1>7, <2>2 DEF Rows, Row
    <3>2. CASE r \in Rows
      BY <3>1, <3>2
    <3>3. CASE r \notin Rows
      <4>1. r.id = to /\ r.name \in holds[from]
        BY <1>1, <2>1, <3>1, <3>3 DEF Rows
      <4> DEFINE q == [name |-> r.name, id |-> from]
      <4>2. q \in Rows /\ q.name = r.name /\ q.id = from
        BY <1>4, <3>1, <4>1 DEF Rows, Row
      <4> QED
        BY <1>4, <4>1, <4>2
    <3> QED
      BY <3>2, <3>3
  <2> QED
    BY <2>1, <2>2
<1> DEFINE Moved(i) == IF i = from THEN to ELSE i
<1>15. AllHoused(member', rule', Rows', split', split')
  <2> SUFFICES ASSUME NEW r \in Rows', r.id \in Live(member'), Key[r.name] \notin split
               PROVE  Housed(member', rule', Rows', split, r)
    BY <1>3 DEF AllHoused
  <2>1. PICK q \in Rows : q.name = r.name /\ q.id \in Live(member) /\ r.id = Moved(q.id)
    BY <1>14
  <2>2. Housed(member, rule, Rows, split, q) /\ r.name \in Names
    BY <1>5, <2>1 DEF AllHoused, Rows, Row
  <2>3. ASSUME NEW n \in Names, Key[n] \notin split, \A i \in KnownAs(member, n) : q.id = i,
               NEW i \in KnownAs(member', n)
        PROVE  r.id = i
    <3>1. CASE Key[n] = Key[f]
      BY <1>9, <1>10, <2>1, <2>3, <3>1
    <3>2. CASE Key[n] # Key[f]
      BY <1>8, <2>1, <2>3, <3>2
    <3> QED
      BY <3>1, <3>2
  <2>4. \A i \in KnownAs(member', r.name) : r.id = i
    BY <2>1, <2>2, <2>3 DEF Housed
  <2>5. ASSUME NEW g \in Names, rule'[g] # NoName, Key[g] = Key[r.name],
               Key[rule'[g]] \notin split, NEW i \in KnownAs(member', rule'[g])
        PROVE  r.id = i
    <3>1. CASE Key[g] = Key[f]
      <4>1. rule'[g] = t /\ Key[r.name] = Key[f] /\ Key[f] \notin split
        BY <1>11, <2>5, <3>1
      <4>2. r.id = to
        BY <1>9, <2>1, <2>2, <4>1 DEF Housed
      <4>3. to \in KnownAs(member', t)
        BY <1>6, <1>7 DEF KnownAs
      <4> QED
        BY <1>12, <2>5, <4>1, <4>2, <4>3 DEF OneKnown
    <3>2. CASE Key[g] # Key[f]
      <4>1. rule'[g] = rule[g] /\ rule[g] \in Names
        BY <1>1, <1>11, <2>5, <3>2
      <4>2. \A j \in KnownAs(member, rule[g]) : q.id = j
        BY <2>1, <2>2, <2>5, <4>1 DEF Housed
      <4> QED
        BY <2>3, <2>5, <4>1, <4>2
    <3> QED
      BY <3>1, <3>2
  <2>6. KeyedBy(member', r.name) \/ Ruled(rule', Key[r.name])
    BY <1>8, <1>11, <2>1, <2>2 DEF Housed
  <2>7. ASSUME NEW p \in Rows', p.id \in Live(member'), Key[p.name] = Key[r.name]
        PROVE  p.id = r.id
    <3>1. PICK o \in Rows : o.name = p.name /\ o.id \in Live(member) /\ p.id = Moved(o.id)
      BY <1>14, <2>7
    <3>2. o.id = q.id
      BY <2>1, <2>2, <2>7, <3>1 DEF Housed
    <3> QED
      BY <2>1, <3>1, <3>2
  <2> HIDE DEF Moved
  <2> QED
    BY <2>4, <2>5, <2>6, <2>7 DEF Housed
<1>16. CanonKept'
  <2> SUFFICES ASSUME NEW x \in Names, Key[x] \notin split, Key[run.canon[x]] # Key[x]
               PROVE  \E g \in Names : Key[g] = Key[x] /\ rule'[g] = run.canon[x]
    BY <1>1, <1>3 DEF CanonKept
  <2>1. PICK g \in Names : Key[g] = Key[x] /\ rule[g] = run.canon[x]
    BY <1>5 DEF CanonKept
  <2>2. rule[g] # NoName
    BY <1>1, <2>1, RunFields, RosterAssumption
  <2>3. Key[g] # Key[f]
    BY <1>10, <2>1, <2>2 DEF Ruled
  <2> QED
    BY <1>11, <2>1, <2>3
<1>17. RosterKept'
  BY <1>1, <1>3, <1>5, <1>7, <1>8 DEF RosterKept
<1>18. HoldersLive'
  BY <1>4, <1>5, <1>7, <1>14 DEF HoldersLive
<1>19. \A q \in Rows' : q.id < nextId'
  <2> SUFFICES ASSUME NEW q \in Rows' PROVE q.id < nextId
    BY <1>1
  <2>1. to < nextId
    BY <1>4, GoneTyped, RosterAssumption DEF RosterInv, TypeOK, Fresh, Live, Ids
  <2>2. q \in Rows \/ q.id = to
    BY <1>1, <1>14 DEF Rows, Row
  <2> QED
    BY <1>5, <2>1, <2>2
<1> QED
  BY <1>13, <1>15, <1>16, <1>17, <1>18, <1>19 DEF HousedInv

LEMMA InitHoused == Init => HousedInv
<1> SUFFICES ASSUME Init PROVE HousedInv
  OBVIOUS
<1>1. /\ Live(member) = {} /\ \A i \in Ids : holds[i] = {}
      /\ \A n \in Names : rule[n] = NoName
  BY GoneTyped DEF Init, Live
<1>2. run = NoRun /\ run.pc = "idle"
  BY DEF Init, NoRun
<1>3. Rows = {}
  BY <1>1, <1>2 DEF Rows, Row
<1>4. /\ \A n : KnownAs(member, n) = {}
      /\ \A k : ~Ruled(rule, k)
  BY <1>1 DEF KnownAs, Ruled
<1>5. InOrder(member, rule, split)
  <2>1. UniqueNames(member) /\ OneKnown(member, split) /\ OneRule(rule, split)
    BY <1>1, <1>4 DEF UniqueNames, OneKnown, OneRule
  <2>2. Unruled(member, rule, split) /\ AliasRuled(member, rule, split)
    BY <1>1 DEF Unruled, AliasRuled
  <2>3. Leads(member, rule, split)
    BY <1>1 DEF Leads
  <2> QED
    BY <2>1, <2>2, <2>3 DEF InOrder
<1>6. CanonKept
  BY <1>2 DEF CanonKept, NoRun
<1>7. RosterKept
  <2>1. Live(run.roster) = {}
    BY <1>2, GoneTyped DEF NoRun, Live
  <2> QED
    BY <2>1 DEF RosterKept, KnownAs
<1> QED
  BY <1>1, <1>3, <1>5, <1>6, <1>7 DEF HousedInv, AllHoused, HoldersLive

LEMMA StepHoused ==
  ASSUME RosterInv, HousedInv, [Next]_vars
  PROVE  HousedInv'
<1>1. CASE ScanBegins \/ MightBegins \/ ResourcesBegin
  BY <1>1, HousedBegins
<1>2. CASE CropSaved
  BY <1>2, HousedCropSaved
<1>3. CASE ScanEnds \/ RunFails
  BY <1>3, HousedEnds
<1>4. CASE MightEnds
  BY <1>4, HousedMight
<1>5. CASE ResourcesEnd
  BY <1>5, HousedResources
<1>6. CASE \E n \in Names : ReadCard(n) \/ CaptureMember(n) \/ DeleteMergeRule(n) \/ Reassign(n)
  BY <1>6, HousedCard, HousedCapture, HousedRuleDeleted, HousedReassign
<1>7. CASE \E f, t \in Names : AddMergeRule(f, t)
  BY <1>7, HousedMergeApart, HousedMergeBoth
<1>8. CASE (\E S \in SUBSET Ids : Deactivate(S)) \/ \E i \in Ids : RestoreMember(i)
  BY <1>8, HousedMarks
<1>9. CASE \E i \in Ids, n \in Names : RenameMember(i, n) \/ AddAlias(i, n)
  BY <1>9, HousedEdit
<1>10. CASE UNCHANGED vars
  <2>1. /\ InOrder(member, rule, split)' /\ AllHoused(member, rule, Rows, split, split)'
        /\ CanonKept' /\ RosterKept' /\ HoldersLive' /\ Rows' = Rows
    BY <1>10 DEF vars, HousedInv, CanonKept, RosterKept, HoldersLive, Rows
  <2> QED
    BY <1>10, <2>1 DEF vars, HousedInv
<1> QED
  BY <1>1, <1>2, <1>3, <1>4, <1>5, <1>6, <1>7, <1>8, <1>9, <1>10 DEF Next

\* Two holders of one name are one.
LEMMA HousedNotSplit ==
  ASSUME RosterInv, HousedInv
  PROVE  NotSplit
<1> SUFFICES ASSUME NEW k \in Names, k \notin split PROVE Cardinality(HoldersOf(k)) <= 1
  BY DEF NotSplit
<1>1. holds \in [Ids -> SUBSET Names]
  BY DEF RosterInv, TypeOK
<1>2. ASSUME NEW i \in HoldersOf(k), NEW j \in HoldersOf(k)
      PROVE  i = j
  <2>1. PICK m \in holds[i] : Key[m] = k
    BY <1>2 DEF HoldersOf
  <2>2. PICK n \in holds[j] : Key[n] = k
    BY <1>2 DEF HoldersOf
  <2> DEFINE p == [name |-> m, id |-> i]
             q == [name |-> n, id |-> j]
  <2>3. /\ i \in Ids /\ j \in Ids /\ m \in Names /\ n \in Names
        /\ i \in Live(member) /\ j \in Live(member)
    BY <1>1, <1>2, <2>1, <2>2 DEF HoldersOf, HousedInv, HoldersLive
  <2>4. p \in Rows /\ q \in Rows
    BY <2>1, <2>2, <2>3 DEF Rows, Row
  <2>5. Housed(member, rule, Rows, split, p)
    BY <2>1, <2>3, <2>4 DEF HousedInv, AllHoused
  <2> QED
    BY <2>1, <2>2, <2>3, <2>4, <2>5 DEF Housed
<1>3. CASE HoldersOf(k) = {}
  BY <1>3, FS_EmptySet
<1>4. CASE HoldersOf(k) # {}
  <2>1. PICK i \in HoldersOf(k) : TRUE
    BY <1>4
  <2>2. HoldersOf(k) = {i}
    BY <1>2, <2>1
  <2> QED
    BY <2>2, FS_Singleton
<1> QED
  BY <1>3, <1>4

\* The rows of one player stay with one member, whatever is read, merged, renamed, removed
\* or restored beside it, and however old the copies are that an activity works from: the
\* matchers and upsertMember lead every spelling to whoever is known by it or by the
\* result of its rule, and addMergeRule moves both at once.
THEOREM RowsStayTogether == Spec => []NotSplit
<1>1. RosterInv /\ HousedInv /\ [Next]_vars => (RosterInv /\ HousedInv)'
  BY StepInv, StepHoused
<1>2. Init => RosterInv /\ HousedInv
  BY InitInv, InitHoused
<1>3. RosterInv /\ HousedInv => NotSplit
  BY HousedNotSplit
<1> QED
  BY <1>1, <1>2, <1>3, PTL DEF Spec

-----------------------------------------------------------------------------
(* Exact matches.                                                           *)

\* j alone is known by n in the roster M, and is called so.
OwnedBy(M, n, j) == KnownAs(M, n) = {j} /\ Key[M[j].name] = Key[n]

Owned(n, j) == Unclaimed(n) /\ \A M \in {run.roster, member} : OwnedBy(M, n, j)

LEMMA RecognisedOwner ==
  ASSUME RosterInv, NEW n \in Names, NEW c \in Names, Key[c] = Key[n], NEW j,
         OwnedBy(member, n, j), Room(TheRoster, c)
  PROVE  UpsertMember(TheRoster, c).id = j
<1>1. /\ TheRoster \in RosterState /\ TheRoster.m = member /\ Fresh(member, nextId)
      /\ TheRoster.next = nextId /\ member \in [Ids -> Member]
  BY TheRosterTyped DEF RosterInv, TypeOK
<1>2. KnownAs(member, c) = {j} /\ j \in Live(member)
  BY DEF OwnedBy, KnownAs
<1>3. KeyedBy(member, c)
  BY <1>2 DEF OwnedBy, KeyedBy
<1>4. Recognised(member, c) = j /\ j # 0
  <2>1. j # 0
    BY <1>2, RosterAssumption DEF Live, Ids
  <2> QED
    BY <1>1, <1>2, <1>3, <2>1, RecognisedKnown
<1> QED
  BY <1>1, <1>4, UpsertCases

\* The scan knows all members, also those who were removed.
LEMMA MatchOwner ==
  ASSUME TypeOK, NEW n \in Names, NEW j, OwnedBy(run.roster, n, j),
         NEW matched \in MatchKnownPlayer(n)
  PROVE  Key[matched] = Key[n]
<1> DEFINE name == run.roster[j].name
<1>1. j \in Live(run.roster) /\ Key[name] = Key[n] /\ run.roster[j] \in Member
  BY RunFields DEF OwnedBy, KnownAs, Live
<1>2. name \in NamesOf(TRUE) \/ name \in NamesOf(FALSE)
  BY <1>1 DEF NamesOf, Member
<1> DEFINE same == {k \in Names : Key[k] = Key[n]}
<1>3. name \in Names
  BY <1>1, RosterAssumption DEF Member, Live
<1>4. ExactTier(same) # {}
  BY <1>1, <1>2, <1>3 DEF ExactTier, KnownNames
<1>5. matched \in ExactTier(same)
  BY <1>4 DEF MatchKnownPlayer
<1> QED
  BY <1>5 DEF ExactTier

LEMMA CardExact ==
  ASSUME RosterInv, NEW n \in Names, ReadCard(n), NEW i \in Ids, NEW j \in Ids,
         NEW x \in Given(i), Owned(x, j)
  PROVE  i = j
<1>1. PICK matched \in MatchKnownPlayer(n) :
        LET corrected == run.canon[matched]
            s == UpsertMember(TheRoster, corrected)
        IN  /\ Room(TheRoster, corrected)
            /\ \/ FileRow(n, s.id) /\ run' = [run EXCEPT !.left = @ - 1]
               \/ /\ run' = [run EXCEPT !.pc = "saving", !.left = @ - 1, !.name = n,
                                        !.id = s.id, !.pushed = @ \cup {corrected}]
                  /\ UNCHANGED holds
  BY DEF ReadCard
<1> DEFINE c == run.canon[matched]
           u == UpsertMember(TheRoster, c)
<1>2. /\ TypeOK /\ run.pc = "scan" /\ Room(TheRoster, c)
      /\ \/ FileRow(n, u.id) /\ run' = [run EXCEPT !.left = @ - 1]
         \/ /\ run' = [run EXCEPT !.pc = "saving", !.left = @ - 1, !.name = n,
                                  !.id = u.id, !.pushed = @ \cup {c}]
            /\ UNCHANGED holds
  BY <1>1 DEF ReadCard, RosterInv
<1> HIDE DEF u, c
<1>3. x = n /\ i = u.id
  <2>1. CASE FileRow(n, u.id) /\ run' = [run EXCEPT !.left = @ - 1]
    <3>1. run'.pc = "scan"
      BY <1>2, <2>1 DEF TypeOK, RunRecord
    <3>2. x \in holds'[i] \ holds[i]
      BY <1>2, <3>1 DEF Given
    <3> QED
      BY <1>2, <2>1, <3>2 DEF FileRow, TypeOK
  <2>2. CASE /\ run' = [run EXCEPT !.pc = "saving", !.left = @ - 1, !.name = n,
                                   !.id = u.id, !.pushed = @ \cup {c}]
             /\ UNCHANGED holds
    <3>1. run'.pc = "saving" /\ run'.name = n /\ run'.id = u.id
      BY <1>2, <2>2 DEF TypeOK, RunRecord
    <3> QED
      BY <1>2, <3>1 DEF Given
  <2> QED
    BY <1>2, <2>1, <2>2
<1>4. matched \in Names /\ Key[matched] = Key[n]
  BY <1>2, <1>3, MatchTyped, MatchOwner DEF Owned
<1>5. c \in Names /\ Key[c] = Key[n]
  BY <1>2, <1>3, <1>4, RunFields DEF Owned, Unclaimed, c
<1>6. u.id = j
  BY <1>2, <1>3, <1>5, RecognisedOwner DEF Owned, u
<1> QED
  BY <1>3, <1>6

\* What is stored comes from a row of the list.
LEMMA StoredRow ==
  ASSUME NEW s, NEW M, StoreRows(s, M), NEW i \in Ids, NEW x \in Given(i)
  PROVE  \E q \in s.rows : q.id = i /\ q.name = x
<1>1. run'.pc = "idle"
  BY DEF StoreRows, NoRun
<1>2. x \in holds'[i] \ holds[i]
  BY <1>1 DEF Given
<1> QED
  BY <1>2 DEF StoreRows

LEMMA MightRowExact ==
  ASSUME RosterInv, NEW s \in MightState, NEW n \in Names,
         NEW q \in TakeMightRow(s, n).rows, q \notin s.rows, NEW j \in Ids, Owned(q.name, j)
  PROVE  q.id = j
<1> DEFINE hit == ResolveMember(n)
           c == run.canon[n]
           other == hit.id # 0 /\ ~hit.exact /\ hit.id \in s.seen
           up == IF hit.id = 0 \/ other THEN UpsertMember(s.r, c)
                 ELSE [s.r EXCEPT !.id = hit.id]
<1>1. q.name = n /\ q.id = up.id
  <2>1. \/ TakeMightRow(s, n).rows = s.rows
        \/ TakeMightRow(s, n).rows = s.rows \cup {[name |-> n, id |-> up.id]}
    <3> DEFINE z == TakeMightRow(s, n)
    <3>1. z = [s EXCEPT !.r = up] \/ z.rows = s.rows \cup {[name |-> n, id |-> up.id]}
      BY DEF TakeMightRow
    <3> HIDE DEF up, z
    <3>2. CASE z = [s EXCEPT !.r = up]
      BY <3>2 DEF MightState, z
    <3> QED
      BY <3>1, <3>2 DEF z
  <2> HIDE DEF up
  <2> QED
    BY <2>1
<1>2. TypeOK /\ c \in Names /\ Key[c] = Key[n]
  BY <1>1, RunFields DEF RosterInv, Owned, Unclaimed
<1>3. KnownAs(run.roster, c) = {j}
  BY <1>1, <1>2 DEF Owned, OwnedBy, KnownAs
<1>4. hit.exact /\ hit.id = j /\ hit.id # 0
  BY <1>2, <1>3, ResolveKnown
<1> HIDE DEF hit
<1>5. up = [s.r EXCEPT !.id = hit.id]
  BY <1>4
<1> HIDE DEF up
<1>6. up.id = hit.id
  BY <1>5 DEF MightState, RosterState
<1> QED
  BY <1>1, <1>4, <1>6

LEMMA MightExact ==
  ASSUME RosterInv, MightEnds, NEW i \in Ids, NEW j \in Ids, NEW x \in Given(i), Owned(x, j)
  PROVE  i = j
<1>1. PICK list \in Lists : /\ nextId + Len(list) <= MaxMembers + 1
                            /\ \E M : StoreRows(TakeMightRows(list), M)
  BY DEF MightEnds
<1>2. PICK q \in TakeMightRows(list).rows : q.id = i /\ q.name = x
  BY <1>1, StoredRow
<1>3. PICK y \in Names, z \in Names : list = <<y>> \/ list = <<y, z>>
  BY DEF Lists
<1> DEFINE first == TakeMightRow(Untaken, y)
<1>4. Untaken \in MightState /\ Untaken.rows = {} /\ Untaken.r.next \in Ids
  <2>1. nextId \in 1..(MaxMembers + 1) /\ MaxMembers \in Nat
    BY RosterAssumption DEF RosterInv, TypeOK
  <2>2. Len(list) \in {1, 2}
    BY <1>3
  <2>3. nextId \in Ids
    <3> DEFINE len == Len(list)
    <3>1. nextId + len <= MaxMembers + 1 /\ len \in {1, 2}
      BY <1>1, <2>2
    <3> HIDE DEF len
    <3> QED
      BY <2>1, <3>1 DEF Ids
  <2> QED
    BY <2>3, UntakenTyped DEF Untaken
<1>5. first \in MightState
  BY <1>4, UntakenTyped, TakeMightTyped DEF RosterInv
<1>6. TakeMightRows(list) \in {first, TakeMightRow(first, z)}
  BY <1>3 DEF TakeMightRows
<1> HIDE DEF first
<1>7. CASE q \in first.rows
  BY <1>2, <1>4, <1>7, MightRowExact DEF first
<1>8. CASE q \notin first.rows
  BY <1>2, <1>5, <1>6, <1>8, MightRowExact
<1> QED
  BY <1>7, <1>8

LEMMA ResourcesExact ==
  ASSUME RosterInv, ResourcesEnd, NEW i \in Ids, NEW j \in Ids, NEW x \in Given(i), Owned(x, j)
  PROVE  i = j
<1>0. PICK n \in Names : \E name \in ApplyMergeRules(n) :
        /\ Room(TheRoster, name)
        /\ StoreRows(TakeResourceRow(name, Untaken, n), TakeResourceRow(name, Untaken, n).r.m)
  BY DEF ResourcesEnd
<1>1. PICK c \in ApplyMergeRules(n) :
        /\ Room(TheRoster, c)
        /\ StoreRows(TakeResourceRow(c, Untaken, n), TakeResourceRow(c, Untaken, n).r.m)
  BY <1>0
<1> DEFINE hit == FuzzyMatchMember(run.roster, n)
           up == IF c # n \/ hit = 0 THEN UpsertMember(TheRoster, c)
                 ELSE [TheRoster EXCEPT !.id = hit]
           z == TakeResourceRow(c, Untaken, n)
<1>2. z.rows = {[name |-> n, id |-> up.id]}
  BY DEF TakeResourceRow, Untaken
<1>3. PICK q \in z.rows : q.id = i /\ q.name = x
  BY <1>1, StoredRow
<1> HIDE DEF z
<1>4. i = up.id /\ x = n
  <2> HIDE DEF up
  <2> QED
    BY <1>2, <1>3
<1>5. /\ TypeOK /\ TheRoster \in RosterState /\ c \in Names /\ Key[c] = Key[n]
      /\ KnownAs(run.roster, n) = {j} /\ OwnedBy(member, n, j)
  BY <1>4, TheRosterTyped, AppliedTyped DEF RosterInv, Owned, Unclaimed, OwnedBy
<1>6. hit = j
  <2>1. run.roster \in [Ids -> Member] /\ Live(run.roster) \in SUBSET Live(run.roster)
    BY <1>5, RunFields
  <2>2. KnownAs(run.roster, n) \cap Live(run.roster) = {j} /\ j # 0
    BY <1>5, RosterAssumption DEF KnownAs, Live, Ids
  <2>3. ExactMatchMember(run.roster, Live(run.roster), n) = j
    BY <2>1, <2>2, ExactKnown
  <2> QED
    BY <2>2, <2>3 DEF FuzzyMatchMember
<1> HIDE DEF hit
<1>7. CASE c # n \/ hit = 0
  <2>1. up = UpsertMember(TheRoster, c)
    BY <1>7
  <2> HIDE DEF up
  <2> QED
    BY <1>1, <1>4, <1>5, <2>1, RecognisedOwner
<1>8. CASE ~(c # n \/ hit = 0)
  <2>1. up = [TheRoster EXCEPT !.id = hit]
    BY <1>8
  <2> HIDE DEF up
  <2>2. up.id = hit
    BY <1>5, <2>1 DEF RosterState
  <2> QED
    BY <1>4, <1>6, <2>2
<1> QED
  BY <1>7, <1>8

\* Only these three activities give a row to anybody.
LEMMA NothingGiven ==
  ASSUME [Next]_vars, ~(\E n \in Names : ReadCard(n)), ~MightEnds, ~ResourcesEnd
  PROVE  \A i \in Ids : Given(i) = {}
<1>1. CASE run' = run
  BY <1>1 DEF Given
<1>2. CASE run.pc = "saving"
  BY <1>2 DEF Given
<1>3. CASE run' # run /\ run.pc # "saving"
  <2>1. ScanBegins \/ MightBegins \/ ResourcesBegin \/ ScanEnds \/ RunFails
    BY <1>3 DEF Next, vars, CropSaved, CaptureMember, DeleteMergeRule, Reassign, AddMergeRule,
       RestoreMember, RenameMember, AddAlias, Deactivate
  <2>2. holds' = holds
    BY <2>1 DEF ScanBegins, MightBegins, ResourcesBegin, ScanEnds, RunFails
  <2>4. run'.pc # "saving"
    <3>1. CASE ScanEnds \/ RunFails
      BY <3>1 DEF ScanEnds, RunFails, NoRun
    <3>2. CASE ScanBegins \/ MightBegins \/ ResourcesBegin
      <4>1. PICK pc \in {"scan", "might", "resources"} : \E canon : Begin(pc, canon)
        BY <3>2 DEF ScanBegins, MightBegins, ResourcesBegin
      <4>2. run'.pc = pc
        BY <4>1 DEF Begin, NoRun
      <4> QED
        BY <4>2
    <3> QED
      BY <2>1, <3>1, <3>2
  <2> QED
    BY <1>3, <2>2, <2>4 DEF Given
<1> QED
  BY <1>1, <1>2, <1>3

LEMMA StepExact ==
  ASSUME RosterInv, [Next]_vars, NEW i \in Ids, NEW j \in Ids, NEW x \in Given(i), Owned(x, j)
  PROVE  i = j
BY CardExact, MightExact, ResourcesExact, NothingGiven

\* A name that its owner spells so but for spacing is never given to a neighbour, also
\* while the owner is removed or the activity works from old copies: each of the three
\* matchers looks for an exact match among all members before it considers distance.
THEOREM OwnersKeepTheirRows == Spec => ExactWins
<1>1. RosterInv /\ [Next]_vars =>
        [\A i, j \in Ids : \A n \in Given(i) :
           /\ Unclaimed(n)
           /\ \A M \in {run.roster, member} : KnownAs(M, n) = {j} /\ Key[M[j].name] = Key[n]
           => i = j]_vars
  BY StepExact DEF Owned, OwnedBy
<1> QED
  BY InitInv, StepInv, <1>1, PTL DEF Spec, ExactWins
=============================================================================
