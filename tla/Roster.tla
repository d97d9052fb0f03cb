------------------------------- MODULE Roster -------------------------------
(***************************************************************************)
(* Who a name read off the screen belongs to (member-repo.ts,              *)
(* merge-repo.ts, fuzzy.ts, matchKnownPlayer).  The same player is read in *)
(* several spellings, and three activities turn readings into rows of a    *)
(* member: the gift scan, the daily might capture, and the reading of      *)
(* resources; a fourth, the member capture, only fills the roster.  They   *)
(* work from a copy of the roster and of the merge rules taken when they   *)
(* begin, while admins merge, rename and remove members and the inactivity *)
(* sweep retires them.                                                     *)
(*                                                                         *)
(* One clan.  A name stands for a spelling up to case.  Key drops spaces   *)
(* and punctuation, for members and rules alike; Near says which readings  *)
(* are within the edit budget of which names.  A rule that also catches    *)
(* longer names, tags in front of a name, and the [Unknown] member are     *)
(* left out.                                                               *)
(***************************************************************************)
EXTENDS Naturals, FiniteSets, Sequences

CONSTANTS
  Names, NoName,
  Key,          \* [Names -> Names]: despace, one name standing for each key
  Order,        \* [Names -> Nat]: alphabetical
  Confused,     \* pairs that ocrNormalize makes equal: digits read for letters
  Near,         \* pairs of names of different keys that distance takes for one
  Distance,     \* [Names \X Names -> Nat]: edits between two keys
  MaxMembers,   \* bound: members ever created
  MaxReadings,  \* bound: cards of one scan
  MaxEvents     \* bound: what admins and the inactivity sweep do

Ids == 1..MaxMembers

ASSUME RosterAssumption ==
  /\ NoName \notin Names
  /\ Key \in [Names -> Names] /\ \A n \in Names : Key[Key[n]] = Key[n]
  /\ Order \in [Names -> Nat] /\ \A x, y \in Names : Order[x] = Order[y] => x = y
  /\ Near \subseteq Names \X Names
  /\ \A p \in Near : Key[p[1]] # Key[p[2]]
  /\ Confused \subseteq Names \X Names
  /\ Distance \in [Names \X Names -> Nat]
  /\ MaxMembers \in Nat /\ MaxReadings \in Nat /\ MaxEvents \in Nat

VARIABLES
  member,   \* members: [name, aliases, active], or Gone
  nextId,   \* the next id, never used again
  rule,     \* merge_rules of type player: [Names -> Names or NoName]
  holds,    \* the readings of the rows that point at a member
  run,      \* the activity under way, with what it copied
  split,    \* auxiliary: keys excused from having one member, see NotSplit
  orphaned, \* auxiliary: aliases that went with their member
  events    \* bounded events left

vars == <<member, nextId, rule, holds, run, split, orphaned, events>>

Gone  == [name |-> NoName, aliases |-> {}, active |-> FALSE]
NoRun == [pc |-> "idle", roster |-> [i \in Ids |-> Gone], canon |-> [n \in Names |-> n],
          pushed |-> {}, left |-> 0, id |-> 0, name |-> NoName]

Event == events > 0 /\ events' = events - 1

-----------------------------------------------------------------------------
(* The roster.                                                             *)

Live(M)    == {i \in Ids : M[i].name # NoName}
Named(M, n) == {i \in Ids : M[i].name = n}
Keyed(M, n) == {i \in Ids : M[i].name # NoName /\ Key[M[i].name] = Key[n]}
First(S)   == IF S = {} THEN 0 ELSE CHOOSE i \in S : \A j \in S : i <= j

\* findByDespacedKey: an active member before a removed one, then the oldest.
FindByDespacedKey(M, n) ==
  LET keyed  == Keyed(M, n)
      active == {i \in keyed : M[i].active}
  IN  First(IF active # {} THEN active ELSE keyed)

\* Fault: another spacing of a name is another player.
RecognisedBySpelling(M, n) ==
  IF Named(M, n) # {} THEN First(Named(M, n))
  ELSE First({i \in Live(M) : n \in M[i].aliases})

\* The member that upsertMember recognises in n, 0 if there is none: by name,
\* by key, and by an alias that is spelled alike.
Recognised(M, n) ==
  LET named == Named(M, n)
  IN  IF named # {} THEN First(named)
      ELSE IF Keyed(M, n) # {} THEN FindByDespacedKey(M, n)
      ELSE First({i \in Live(M) : n \in M[i].aliases})

\* Fault: a new member is inserted twice, and the first row is lost.
UpsertMemberTwice(s, n) ==
  LET i == Recognised(s.m, n)
  IN  IF i # 0
        THEN [s EXCEPT !.m[i].active = TRUE, !.id = i]
        ELSE [s EXCEPT !.m[s.next] = [name |-> n, aliases |-> {}, active |-> TRUE],
                       !.next = @ + 2, !.id = s.next]

\* upsertMember, on a roster s = [m, next, id]; id is the member it returns.
UpsertMember(s, n) ==
  LET i == Recognised(s.m, n)
  IN  IF i # 0
        THEN [s EXCEPT !.m[i].active = TRUE, !.id = i]
        ELSE [s EXCEPT !.m[s.next] = [name |-> n, aliases |-> {}, active |-> TRUE],
                       !.next = @ + 1, !.id = s.next]

TheRoster == [m |-> member, next |-> nextId, id |-> 0]

\* Bound: a name finds a member, or room for a new one.
Room(s, n) == Recognised(s.m, n) # 0 \/ s.next \in Ids

-----------------------------------------------------------------------------
(* Merge rules.                                                            *)

\* applyMergeRulesCached: the results it may return, by the order in which the
\* database lists the rules.
ApplyMergeRules(n) ==
  IF rule[n] # NoName THEN {rule[n]}
  ELSE LET hits == {rule[f] : f \in {g \in Names : /\ rule[g] # NoName
                                                   /\ \/ Key[g] = Key[n]
                                                      \/ Key[rule[g]] = Key[n]}}
       IN  IF hits = {} THEN {n} ELSE hits

\* loadMergeRules, loadPlayerNameCanonicaliser: what a cache makes of each name.
LoadMergeRules ==
  LET results == [n \in Names |-> ApplyMergeRules(n)]
  IN  {f \in [Names -> Names] : \A n \in Names : f[n] \in results[n]}

\* The keys of names that are members of N only although a rule gives them to
\* another: a rule is applied once, and the alias that would have led on is gone.
Revived(N) ==
  {Key[N[i].name] : i \in {j \in Live(N) \ Live(member) :
                             ApplyMergeRules(N[j].name) # {N[j].name}}}

-----------------------------------------------------------------------------
(* Matching.                                                               *)

NamesOf(active) ==
  LET M == run.roster IN {M[i].name : i \in {j \in Live(M) : M[j].active = active}}

\* knownMembers: the names active when the scan began, and those read since.
KnownNames == NamesOf(TRUE) \cup run.pushed

\* The names of S that are fewest edits from n.
Closest(n, S) == {k \in S : \A x \in S : Distance[n, k] <= Distance[n, x]}

\* Fault: members who were removed are not looked at.
MatchActivePlayer(n) ==
  LET known == KnownNames
      exact == {k \in known : Key[k] = Key[n]}
      close == Closest(n, {k \in known : <<n, k>> \in Near})
  IN  IF exact # {} THEN exact ELSE close \cup {n}

\* A tier of exact matches: a name of S that the scan knows goes before one of a removed
\* member.
ExactTier(S) ==
  IF KnownNames \cap S # {} THEN KnownNames \cap S ELSE NamesOf(FALSE) \cap S

\* matchKnownPlayer: by key and then with confused characters over all the names, by
\* distance over the active ones.  A reading that the scan has met twice is not given
\* away at the limit of the edit budget, and stays what it is, like one that fits none.
MatchKnownPlayer(n) ==
  LET exact    == ExactTier({k \in Names : Key[k] = Key[n]})
      confused == ExactTier({k \in Names : <<n, k>> \in Confused})
  IN  IF exact # {} THEN exact
      ELSE IF confused # {} THEN confused
      ELSE Closest(n, {k \in KnownNames : <<n, k>> \in Near}) \cup {n}

\* getAllMembers lists by name, and the matchers take the first that fits.
FirstByName(M, S) ==
  IF S = {} THEN 0 ELSE CHOOSE i \in S : \A j \in S : Order[M[i].name] <= Order[M[j].name]

\* exactMatchMember, in a pool of ids: spelled alike first, then by key.
ExactMatchMember(M, pool, n) ==
  LET alike == {i \in pool : n \in {M[i].name} \cup M[i].aliases}
      keyed == {i \in pool : \E a \in {M[i].name} \cup M[i].aliases : Key[a] = Key[n]}
  IN  FirstByName(M, IF alike # {} THEN alike ELSE keyed)

CloseMember(M, pool, n) ==
  LET near == {i \in pool : <<n, M[i].name>> \in Near}
  IN  FirstByName(M, {i \in near : M[i].name \in Closest(n, {M[j].name : j \in near})})

\* resolveMember: a rule outranks everything; any exact match outranks distance.
ResolveMember(n) ==
  LET M == run.roster
      active   == {i \in Live(M) : M[i].active}
      inactive == Live(M) \ active
      Exact(x) == IF ExactMatchMember(M, active, x) # 0
                    THEN ExactMatchMember(M, active, x) ELSE ExactMatchMember(M, inactive, x)
      close    == IF CloseMember(M, active, n) # 0 THEN CloseMember(M, active, n)
                  ELSE CloseMember(M, inactive, n)
  IN  IF run.canon[n] # n THEN [id |-> Exact(run.canon[n]), exact |-> Exact(run.canon[n]) # 0]
      ELSE IF Exact(n) # 0 THEN [id |-> Exact(n), exact |-> TRUE]
      ELSE [id |-> close, exact |-> FALSE]

\* fuzzyMatchMember over the whole roster, as the resource reader calls it.
FuzzyMatchMember(M, n) ==
  LET exact == ExactMatchMember(M, Live(M), n)
  IN  IF exact # 0 THEN exact ELSE CloseMember(M, Live(M), n)

-----------------------------------------------------------------------------
(* The gift scan.                                                          *)

\* An activity copies the roster and the rules; they exclude each other by the
\* lock of the scan loop.
Begin(pc, canon) ==
  run' = [NoRun EXCEPT !.pc = pc, !.roster = member, !.canon = canon, !.left = MaxReadings]

ScanBegins ==
  /\ run.pc = "idle"
  /\ \E canon \in LoadMergeRules : Begin("scan", canon)
  /\ UNCHANGED <<member, nextId, rule, holds, split, events, orphaned>>

\* The chest of the reading n is stored for the member i.
FileRow(n, i) == holds' = [holds EXCEPT ![i] = @ \cup {n}]

\* One card: the reading is matched, the rules are applied to the match, and the
\* member is looked up or created.  A name that the scan did not know first has
\* its crop saved.
ReadCard(n) ==
  /\ run.pc = "scan" /\ run.left > 0
  /\ \E matched \in MatchKnownPlayer(n) :
       LET corrected == run.canon[matched]
       IN  /\ Room(TheRoster, corrected)
           /\ \E s \in {UpsertMember(TheRoster, corrected)} :
               /\ member' = s.m /\ nextId' = s.next
               /\ split' = split \cup Revived(s.m) \cup
                             IF Key[matched] # Key[n] \/ Key[corrected] \in split \cup Revived(s.m)
                               THEN {Key[n]} ELSE {}
               /\ IF corrected \in KnownNames
                    THEN /\ FileRow(n, s.id)
                         /\ run' = [run EXCEPT !.left = @ - 1]
                    ELSE /\ run' = [run EXCEPT !.pc = "saving", !.left = @ - 1, !.name = n,
                                               !.id = s.id, !.pushed = @ \cup {corrected}]
                         /\ UNCHANGED holds
  /\ UNCHANGED <<rule, events, orphaned>>

\* The crop is saved, and the row inserted; without its member the insert throws
\* and the rest of the crop is skipped.
CropSaved ==
  /\ run.pc = "saving"
  /\ IF run.id \in Live(member) THEN FileRow(run.name, run.id) ELSE UNCHANGED holds
  /\ run' = [run EXCEPT !.pc = "scan", !.id = 0, !.name = NoName]
  /\ UNCHANGED <<member, nextId, rule, split, events, orphaned>>

\* Between two cards it makes no difference how the scan ends.
ScanEnds ==
  /\ run.pc = "scan" /\ run' = NoRun
  /\ UNCHANGED <<member, nextId, rule, holds, split, events, orphaned>>

-----------------------------------------------------------------------------
(* The might capture and the resource reader.                              *)

MightBegins ==
  /\ run.pc = "idle" /\ Live(member) # {}
  /\ \E canon \in LoadMergeRules : Begin("might", canon)
  /\ UNCHANGED <<member, nextId, rule, holds, split, events, orphaned>>

ResourcesBegin ==
  /\ run.pc = "idle"
  /\ Begin("resources", [n \in Names |-> n])
  /\ UNCHANGED <<member, nextId, rule, holds, split, events, orphaned>>

\* A list of one or two rows.  A row that the capture drops as a second reading of
\* another, or only sights because its number is cut off, is a row that is not there.
Lists == {<<n>> : n \in Names} \cup {<<p[1], p[2]>> : p \in {q \in Names \X Names : q[1] # q[2]}}

\* One row of the member list, on top of what the rows before it did.
TakeMightRow(s, n) ==
  LET hit   == ResolveMember(n)
      other == hit.id # 0 /\ ~hit.exact /\ hit.id \in s.seen
      up    == IF hit.id = 0 \/ other THEN UpsertMember(s.r, run.canon[n])
               ELSE [s.r EXCEPT !.id = hit.id]
  IN  IF up.id \in s.seen
        THEN [s EXCEPT !.r = up]
        ELSE [r |-> up, seen |-> s.seen \cup {up.id},
              rows |-> s.rows \cup {[name |-> n, id |-> up.id]},
              far |-> IF \/ hit.id # 0 /\ ~hit.exact /\ ~other
                         \/ Key[run.canon[n]] \in split \cup Revived(up.m)
                        THEN s.far \cup {Key[n]} ELSE s.far]

\* One row of the resource history, whose name the rules make name; they outrank
\* the match.
TakeResourceRow(name, s, n) ==
  LET hit == FuzzyMatchMember(run.roster, n)
      up  == IF name # n \/ hit = 0 THEN UpsertMember(s.r, name)
             ELSE [s.r EXCEPT !.id = hit]
  IN  [r |-> up, seen |-> s.seen,
       rows |-> s.rows \cup {[name |-> n, id |-> up.id]},
       far |-> IF \/ /\ name = n /\ hit # 0
                     /\ ExactMatchMember(run.roster, Live(run.roster), n) = 0
                  \/ Key[name] \in split \cup Revived(up.m)
                 THEN s.far \cup {Key[n]} ELSE s.far]

Untaken == [r |-> TheRoster, seen |-> {}, rows |-> {}, far |-> {}]

\* The rows of a list, from the first to the last.
TakeMightRows(list) ==
  LET first == TakeMightRow(Untaken, list[1])
  IN  IF Len(list) = 1 THEN first ELSE TakeMightRow(first, list[2])

\* The rows are stored in one transaction, which fails if a member is gone.
StoreRows(s, M) ==
  /\ member' = M /\ nextId' = s.r.next
  /\ IF \A x \in s.rows : x.id \in Live(M)
       THEN /\ holds' = [i \in Ids |-> holds[i] \cup
                           {x.name : x \in {y \in s.rows : y.id = i}}]
            /\ split' = split \cup Revived(M) \cup s.far
       ELSE UNCHANGED holds /\ split' = split \cup Revived(M)
  /\ run' = NoRun
  /\ UNCHANGED <<rule, events, orphaned>>

\* runMightCapturePhase: exact rows claim their members before the others do, and
\* everyone on the list has been seen.
MightEnds ==
  /\ run.pc = "might"
  /\ \E list \in Lists :
       /\ nextId + Len(list) <= MaxMembers + 1
       /\ ~(Len(list) = 2 /\ ResolveMember(list[2]).exact /\ ~ResolveMember(list[1]).exact)
       /\ \E s \in {TakeMightRows(list)} :
            StoreRows(s, [i \in Ids |-> IF i \in s.seen \cap Live(s.r.m)
                                          THEN [s.r.m[i] EXCEPT !.active = TRUE]
                                          ELSE s.r.m[i]])

\* The end of runResourceCapturePhase; the rules are loaded only now.
ResourcesEnd ==
  /\ run.pc = "resources"
  /\ \E n \in Names : \E name \in ApplyMergeRules(n) :
       /\ Room(TheRoster, name)
       /\ \E s \in {TakeResourceRow(name, Untaken, n)} : StoreRows(s, s.r.m)

\* The member capture, one name of the list; its rules are fresh, and it has no rows.
CaptureMember(n) ==
  /\ run.pc = "idle"
  /\ \E name \in ApplyMergeRules(n) :
       LET s == UpsertMember(TheRoster, name)
       IN  /\ Room(TheRoster, name)
           /\ member' = s.m /\ nextId' = s.next
           /\ split' = split \cup Revived(s.m)
  /\ UNCHANGED <<rule, holds, run, events, orphaned>>

\* An activity fails, or dies with the process; what a scan has stored stays.
RunFails ==
  /\ run.pc \in {"saving", "might", "resources"} /\ run' = NoRun
  /\ UNCHANGED <<member, nextId, rule, holds, split, events, orphaned>>

-----------------------------------------------------------------------------
(* Admins and the inactivity sweep.                                        *)

\* The rule that a merge leaves: an existing rule of the same key is redirected.
MergedRule(f, t) ==
  LET covering == {g \in Names \ {f} : rule[g] # NoName /\ Key[g] = Key[f]}
  IN  IF covering = {} THEN [rule EXCEPT ![f] = t]
      ELSE [rule EXCEPT ![CHOOSE g \in covering : TRUE] = t]

\* Fault: a merge leaves a rule only.
WithoutAlias(M, f, t) == M

\* The misread spelling becomes an alias of the destination.
WithAlias(M, f, t) ==
  [i \in Ids |-> IF i \in Named(M, t) /\ f # t THEN [M[i] EXCEPT !.aliases = @ \cup {f}]
                 ELSE M[i]]

\* addMergeRule for players
AddMergeRule(f, t) ==
  LET from == First(Named(member, f))
      to   == First(Named(member, t))
  IN  /\ Event /\ f # t
      /\ rule' = MergedRule(f, t)
      /\ IF from = 0 THEN
              /\ member' = WithAlias(member, f, t) /\ UNCHANGED holds
         ELSE IF to = 0 THEN
              /\ member' = WithAlias([member EXCEPT ![from].name = t], f, t)
              /\ UNCHANGED holds
         ELSE /\ member' = WithAlias([member EXCEPT ![from] = Gone], f, t)
              /\ holds' = [holds EXCEPT ![to] = @ \cup holds[from], ![from] = {}]
      /\ IF from = 0 \/ to = 0
           THEN split' = split \cup {Key[f], Key[t]} /\ UNCHANGED orphaned
           ELSE orphaned' = (orphaned \cup member[from].aliases) \ {f} /\ UNCHANGED split
      /\ UNCHANGED <<nextId, run>>

\* DELETE /admin/merge-rules/:id; the alias stays.
DeleteMergeRule(f) ==
  /\ Event /\ rule[f] # NoName
  /\ rule' = [rule EXCEPT ![f] = NoName]
  /\ split' = split \cup {Key[f]}
  /\ UNCHANGED <<member, nextId, holds, run, orphaned>>

\* assignTinmanName: an admin says whose a spelling is, without a rule.
AddAlias(i, n) ==
  /\ Event /\ i \in Live(member)
  /\ \A x \in {member[i].name} \cup member[i].aliases : Key[x] # Key[n]
  /\ member' = [member EXCEPT ![i].aliases = @ \cup {n}]
  /\ split' = split \cup {Key[n]}
  /\ UNCHANGED <<nextId, rule, holds, run, orphaned>>

\* renameMember; two members never have one name.
RenameMember(i, n) ==
  /\ Event /\ i \in Live(member) /\ Named(member, n) = {}
  /\ member' = [member EXCEPT ![i].name = n]
  /\ split' = split \cup {Key[x] : x \in member[i].aliases \cup {member[i].name, n}}
  /\ UNCHANGED <<nextId, rule, holds, run, orphaned>>

\* removeMember, deactivateStaleMembers
Deactivate(S) ==
  /\ Event /\ S # {} /\ \A i \in S : i \in Live(member) /\ member[i].active
  /\ member' = [i \in Ids |-> IF i \in S THEN [member[i] EXCEPT !.active = FALSE] ELSE member[i]]
  /\ UNCHANGED <<nextId, rule, holds, run, split, orphaned>>

RestoreMember(i) ==
  /\ Event /\ i \in Live(member) /\ ~member[i].active
  /\ member' = [member EXCEPT ![i].active = TRUE]
  /\ UNCHANGED <<nextId, rule, holds, run, split, orphaned>>

\* POST /admin/unknown-chests/reassign: of the member typed by an admin.
Reassign(n) ==
  LET s == UpsertMember(TheRoster, n)
  IN  /\ Event /\ Room(TheRoster, n)
      /\ member' = s.m /\ nextId' = s.next
      /\ split' = IF Recognised(member, n) = 0 THEN split \cup {Key[n]} ELSE split
      /\ UNCHANGED <<rule, holds, run, orphaned>>

-----------------------------------------------------------------------------
Init ==
  /\ member = [i \in Ids |-> Gone] /\ nextId = 1
  /\ rule = [n \in Names |-> NoName]
  /\ holds = [i \in Ids |-> {}]
  /\ run = NoRun /\ split = {} /\ orphaned = {} /\ events = MaxEvents

Next ==
  \/ ScanBegins \/ CropSaved \/ ScanEnds \/ MightBegins \/ MightEnds
  \/ ResourcesBegin \/ ResourcesEnd \/ RunFails
  \/ \E n \in Names : \/ ReadCard(n) \/ CaptureMember(n)
                     \/ DeleteMergeRule(n) \/ Reassign(n)
  \/ \E f, t \in Names : AddMergeRule(f, t)
  \/ \E i \in Ids : \/ RestoreMember(i)
                   \/ \E n \in Names : RenameMember(i, n) \/ AddAlias(i, n)
  \/ \E S \in SUBSET Ids : Deactivate(S)

Spec == Init /\ [][Next]_vars

-----------------------------------------------------------------------------
(* Properties.                                                             *)

Member == [name : Names \cup {NoName}, aliases : SUBSET Names, active : BOOLEAN]

RunRecord ==
  [pc : {"idle", "scan", "saving", "might", "resources"},
   roster : [Ids -> Member], canon : [Names -> Names], pushed : SUBSET Names,
   left : 0..MaxReadings, id : 0..MaxMembers, name : Names \cup {NoName}]

\* Types of the state.
TypeOK ==
  /\ member \in [Ids -> Member]
  /\ nextId \in 1..(MaxMembers + 1)
  /\ rule \in [Names -> Names \cup {NoName}]
  /\ holds \in [Ids -> SUBSET Names]
  /\ run \in RunRecord
  /\ split \subseteq Names /\ orphaned \subseteq Names /\ events \in 0..MaxEvents

HoldersOf(k) == {i \in Ids : \E n \in holds[i] : Key[n] = k}

\* The rows of one player are at one member, however the name was spaced, whichever
\* activity read it and whatever was merged, removed or restored beside it (upsertMember,
\* the matchers, addMergeRule).  Excused in split are the names that were filed by
\* distance or by confused characters, merged from or into a name nobody had, renamed,
\* typed by an admin, freed of their rule, made members again in spite of their rule, or
\* filed under one of these.
NotSplit == \A k \in Names : k \in split \/ Cardinality(HoldersOf(k)) <= 1

\* While its rule stands, a spelling that was merged into a member never becomes a
\* member again, also through an activity that copied the rules before the merge (the
\* alias that addMergeRule leaves), unless that member was itself merged away since
\* (orphaned) or NotSplit excuses the name (split).
MergedStaysMerged ==
  [][\A n \in Names :
       rule[n] # NoName /\ Key[n] \notin split /\ n \notin orphaned /\ nextId' # nextId
         => Named(member', n) = Named(member, n)]_vars

KnownAs(M, n) == {i \in Live(M) : \E x \in {M[i].name} \cup M[i].aliases : Key[x] = Key[n]}

\* The readings that an activity decides are the member i's: a crop that is saved only
\* carries out what was decided when its card was read.
Given(i) ==
  IF run' = run \/ run.pc = "saving" THEN {}
  ELSE IF run'.pc = "saving" THEN {n \in {run'.name} : run'.id = i}
  ELSE holds'[i] \ holds[i]

\* No rule, present or copied, makes another name of n.
Unclaimed(n) ==
  /\ \A name \in ApplyMergeRules(n) : Key[name] = Key[n]
  /\ \A x \in Names : Key[x] = Key[n] => Key[run.canon[x]] = Key[n]

\* No neighbour takes a row of a name that its owner, present or removed, spells so but
\* for spacing, if no rule or other member claims the name (matchKnownPlayer,
\* resolveMember and fuzzyMatchMember agree).
ExactWins ==
  [][\A i, j \in Ids : \A n \in Given(i) :
       /\ Unclaimed(n)
       /\ \A M \in {run.roster, member} : KnownAs(M, n) = {j} /\ Key[M[j].name] = Key[n]
       => i = j]_vars
=============================================================================
