---------------------------- MODULE TeamPageProofs ----------------------------
(***************************************************************************)
(* What the reducers of TeamPage keep: each takes a page to a page, and    *)
(* says what becomes of the page's team and key.                           *)
(***************************************************************************)
EXTENDS TeamPage, TLAPS

\* The device and its rows.
LEMMA RowTypes ==
    ASSUME NEW n \in Node, NEW row \in Rows
    PROVE  NodeOf(n, row) \in Node
BY PageAssumption DEF NodeOf, Rows

\* A node id shows up as a row.
LEMMA RowOfType ==
    ASSUME NEW n \in Node, NEW id \in Node
    PROVE  RowOf(n, id) \in Rows
BY DEF RowOf, Rows

\* A fresh page has no team and no key.
LEMMA BlankType == Blank \in Pages /\ Blank.psk = NoPsk /\ Blank.team = NoTeam
<1>1. << >> \in Seq(Rows)
  OBVIOUS
<1> QED
  BY <1>1 DEF Blank, Pages, PairingStates, NoTeam, NoPsk

\* Listing a node changes the list only.
LEMMA TouchType ==
    ASSUME NEW p \in Pages, NEW row \in Rows
    PROVE  /\ Touch(p, row) \in Pages
           /\ Touch(p, row).psk = p.psk /\ Touch(p, row).team = p.team
<1>1. Append(p.members, row) \in Seq(Rows)
  BY DEF Pages
<1>2. CASE row \in RowsOf(p)
  BY <1>2 DEF Touch
<1>3. CASE row \notin RowsOf(p)
  BY <1>1, <1>3 DEF Touch, Pages
<1> QED
  BY <1>2, <1>3

\* So does listing the device itself, with or without the flag.
LEMMA EnsureSelfType ==
    ASSUME NEW p \in Pages, NEW leads
    PROVE  /\ EnsureSelf(p, leads) \in Pages
           /\ EnsureSelf(p, leads).psk = p.psk /\ EnsureSelf(p, leads).team = p.team
<1> DEFINE q == Touch(p, Self)
<1>1. q \in Pages /\ q.psk = p.psk /\ q.team = p.team
  BY TouchType DEF Rows
<1>2. q.leaders \cup {Self} \in SUBSET Rows /\ q.leaders \ {Self} \in SUBSET Rows
  BY <1>1 DEF Pages, Rows
<1>3. EnsureSelf(p, leads)
      = [q EXCEPT !.leaders = IF leads THEN @ \cup {Self} ELSE @ \ {Self}]
  BY DEF EnsureSelf
<1> HIDE DEF q
<1> QED
  BY <1>1, <1>2, <1>3 DEF Pages

\* The roster sent is one of node ids, naming a leader or none.
LEMMA RosterType ==
    ASSUME NEW n \in Node, NEW p \in Pages
    PROVE  /\ RosterOf(n, p).members \in Seq(Node)
           /\ RosterOf(n, p).leader \in Node \cup {NoNode}
           /\ RosterOf(n, p) = [members |-> RosterOf(n, p).members,
                                leader |-> RosterOf(n, p).leader]
<1> DEFINE ids == [i \in DOMAIN p.members |-> NodeOf(n, p.members[i])]
           twice == {i \in DOMAIN ids : \E j \in 1 .. i - 1 : ids[j] = ids[i]}
           last == {i \in DOMAIN ids :
                      /\ p.members[i] \in p.leaders
                      /\ \A j \in i + 1 .. Len(ids) : p.members[j] \notin p.leaders}
           cut(i) == SubSeq(ids, 1, i - 1) \o SubSeq(ids, i + 1, Len(ids))
<1>1. p.members \in Seq(Rows)
  BY DEF Pages
<1>2. ids \in Seq(Node) /\ DOMAIN ids = 1 .. Len(ids)
  <2>1. \A i \in DOMAIN p.members : NodeOf(n, p.members[i]) \in Node
    BY <1>1, RowTypes
  <2>2. DOMAIN p.members = 1 .. Len(p.members) /\ Len(p.members) \in Nat
    BY <1>1
  <2> QED
    BY <2>1, <2>2
<1>3. RosterOf(n, p) =
        [members |-> IF twice = {} THEN ids ELSE LET i == CHOOSE i \in twice : TRUE IN cut(i),
         leader  |-> IF last # {} THEN ids[CHOOSE i \in last : TRUE]
                     ELSE IF p.leader THEN n ELSE NoNode]
  BY DEF RosterOf
<1>4. twice \subseteq 1 .. Len(ids) /\ last \subseteq 1 .. Len(ids)
  BY <1>2
<1> HIDE DEF ids, twice, last
<1>5. ASSUME NEW i \in 1 .. Len(ids) PROVE cut(i) \in Seq(Node)
  <2>1. SubSeq(ids, 1, i - 1) \in Seq(Node)
    BY <1>2
  <2>2. SubSeq(ids, i + 1, Len(ids)) \in Seq(Node)
    BY <1>2
  <2> QED
    BY <2>1, <2>2
<1>6. twice # {} => cut(CHOOSE i \in twice : TRUE) \in Seq(Node)
  BY <1>4, <1>5
<1>7. last # {} => ids[CHOOSE i \in last : TRUE] \in Node
  <2>1. last # {} => (CHOOSE i \in last : TRUE) \in 1 .. Len(ids)
    BY <1>4
  <2> QED
    BY <1>2, <2>1
<1> QED
  BY <1>2, <1>3, <1>6, <1>7

\* A roster replaces the list, and no more of the team.
LEMMA ApplyRosterType ==
    ASSUME NEW n \in Node, NEW p \in Pages, NEW r,
           r.members \in Seq(Node), r.leader \in Node \cup {NoNode}
    PROVE  /\ ApplyRoster(n, p, r) \in Pages
           /\ ApplyRoster(n, p, r).psk = p.psk /\ ApplyRoster(n, p, r).team = p.team
<1> DEFINE rows == [i \in DOMAIN r.members |-> RowOf(n, r.members[i])]
           s == [p EXCEPT !.members = rows]
           q == Touch(s, Self)
<1>1. rows \in Seq(Rows)
  <2>1. \A i \in DOMAIN r.members : RowOf(n, r.members[i]) \in Rows
    BY RowOfType
  <2>2. DOMAIN r.members = 1 .. Len(r.members) /\ Len(r.members) \in Nat
    OBVIOUS
  <2> QED
    BY <2>1, <2>2
<1>2. s \in Pages /\ s.psk = p.psk /\ s.team = p.team
  BY <1>1 DEF Pages
<1> HIDE DEF s, rows
<1>3. q \in Pages /\ q.psk = p.psk /\ q.team = p.team
  BY <1>2, TouchType DEF Rows
<1>4. {RowOf(n, r.leader)} \cap RowsOf(q) \in SUBSET Rows
  BY <1>3 DEF RowsOf, Pages
<1>5. ApplyRoster(n, p, r) =
        IF r.members = << >> THEN p
        ELSE [q EXCEPT !.leaders = {RowOf(n, r.leader)} \cap RowsOf(q),
                       !.leader = (r.leader = n)]
  BY DEF ApplyRoster, q, s, rows
<1> HIDE DEF q
<1> QED
  BY <1>3, <1>4, <1>5 DEF Pages

-----------------------------------------------------------------------------
(* Commands.                                                                *)

\* A new team has a key and an id, its own unless the page had one.
LEMMA CreateType ==
    ASSUME NEW p \in Pages, NEW k \in Psks
    PROVE  LET q == ReduceCreate(p, k, k)
           IN  /\ q \in Pages
               /\ q.psk \in Psks /\ q.team # NoTeam
               /\ p.team = NoTeam => q.team = k
               /\ p.team # NoTeam => q.team = p.team
<1> DEFINE s == [p EXCEPT !.inTeam = TRUE, !.pending = FALSE, !.leader = TRUE,
                          !.members = << >>, !.leaders = {},
                          !.team = IF @ = NoTeam THEN k ELSE @,
                          !.psk = IF @ = NoPsk THEN k ELSE @]
<1>1. << >> \in Seq(Rows)
  OBVIOUS
<1>2. k \in TeamIds /\ k # NoTeam
  BY PageAssumption DEF Psks, TeamIds, NoTeam
<1>3. /\ s \in Pages
      /\ s.psk \in Psks /\ s.team # NoTeam
      /\ p.team = NoTeam => s.team = k
      /\ p.team # NoTeam => s.team = p.team
  BY <1>1, <1>2 DEF Pages
<1>4. ReduceCreate(p, k, k) = EnsureSelf(s, TRUE)
  BY DEF ReduceCreate, s
<1> HIDE DEF s
<1> QED
  BY <1>3, <1>4, EnsureSelfType

\* Starting to pair keeps team and key.
LEMMA PairingStartedType ==
    ASSUME NEW p \in Pages, NEW role \in {"Leader", "Member"}, NEW state \in PairingStates
    PROVE  LET q == ReducePairingStarted(p, role, state)
           IN  q \in Pages /\ q.psk = p.psk /\ q.team = p.team
BY DEF ReducePairingStarted, Pages

\* So does cancelling it.
LEMMA JoinCanceledType ==
    ASSUME NEW p \in Pages
    PROVE  LET q == ReduceJoinCanceled(p)
           IN  q \in Pages /\ q.psk = p.psk /\ q.team = p.team
BY DEF ReduceJoinCanceled, Pages, PairingStates

\* So does handing the team over.
LEMMA TransferLeaderType ==
    ASSUME NEW p \in Pages, NEW row \in Rows
    PROVE  LET q == ReduceTransferLeader(p, row)
           IN  q \in Pages /\ q.psk = p.psk /\ q.team = p.team
<1>1. {row} \in SUBSET Rows
  OBVIOUS
<1> QED
  BY <1>1 DEF ReduceTransferLeader, Pages

-----------------------------------------------------------------------------
(* Events.                                                                  *)

\* A status of another team changes nothing, one of no team names the page's.
LEMMA StatusType ==
    ASSUME NEW n \in Node, NEW p \in Pages, NEW e,
           e.team \in TeamIds, e.from \in Node,
           e.roster.members \in Seq(Node), e.roster.leader \in Node \cup {NoNode}
    PROVE  LET q == ReduceStatus(n, p, e)
           IN  /\ q \in Pages /\ q.psk = p.psk
               /\ p.team # NoTeam => q.team = p.team
<1> DEFINE s == [p EXCEPT !.team = e.team]
           t == ApplyRoster(n, s, e.roster)
<1>1. s \in Pages /\ s.psk = p.psk /\ s.team = e.team
  BY DEF Pages
<1> HIDE DEF s
<1>2. t \in Pages /\ t.psk = p.psk /\ t.team = e.team
  BY <1>1, ApplyRosterType
<1>3. e.from \in Rows
  BY DEF Rows
<1> HIDE DEF t
<1>4. ReduceStatus(n, p, e) = IF AcceptsTeam(p, e.team) THEN Touch(t, e.from) ELSE p
  BY DEF ReduceStatus, t, s
<1>5. AcceptsTeam(p, e.team) /\ p.team # NoTeam => e.team = p.team
  BY DEF AcceptsTeam
<1> QED
  BY <1>2, <1>3, <1>4, <1>5, TouchType

\* So does the frame that says so, at those who get it.
LEMMA TransferEventType ==
    ASSUME NEW p \in Pages, NEW e, e.target \in Rows
    PROVE  LET q == ReduceTransferEvent(p, e)
           IN  q \in Pages /\ q.psk = p.psk /\ q.team = p.team
<1> DEFINE s == Touch(p, e.target)
<1>1. s \in Pages /\ s.psk = p.psk /\ s.team = p.team
  BY TouchType
<1>2. {e.target} \in SUBSET Rows /\ (e.target = Self) \in BOOLEAN
  OBVIOUS
<1>3. ReduceTransferEvent(p, e) =
        IF AcceptsTeam(p, e.team)
        THEN [s EXCEPT !.leaders = {e.target}, !.leader = (e.target = Self)] ELSE p
  BY DEF ReduceTransferEvent, s
<1> HIDE DEF s
<1> QED
  BY <1>1, <1>2, <1>3 DEF Pages

\* Entering a team changes neither its id nor its key.
LEMMA EnteredType ==
    ASSUME NEW p \in Pages
    PROVE  Entered(p) \in Pages /\ Entered(p).psk = p.psk /\ Entered(p).team = p.team
<1> DEFINE leads == p.leader /\ p.role # "Member"
           s == [p EXCEPT !.inTeam = TRUE, !.pending = FALSE, !.leader = leads]
<1>1. leads \in BOOLEAN
  BY DEF Pages
<1> HIDE DEF leads
<1>2. s \in Pages /\ s.psk = p.psk /\ s.team = p.team
  BY <1>1 DEF Pages
<1>3. Entered(p) = IF ~p.inTeam \/ WasPairing(p) THEN EnsureSelf(s, leads) ELSE p
  BY DEF Entered, s, leads
<1> HIDE DEF s
<1> QED
  BY <1>2, <1>3, EnsureSelfType

\* A key is taken over whole, or not at all.
LEMMA KeyDistType ==
    ASSUME NEW p \in Pages, NEW e, e.team \in TeamIds, e.psk \in Psks, e.from \in Node
    PROVE  LET q == ReduceKeyDist(p, e)
           IN  /\ q \in Pages
               /\ AcceptsTeam(p, e.team) => q.psk = e.psk /\ q.team = e.team
               /\ ~AcceptsTeam(p, e.team) => q = p
<1> DEFINE s == [p EXCEPT !.team = e.team, !.psk = e.psk]
           t == Entered(s)
           u == Touch(t, e.from)
<1>1. s \in Pages /\ s.psk = e.psk /\ s.team = e.team
  BY DEF Pages
<1> HIDE DEF s
<1>2. t \in Pages /\ t.psk = e.psk /\ t.team = e.team
  BY <1>1, EnteredType
<1> HIDE DEF t
<1>3. u \in Pages /\ u.psk = e.psk /\ u.team = e.team /\ e.from \in Rows
  BY <1>2, TouchType DEF Rows
<1>4. u.leaders \cup {e.from} \in SUBSET Rows
  BY <1>3 DEF Pages
<1>5. ReduceKeyDist(p, e) =
        IF ~AcceptsTeam(p, e.team) THEN p
        ELSE IF t.leader THEN t ELSE [u EXCEPT !.leaders = @ \cup {e.from}]
  BY DEF ReduceKeyDist, s, t, u
<1> HIDE DEF u
<1> QED
  BY <1>2, <1>3, <1>4, <1>5 DEF Pages

\* The pairing service names the page's team, unless it has none itself.
LEMMA IdentityType ==
    ASSUME NEW p \in Pages, NEW u, u.role \in {"None", "Leader", "Member"},
           u.state \in PairingStates, u.team \in TeamIds \cup {NoTeam}
    PROVE  LET q == ApplyIdentity(p, u)
           IN  /\ q \in Pages /\ q.psk = p.psk
               /\ u.team = NoTeam => q.team = p.team
               /\ u.team # NoTeam => q.team = u.team
BY DEF ApplyIdentity, Pages

\* An open page takes the team of the pairing service, if that names one.
LEMMA SyncPairingType ==
    ASSUME NEW p \in Pages, NEW u, u.role \in {"None", "Leader", "Member"},
           u.state \in PairingStates, u.team \in TeamIds \cup {NoTeam}
    PROVE  LET q == SyncPairing(p, u)
           IN  /\ q \in Pages /\ q.psk = p.psk
               /\ u.team = NoTeam => q.team = p.team
               /\ u.team # NoTeam => q.team = u.team
<1> DEFINE a == ApplyIdentity(p, u)
<1>1. /\ a \in Pages /\ a.psk = p.psk
      /\ u.team = NoTeam => a.team = p.team
      /\ u.team # NoTeam => a.team = u.team
  BY IdentityType
<1>2. Active(u.state) \in BOOLEAN
  BY DEF Active
<1>3. SyncPairing(p, u) = [a EXCEPT !.pending = Active(u.state)]
  BY DEF SyncPairing, a
<1> HIDE DEF a
<1> QED
  BY <1>1, <1>2, <1>3 DEF Pages

\* So does a page that handles an event of it; no such event has a key.
LEMMA PairingEventType ==
    ASSUME NEW p \in Pages, NEW e, e.role \in {"None", "Leader", "Member"},
           e.state \in PairingStates, e.team \in TeamIds \cup {NoTeam},
           e.peer \in Node \cup {NoNode}
    PROVE  LET q == ReducePairing(p, e)
           IN  /\ q \in Pages /\ q.psk = p.psk
               /\ e.team = NoTeam => q.team = p.team
               /\ e.team # NoTeam => q.team = e.team
<1> DEFINE Kept(q) == /\ q \in Pages /\ q.psk = p.psk
                      /\ e.team = NoTeam => q.team = p.team
                      /\ e.team # NoTeam => q.team = e.team
           a == ApplyIdentity(p, e)
           leading == [a EXCEPT !.inTeam = TRUE, !.leader = TRUE]
           b == IF e.role = "Leader" THEN EnsureSelf(leading, TRUE) ELSE a
           c == IF Admits(e) THEN Touch(b, e.peer) ELSE b
           entering == [c EXCEPT !.inTeam = TRUE, !.leader = (e.role = "Leader")]
           d == IF e.state = "Completed" /\ ~c.inTeam
                THEN EnsureSelf(entering, e.role = "Leader") ELSE c
<1>1. Kept(a)
  BY IdentityType
<1>2. ReducePairing(p, e) = [d EXCEPT !.pending = Active(e.state)]
  BY DEF ReducePairing
<1> HIDE DEF a
<1>3. Kept(leading)
  BY <1>1 DEF Pages
<1> HIDE DEF leading
<1>4. Kept(b)
  BY <1>1, <1>3, EnsureSelfType
<1> HIDE DEF b
<1>5. Admits(e) => e.peer \in Rows
  BY DEF Admits, Rows
<1>6. Kept(c)
  BY <1>4, <1>5, TouchType
<1> HIDE DEF c
<1>7. Kept(entering)
  BY <1>6 DEF Pages
<1> HIDE DEF entering
<1>8. Kept(d)
  BY <1>6, <1>7, EnsureSelfType
<1> HIDE DEF d
<1>9. Active(e.state) \in BOOLEAN
  BY DEF Active
<1> QED
  BY <1>2, <1>8, <1>9 DEF Pages

-----------------------------------------------------------------------------
(* The record and the screen.                                               *)

\* Whatever page is saved, a record or none is written.
LEMMA RecordType ==
    ASSUME NEW p \in Pages
    PROVE  /\ RecordOf(p) \in Records \cup {NoRecord}
           /\ p.psk # NoPsk /\ p.team \notin {NoTeam, ZeroTeam} => RecordOf(p).psk = p.psk
           /\ p.psk = NoPsk => RecordOf(p) = NoRecord
BY DEF RecordOf, Records, Pages, NoRecord, ZeroTeam, NoTeam

\* Loading takes over team and key of the record, or nothing.
LEMMA FromStoreType ==
    ASSUME NEW p \in Pages, NEW r \in Records \cup {NoRecord}
    PROVE  LET q == FromStore(p, r)
           IN  /\ q \in Pages
               /\ r = NoRecord => q = p
               /\ r # NoRecord => /\ q.psk = r.psk /\ q.team = r.team
                                  /\ r.psk \in Psks
                                  /\ r.team \in TeamIds \ {ZeroTeam}
<1>1. << >> \in Seq(Rows) /\ {} \in SUBSET Rows
  OBVIOUS
<1>2. CASE r = NoRecord
  BY <1>2 DEF FromStore
<1>3. CASE r # NoRecord
  <2>1. r \in Records
    BY <1>3
  <2> QED
    BY <1>1, <1>3, <2>1 DEF FromStore, Records, Pages
<1> QED
  BY <1>2, <1>3

\* What the screen functions choose is a screen.
LEMMA StatusViewType == ASSUME NEW p PROVE StatusView(p) \in Views
BY DEF StatusView, Views

\* The screen a page opens with.
LEMMA InitialViewType == ASSUME NEW p PROVE InitialView(p) \in Views
BY DEF InitialView, StatusView, Views

\* The screen of an open page that is refreshed.
LEMMA SyncViewType == ASSUME NEW p, NEW v \in Views PROVE SyncView(p, v) \in Views
BY DEF SyncView, Views
=============================================================================
