------------------------ MODULE EntityReconciliation ------------------------
(***************************************************************************)
(* Which row a provider's record is about. Teams and fixtures come from    *)
(* several sources under ids of their own; provider_ref_index maps each of *)
(* these ids to a row, and EntityReconciliationService, the import of      *)
(* historical files, the admin's team mapping and the script that merges   *)
(* duplicate teams are what writes it.                                     *)
(*                                                                         *)
(* A Worker syncs on an autocommit session: what it reads, the row and the *)
(* index entry are statements of their own. Desk is the session of whoever *)
(* imports a file or confirms a mapping, one transaction each. A club and  *)
(* a match are those of the real world: a row remembers (history) the one  *)
(* it was created for. An external id is one club's or match's, so the     *)
(* index is written by source and subject. Competitions, seasons and       *)
(* players follow the pattern of teams, and are left out, as is everything *)
(* in a row but name, teams and day.                                       *)
(***************************************************************************)
EXTENDS Integers, FiniteSets

CONSTANTS Club, Match, Worker, Desk, None,
          Home, Away,         \* of a match
          Days,               \* on which sources say it is played
          Name,               \* of a club, by source: normalized
          MaxTeam, MaxFixture \* bounds: rows ever created

Source == {"api", "alternate", "file"}
Subject == Club \union Match
Session == Worker \union {Desk}

ASSUME SubjectAssumption ==
    /\ Club \intersect Match = {} /\ None \notin Subject \union Int
    /\ Home \in [Match -> Club] /\ Away \in [Match -> Club]
    /\ \A m \in Match : Home[m] # Away[m]
ASSUME WorkerAssumption == Desk \notin Worker
(* Sources differ by a day at most on one match, by more between two matches *)
(* of the same pairing, and never call two clubs by the same name.           *)
ASSUME DaysAssumption ==
    /\ Days \in [Match -> SUBSET Int]
    /\ \A m \in Match, n \in Match : \A d \in Days[m], e \in Days[n] :
           IF m = n THEN d - e \in -1..1
           ELSE Home[m] = Home[n] /\ Away[m] = Away[n] => d - e \notin -1..1
ASSUME NameAssumption ==
    \A c, d \in Club, s, t \in {"api", "file"} : Name[s][c] = Name[t][d] => c = d
ASSUME BoundAssumption == MaxTeam \in Nat /\ MaxFixture \in Nat

TeamId == 1..MaxTeam
FixtureId == 1..MaxFixture
Names == {Name[s][c] : s \in {"api", "file"}, c \in Club}
AllDays == {0} \union UNION {Days[m] : m \in Match}

TeamRow == [club : Club, name : Names]
FixtureRow == [match : Match, day : AllDays, home : TeamId, away : TeamId]
ASSUME RowAssumption == None \notin TeamRow \union FixtureRow

VARIABLES
    team,     \* the rows: None where there is none
    fixture,
    ref,      \* provider_ref_index: of a source's id, the row
    gone,     \* ids of the teams merged away
    job       \* what each session is doing, and what it has read for it
vars == <<team, fixture, ref, gone, job>>

Op == {"none", "sync_teams", "sync_fixtures", "sync_upcoming", "import", "confirm"}
PC == {"idle", "read", "save", "write"}
IdleJob == [op |-> "none", pc |-> "idle", of |-> None, day |-> 0,
            row |-> None, home |-> None, away |-> None, known |-> {}]
Job == [op : Op, pc : PC, of : Subject \union {None}, day : AllDays,
        row : TeamId \union FixtureId \union {None},
        home : TeamId \union {None}, away : TeamId \union {None}, known : SUBSET Subject]

TypeOK ==
    /\ team \in [TeamId -> TeamRow \union {None}]
    /\ fixture \in [FixtureId -> FixtureRow \union {None}]
    /\ ref \in [Source -> [Subject -> TeamId \union FixtureId \union {None}]]
    /\ gone \subseteq TeamId
    /\ job \in [Session -> Job]

Init ==
    /\ team = [i \in TeamId |-> None]
    /\ fixture = [i \in FixtureId |-> None]
    /\ ref = [s \in Source |-> [x \in Subject |-> None]]
    /\ gone = {}
    /\ job = [s \in Session |-> IdleJob]

-----------------------------------------------------------------------------
Teams == {i \in TeamId : team[i] # None}
Fixtures == {i \in FixtureId : fixture[i] # None}
FreshTeams == TeamId \ (Teams \union gone)
FreshFixtures == FixtureId \ Fixtures
Least(i, ids) == i \in ids /\ \A j \in ids : i <= j
TheOne(ids) == IF ids = {} THEN None ELSE CHOOSE i \in ids : TRUE

(* The row the index gives for an id, if it still exists: an entry whose   *)
(* row is gone counts as never seen.                                       *)
ExistingTeam(s, c) == IF ref[s][c] \in Teams THEN ref[s][c] ELSE None
ExistingFixture(s, m) == IF ref[s][m] \in Fixtures THEN ref[s][m] ELSE None

AdjacentWindow(home, away, day) ==    \* mutant: two days on either side
    {i \in Fixtures : /\ fixture[i].home = home /\ fixture[i].away = away
                      /\ fixture[i].day - day \in -2..2}

(* The fixtures of these teams within a day. *)
Window(home, away, day) ==
    {i \in Fixtures : /\ fixture[i].home = home /\ fixture[i].away = away
                      /\ fixture[i].day - day \in -1..1}

(* Another source's row of the same match: the one candidate, never a guess. *)
SameMatch(home, away, day) ==
    LET found == Window(home, away, day)
    IN  IF Cardinality(found) = 1 THEN TheOne(found) ELSE None

-----------------------------------------------------------------------------
(* Syncs of the worker. *)

Begin(w, op, x, day, row, home, away) ==
    job' = [job EXCEPT ![w] = [IdleJob EXCEPT !.op = op, !.pc = "save", !.of = x, !.day = day,
                                   !.row = row, !.home = home, !.away = away]]

(* reconcile_team of a record of the sport's default provider. *)
ReadTeam(w, c) ==
    /\ job[w].pc = "idle"
    /\ Begin(w, "sync_teams", c, 0, ExistingTeam("api", c), None, None)
    /\ UNCHANGED <<team, fixture, ref, gone>>

ReadFixtureUnmatched(w, s, m, day) ==    \* mutant: the alternate source does not match
    LET home == ExistingTeam(s, Home[m])
        away == ExistingTeam(s, Away[m])
    IN  /\ job[w].pc = "idle"
        /\ home # None /\ away # None
        /\ Begin(w, IF s = "api" THEN "sync_fixtures" ELSE "sync_upcoming", m, day,
                 ExistingFixture(s, m), home, away)
        /\ UNCHANGED <<team, fixture, ref, gone>>

(* reconcile_fixture: the record is rejected (no step) unless both teams   *)
(* are known under this source's ids. Only the syncs of an alternate source*)
(* (upcoming and completed fixtures) look for another source's row.        *)
ReadFixture(w, s, m, day) ==
    LET home == ExistingTeam(s, Home[m])
        away == ExistingTeam(s, Away[m])
        known == ExistingFixture(s, m)
    IN  /\ job[w].pc = "idle"
        /\ home # None /\ away # None
        /\ Begin(w, IF s = "api" THEN "sync_fixtures" ELSE "sync_upcoming", m, day,
                 IF known = None /\ s # "api" THEN SameMatch(home, away, day) ELSE known,
                 home, away)
        /\ UNCHANGED <<team, fixture, ref, gone>>

(* A new row is created for the subject, an old one keeps what it is of. *)
SaveTeamAs(i, c, name) ==
    team' = [team EXCEPT ![i] = [club |-> IF @ = None THEN c ELSE @.club, name |-> name]]
SaveFixtureAs(i, m, day, home, away) ==
    fixture' = [fixture EXCEPT ![i] = [match |-> IF @ = None THEN m ELSE @.match,
                                       day |-> day, home |-> home, away |-> away]]
Chosen(w, i, fresh) == IF job[w].row = None THEN Least(i, fresh) ELSE i = job[w].row
GoOn(w, i) == job' = [job EXCEPT ![w].pc = "write", ![w].row = i]

(* The upsert of the row: one merged away since is inserted again. *)
SaveTeam(w) ==
    /\ job[w].pc = "save" /\ job[w].op = "sync_teams"
    /\ \E i \in TeamId :
           /\ Chosen(w, i, FreshTeams)
           /\ SaveTeamAs(i, job[w].of, Name["api"][job[w].of])
           /\ gone' = gone \ {i}
           /\ GoOn(w, i)
    /\ UNCHANGED <<fixture, ref>>

SaveFixture(w) ==
    /\ job[w].pc = "save" /\ job[w].op \in {"sync_fixtures", "sync_upcoming"}
    /\ {job[w].home, job[w].away} \subseteq Teams
    /\ \E i \in FixtureId :
           /\ Chosen(w, i, FreshFixtures)
           /\ SaveFixtureAs(i, job[w].of, job[w].day, job[w].home, job[w].away)
           /\ GoOn(w, i)
    /\ UNCHANGED <<team, ref, gone>>

(* A team of the fixture has been merged away since: the foreign key fails, *)
(* and the run with it.                                                     *)
Refuse(w) ==
    /\ job[w].pc = "save" /\ job[w].op \in {"sync_fixtures", "sync_upcoming"}
    /\ ~({job[w].home, job[w].away} \subseteq Teams)
    /\ job' = [job EXCEPT ![w] = IdleJob]
    /\ UNCHANGED <<team, fixture, ref, gone>>

SourceOf(op) == IF op = "sync_upcoming" THEN "alternate" ELSE "api"

(* The upsert of the index entry. If another run inserts the entry between *)
(* its SELECT and its INSERT the unique key fails the run: see Abort.       *)
WriteRef(w) ==
    /\ job[w].pc = "write"
    /\ ref' = [ref EXCEPT ![SourceOf(job[w].op)][job[w].of] = job[w].row]
    /\ job' = [job EXCEPT ![w] = IdleJob]
    /\ UNCHANGED <<team, fixture, gone>>

(* The process dies, or any statement fails; a transaction is rolled back. *)
Abort(w) ==
    /\ job[w].pc # "idle"
    /\ job' = [job EXCEPT ![w] = IdleJob]
    /\ UNCHANGED <<team, fixture, ref, gone>>

-----------------------------------------------------------------------------
(* The desk: a file of one match is imported, a mapping is confirmed. Each *)
(* reads first and writes everything when its transaction commits.         *)

(* The teams called so in the catalogue: none, one, or several. *)
Called(c) == {i \in Teams : team[i].name = Name["file"][c]}

(* The catalogue of names is read once; an ambiguous name is quarantined (no *)
(* step), a known one is matched.                                            *)
ReadCatalogue(m, day) ==
    /\ job[Desk].pc = "idle"
    /\ \A c \in {Home[m], Away[m]} : Cardinality(Called(c)) <= 1
    /\ job' = [job EXCEPT ![Desk] = [IdleJob EXCEPT
                  !.op = "import", !.pc = "read", !.of = m, !.day = day,
                  !.home = TheOne(Called(Home[m])), !.away = TheOne(Called(Away[m])),
                  !.known = {c \in {Home[m], Away[m]} : Called(c) # {}}]]
    /\ UNCHANGED <<team, fixture, ref, gone>>

(* An unmatched team is the one of an earlier file, or (None) a new one. *)
TeamOfFile(c, matched) == IF matched # None THEN matched ELSE ExistingTeam("file", c)

(* The fixture's row: by its id in the file, else by teams and date. A     *)
(* matched team that has gone since fails the import.                      *)
ReadFile ==
    LET m == job[Desk].of
        home == TeamOfFile(Home[m], job[Desk].home)
        away == TeamOfFile(Away[m], job[Desk].away)
        known == ExistingFixture("file", m)
    IN  /\ job[Desk].pc = "read"
        /\ {home, away} \intersect gone = {}
        /\ job' = [job EXCEPT ![Desk].pc = "save", ![Desk].home = home, ![Desk].away = away,
                      ![Desk].row = IF known = None THEN SameMatch(home, away, job[Desk].day)
                                    ELSE known]
        /\ UNCHANGED <<team, fixture, ref, gone>>

(* The import commits: its unmatched teams with their name in the file, the *)
(* fixture, the three index entries.                                        *)
CommitFile ==
    LET m == job[Desk].of
        Rows(id) == IF id = None THEN FreshTeams ELSE {id} \intersect Teams
        Named(i, c, id) == i = id /\ c \notin job[Desk].known
        Written(i, c) == [club |-> IF team[i] = None THEN c ELSE team[i].club,
                          name |-> Name["file"][c]]
    IN  /\ job[Desk].pc = "save" /\ job[Desk].op = "import"
        /\ \E home \in Rows(job[Desk].home), away \in Rows(job[Desk].away),
              i \in FixtureId :
               /\ home # away /\ Chosen(Desk, i, FreshFixtures)
               /\ team' = [j \in TeamId |-> CASE Named(j, Home[m], home) -> Written(j, Home[m])
                                           [] Named(j, Away[m], away) -> Written(j, Away[m])
                                           [] OTHER -> team[j]]
               /\ SaveFixtureAs(i, m, job[Desk].day, home, away)
               /\ ref' = [ref EXCEPT !["file"] = [@ EXCEPT ![Home[m]] = home, ![Away[m]] = away,
                                                            ![m] = i]]
        /\ job' = [job EXCEPT ![Desk] = IdleJob]
        /\ UNCHANGED gone

(* An admin says which row the alternate source's club is: it must exist. *)
ReadMapping(i) ==
    /\ job[Desk].pc = "idle" /\ i \in Teams
    /\ job' = [job EXCEPT ![Desk] = [IdleJob EXCEPT
                  !.op = "confirm", !.pc = "save", !.of = team[i].club, !.row = i]]
    /\ UNCHANGED <<team, fixture, ref, gone>>

CommitMapping ==
    /\ job[Desk].pc = "save" /\ job[Desk].op = "confirm"
    /\ ref' = [ref EXCEPT !["alternate"][job[Desk].of] = job[Desk].row]
    /\ job' = [job EXCEPT ![Desk] = IdleJob]
    /\ UNCHANGED <<team, fixture, gone>>

-----------------------------------------------------------------------------
(* merge_duplicate_football_teams: of two rows of one club under different *)
(* names one is kept. One transaction: foreign keys and index entries are  *)
(* repointed, the other row is deleted.                                    *)
Kept(kept, lost, i) == IF i = lost THEN kept ELSE i
RepointedToNone(kept, lost) ==    \* mutant: the fixtures lose the away team
    [i \in FixtureId |-> IF fixture[i] = None THEN None
        ELSE [fixture[i] EXCEPT !.home = Kept(kept, lost, @),
                                !.away = IF @ = lost THEN None ELSE @]]

Repointed(kept, lost) ==
    [i \in FixtureId |-> IF fixture[i] = None THEN None
        ELSE [fixture[i] EXCEPT !.home = Kept(kept, lost, @), !.away = Kept(kept, lost, @)]]

MergeForeignKeys(kept, lost) ==    \* mutant: the index, which has no foreign key, is forgotten
    /\ {kept, lost} \subseteq Teams
    /\ team[kept].club = team[lost].club /\ team[kept].name # team[lost].name
    /\ team' = [team EXCEPT ![lost] = None]
    /\ fixture' = Repointed(kept, lost)
    /\ gone' = gone \union {lost}
    /\ UNCHANGED <<ref, job>>

Merge(kept, lost) ==
    /\ {kept, lost} \subseteq Teams
    /\ team[kept].club = team[lost].club /\ team[kept].name # team[lost].name
    /\ team' = [team EXCEPT ![lost] = None]
    /\ fixture' = Repointed(kept, lost)
    /\ ref' = [s \in Source |-> [x \in Subject |->
                  IF x \in Club THEN Kept(kept, lost, ref[s][x]) ELSE ref[s][x]]]
    /\ gone' = gone \union {lost}
    /\ UNCHANGED job

-----------------------------------------------------------------------------
Sync(w) ==
    \/ \E c \in Club : ReadTeam(w, c)
    \/ \E s \in {"api", "alternate"}, m \in Match, day \in AllDays :
           day \in Days[m] /\ ReadFixture(w, s, m, day)
    \/ SaveTeam(w) \/ SaveFixture(w) \/ Refuse(w) \/ WriteRef(w)
Office ==
    \/ \E m \in Match, day \in AllDays : day \in Days[m] /\ ReadCatalogue(m, day)
    \/ ReadFile \/ CommitFile
    \/ \E i \in TeamId : ReadMapping(i)
    \/ CommitMapping
    \/ \E kept, lost \in TeamId : Merge(kept, lost)
Next == (\E w \in Worker : Sync(w)) \/ Office \/ (\E w \in Session : Abort(w))

Spec == Init /\ [][Next]_vars

-----------------------------------------------------------------------------
(* Every entry of the index that is not left over from a merged team leads  *)
(* to a row, and every fixture is between teams that exist.                 *)
RefsAreLive ==
    /\ \A s \in Source, c \in Club : ref[s][c] \in Teams \union gone \union {None}
    /\ \A s \in Source, m \in Match : ref[s][m] \in Fixtures \union {None}
    /\ \A i \in Fixtures : {fixture[i].home, fixture[i].away} \subseteq Teams

(* Nothing is ever taken for something else: an id of a club or match leads *)
(* to a row made for that club or match, and a match is between its clubs,  *)
(* however the syncs, imports, mappings and merges interleave.              *)
NoMixUp ==
    /\ \A s \in Source, c \in Club : ref[s][c] \in Teams => team[ref[s][c]].club = c
    /\ \A s \in Source, m \in Match : ref[s][m] # None => fixture[ref[s][m]].match = m
    /\ \A i \in Fixtures : /\ team[fixture[i].home].club = Home[fixture[i].match]
                           /\ team[fixture[i].away].club = Away[fixture[i].match]
=============================================================================
