--------------------- MODULE EntityReconciliationProofs ---------------------
(* Proofs about EntityReconciliation.                                        *)
EXTENDS MCEntityReconciliation, FiniteSetTheorems, TLAPS

-----------------------------------------------------------------------------
(* The club an id of a team stands for is decided when its row is first made *)
(* and outlives the row: every row, entry of the index and job that uses the *)
(* id means this club.                                                       *)
Means(owner, i, c) == i \in Teams \union gone /\ owner[i] = c

OfFixture(j, m) == j.row # None => j.row \in Fixtures /\ fixture[j.row].match = m

(* What a job has read and still relies on. *)
TeamJob(owner, j) ==
    j.op \in {"sync_teams", "confirm"} =>
        j.of \in Club /\ (j.row # None => Means(owner, j.row, j.of))
FixtureJob(owner, j) ==
    j.op \in {"sync_fixtures", "sync_upcoming", "import"} =>
        /\ j.of \in Match /\ j.day \in Days[j.of]
        /\ j.home # None => Means(owner, j.home, Home[j.of])
        /\ j.away # None => Means(owner, j.away, Away[j.of])
        /\ OfFixture(j, j.of)
ImportJob(j) ==
    j.op = "import" => /\ j.home = None => Home[j.of] \notin j.known
                       /\ j.away = None => Away[j.of] \notin j.known
Stage(j) ==
    /\ j.pc = "idle" => j.op = "none"
    /\ j.pc = "read" => j.op = "import"
    /\ j.pc = "save" => j.op # "none"
    /\ j.pc = "write" => j.op \in {"sync_teams", "sync_fixtures", "sync_upcoming"} /\ j.row # None
    /\ j.op = "confirm" => j.row # None
JobOK(owner, j) == TeamJob(owner, j) /\ FixtureJob(owner, j) /\ ImportJob(j) /\ Stage(j)

RowsMean(owner) == \A i \in Teams : team[i].club = owner[i]
RefsMean(owner) == \A s \in Source, c \in Club : ref[s][c] # None => owner[ref[s][c]] = c
JobsMean(owner) == \A s \in Session : JobOK(owner, job[s])
Owned(owner) == RowsMean(owner) /\ RefsMean(owner) /\ JobsMean(owner)

NamedAsClub == \A i \in Teams : \E s \in {"api", "file"} : team[i].name = Name[s][team[i].club]
PlayedOnItsDays == \A i \in Fixtures : fixture[i].day \in Days[fixture[i].match]


Owner == [TeamId -> Club \union {None}]
IInv == /\ TypeOK /\ RefsAreLive /\ NoMixUp /\ NamedAsClub /\ PlayedOnItsDays
        /\ \E owner \in Owner : Owned(owner)

-----------------------------------------------------------------------------
(* None is no id and no subject, and a team is no club. *)
LEMMA NoneApart ==
    /\ None \notin Int /\ None \notin Subject
    /\ \A i \in TeamId \union FixtureId : i \in Int /\ i # None
    /\ \A m \in Match : m \notin Club /\ m \in Subject /\ Home[m] \in Club /\ Away[m] \in Club
                        /\ Home[m] # Away[m]
    /\ \A c \in Club : c \in Subject /\ c \notin Match
  <1>1. \A i \in TeamId \union FixtureId : i \in Int
    BY DEF TeamId, FixtureId
  <1> QED BY <1>1, SubjectAssumption DEF Subject

(* The rows and jobs of a well-typed state, field by field. *)
LEMMA Fields ==
    ASSUME TypeOK
    PROVE  /\ \A i \in Teams : /\ i \in TeamId /\ team[i] \in TeamRow
                               /\ team[i].club \in Club /\ team[i].name \in Names
           /\ \A i \in Fixtures :
                 /\ i \in FixtureId /\ fixture[i] \in FixtureRow
                 /\ fixture[i].match \in Match /\ fixture[i].day \in AllDays
                 /\ fixture[i].home \in TeamId /\ fixture[i].away \in TeamId
           /\ \A s \in Session : job[s] \in Job
  BY DEF TypeOK, Teams, Fixtures, TeamRow, FixtureRow

(* A set with one element has one to choose. *)
LEMMA ChosenOne ==
    ASSUME NEW ids, TheOne(ids) # None
    PROVE  TheOne(ids) \in ids
  BY DEF TheOne

(* Two matches of one pairing are never within a day of each other, so the   *)
(* fixture of these teams found within a day of one of its days is the       *)
(* match's own.                                                              *)
LEMMA SameMatchIsTheMatch ==
    ASSUME TypeOK, RefsAreLive, NoMixUp, PlayedOnItsDays,
           NEW owner, RowsMean(owner), NEW m \in Match, NEW day \in Days[m],
           NEW home, NEW away,
           home # None => owner[home] = Home[m], away # None => owner[away] = Away[m],
           SameMatch(home, away, day) # None
    PROVE  /\ SameMatch(home, away, day) \in Fixtures
           /\ fixture[SameMatch(home, away, day)].match = m
  <1> DEFINE i == SameMatch(home, away, day)
  <1>1. i \in Window(home, away, day)
    BY ChosenOne DEF SameMatch
  <1> HIDE DEF i
  <1>2. /\ i \in Fixtures /\ fixture[i].home = home /\ fixture[i].away = away
        /\ fixture[i].day - day \in -1..1
    BY <1>1 DEF Window
  <1>3. home \in Teams /\ away \in Teams /\ home # None /\ away # None
    BY <1>2, Fields, NoneApart DEF RefsAreLive
  <1>4. /\ Home[fixture[i].match] = Home[m] /\ Away[fixture[i].match] = Away[m]
    BY <1>2, <1>3 DEF NoMixUp, RowsMean
  <1>5. fixture[i].match \in Match /\ fixture[i].day \in Days[fixture[i].match]
    BY <1>2, Fields DEF PlayedOnItsDays
  <1>6. fixture[i].match = m
    BY <1>2, <1>4, <1>5, DaysAssumption
  <1> QED BY <1>2, <1>6 DEF i

(* Normalized names tell clubs apart: a team called as a file calls a club is *)
(* that club's.                                                               *)
LEMMA CalledIsTheClub ==
    ASSUME TypeOK, NamedAsClub, NEW c \in Club, NEW i \in Called(c)
    PROVE  i \in Teams /\ team[i].club = c
  <1>1. i \in Teams /\ team[i].name = Name["file"][c]
    BY DEF Called
  <1>2. PICK s \in {"api", "file"} : team[i].name = Name[s][team[i].club]
    BY <1>1 DEF NamedAsClub
  <1>3. team[i].club \in Club
    BY <1>1, Fields
  <1> QED BY <1>1, <1>2, <1>3, NameAssumption

(* What a job relies on survives every step that keeps the rows of matches   *)
(* and the meaning of the ids.                                               *)
LEMMA JobsSurvive ==
    ASSUME NEW owner, NEW new,
           Teams \union gone \subseteq (Teams \union gone)',
           \A i \in Teams \union gone : new[i] = owner[i],
           \A i \in Fixtures : i \in Fixtures' /\ fixture'[i].match = fixture[i].match
    PROVE  \A j : JobOK(owner, j) => JobOK(new, j)'
  <1> TAKE j
  <1>1. \A i, c : Means(owner, i, c) => Means(new, i, c)'
    BY DEF Means
  <1>2. \A m : OfFixture(j, m) => OfFixture(j, m)'
    BY DEF OfFixture
  <1>3. TeamJob(owner, j) => TeamJob(new, j)'
    BY <1>1 DEF TeamJob
  <1>4. FixtureJob(owner, j) => FixtureJob(new, j)'
    BY <1>1, <1>2 DEF FixtureJob
  <1>5. (ImportJob(j) => ImportJob(j)') /\ (Stage(j) => Stage(j)')
    BY DEF ImportJob, Stage
  <1> QED BY <1>3, <1>4, <1>5 DEF JobOK

(* A step that only changes what one session is doing. *)
LEMMA LocalStep ==
    ASSUME IInv, NEW owner \in Owner, Owned(owner),
           NEW s \in Session, NEW j \in Job, JobOK(owner, j),
           job' = [job EXCEPT ![s] = j], UNCHANGED <<team, fixture, ref, gone>>
    PROVE  IInv'
  <1>1. TypeOK'
    BY DEF IInv, TypeOK
  <1>2. Teams' = Teams /\ Fixtures' = Fixtures /\ gone' = gone
    BY DEF Teams, Fixtures
  <1>3. RefsAreLive' /\ NoMixUp' /\ NamedAsClub' /\ PlayedOnItsDays'
    BY <1>2 DEF IInv, RefsAreLive, NoMixUp, NamedAsClub, PlayedOnItsDays
  <1>4. RowsMean(owner)' /\ RefsMean(owner)'
    BY <1>2 DEF Owned, RowsMean, RefsMean
  <1>5. \A k : JobOK(owner, k) => JobOK(owner, k)'
    BY <1>2, JobsSurvive
  <1>6. ASSUME NEW r \in Session PROVE JobOK(owner, job[r])'
    <2>1. job'[r] = (IF r = s THEN j ELSE job[r])
      BY DEF IInv, TypeOK
    <2>2. JobOK(owner, job[r])
      BY DEF Owned, JobsMean
    <2> QED BY <1>5, <2>1, <2>2
  <1> QED BY <1>1, <1>3, <1>4, <1>6 DEF IInv, Owned, JobsMean

(* A session that does nothing relies on nothing. *)
LEMMA IdleIsOK ==
    ASSUME NEW owner
    PROVE  IdleJob \in Job /\ JobOK(owner, IdleJob)
  <1>1. IdleJob \in Job
    BY DEF IdleJob, Job, Op, PC, AllDays
  <1>2. JobOK(owner, IdleJob)
    BY NoneApart DEF IdleJob, JobOK, TeamJob, FixtureJob, ImportJob, Stage
  <1> QED BY <1>1, <1>2

(* The row the index gives for a club's id is a row of that club. *)
LEMMA ExistingMeans ==
    ASSUME IInv, NEW owner \in Owner, Owned(owner),
           NEW s \in Source, NEW c \in Club, ExistingTeam(s, c) # None
    PROVE  /\ ExistingTeam(s, c) \in Teams /\ ExistingTeam(s, c) \in TeamId
           /\ Means(owner, ExistingTeam(s, c), c)
  <1>1. ExistingTeam(s, c) = ref[s][c] /\ ref[s][c] \in Teams /\ ref[s][c] # None
    BY DEF ExistingTeam
  <1> QED BY <1>1 DEF Owned, RefsMean, Means, Teams

(* The row the index gives for a match's id is a row of that match. *)
LEMMA ExistingIsTheMatch ==
    ASSUME IInv, NEW s \in Source, NEW m \in Match, ExistingFixture(s, m) # None
    PROVE  /\ ExistingFixture(s, m) \in Fixtures
           /\ fixture[ExistingFixture(s, m)].match = m
  BY DEF ExistingFixture, IInv, NoMixUp

(* The sync of a club remembers the row the index gives, one of that club. *)
LEMMA ReadTeamStep ==
    ASSUME IInv, NEW w \in Session, NEW c \in Club, ReadTeam(w, c)
    PROVE  IInv'
  <1>1. PICK owner \in Owner : Owned(owner)
    BY DEF IInv
  <1> DEFINE row == ExistingTeam("api", c)
             j == [IdleJob EXCEPT !.op = "sync_teams", !.pc = "save", !.of = c, !.day = 0,
                                  !.row = row, !.home = None, !.away = None]
  <1>2. row # None => row \in TeamId /\ Means(owner, row, c)
    BY <1>1, ExistingMeans DEF Source
  <1> HIDE DEF row
  <1>3. /\ j.op = "sync_teams" /\ j.pc = "save" /\ j.of = c /\ j.row = row
        /\ j \in Job
    BY <1>2, NoneApart DEF IdleJob, Job, Op, PC, AllDays
  <1>4. job' = [job EXCEPT ![w] = j]
    BY DEF ReadTeam, Begin, row
  <1> HIDE DEF j
  <1>5. JobOK(owner, j)
    BY <1>2, <1>3 DEF JobOK, TeamJob, FixtureJob, ImportJob, Stage
  <1> QED BY <1>1, <1>3, <1>4, <1>5, LocalStep DEF ReadTeam

(* The sync of a match remembers the rows of its two clubs, and of the *)
(* match itself, found by its id or by its teams and day.              *)
LEMMA ReadFixtureStep ==
    ASSUME IInv, NEW w \in Session, NEW s \in {"api", "alternate"}, NEW m \in Match,
           NEW day \in Days[m], ReadFixture(w, s, m, day)
    PROVE  IInv'
  <1>1. PICK owner \in Owner : Owned(owner)
    BY DEF IInv
  <1> DEFINE home == ExistingTeam(s, Home[m])
             away == ExistingTeam(s, Away[m])
             known == ExistingFixture(s, m)
             row == IF known = None /\ s # "api" THEN SameMatch(home, away, day) ELSE known
             op == IF s = "api" THEN "sync_fixtures" ELSE "sync_upcoming"
             j == [IdleJob EXCEPT !.op = op, !.pc = "save", !.of = m, !.day = day,
                                  !.row = row, !.home = home, !.away = away]
  <1>2. home # None /\ away # None
    BY DEF ReadFixture
  <1>3. /\ home \in TeamId /\ Means(owner, home, Home[m])
        /\ away \in TeamId /\ Means(owner, away, Away[m])
    BY <1>1, <1>2, ExistingMeans, NoneApart DEF Source
  <1>4. row # None => row \in Fixtures /\ fixture[row].match = m
    <2>1. CASE known = None /\ s # "api"
      BY <1>1, <1>3, <2>1, SameMatchIsTheMatch DEF IInv, Owned, Means
    <2>2. CASE ~(known = None /\ s # "api")
      BY <2>2, ExistingIsTheMatch DEF Source
    <2> QED BY <2>1, <2>2
  <1>5. job' = [job EXCEPT ![w] = j]
    BY DEF ReadFixture, Begin
  <1> HIDE DEF home, away, known, row
  <1>6. /\ j.op = op /\ j.pc = "save" /\ j.of = m /\ j.day = day /\ j.row = row
        /\ j.home = home /\ j.away = away /\ j \in Job
    BY <1>3, <1>4, NoneApart DEF IdleJob, Job, Op, PC, AllDays, Fixtures
  <1>7. op \in {"sync_fixtures", "sync_upcoming"}
    OBVIOUS
  <1> HIDE DEF j, op
  <1>8. JobOK(owner, j)
    BY <1>3, <1>4, <1>6, <1>7, NoneApart DEF JobOK, TeamJob, FixtureJob, ImportJob, Stage, OfFixture
  <1> QED BY <1>1, <1>5, <1>6, <1>8, LocalStep DEF ReadFixture

(* A job that is refused or fails forgets what it has read. *)
LEMMA EndStep ==
    ASSUME IInv, NEW s \in Session, Refuse(s) \/ Abort(s)
    PROVE  IInv'
  <1>1. PICK owner \in Owner : Owned(owner)
    BY DEF IInv
  <1> QED BY <1>1, IdleIsOK, LocalStep DEF Refuse, Abort

(* The jobs after a step of one session that keeps the meaning of the ids. *)
LEMMA JobsAfter ==
    ASSUME IInv, NEW owner, JobsMean(owner), NEW new,
           Teams \union gone \subseteq (Teams \union gone)',
           \A i \in Teams \union gone : new[i] = owner[i],
           \A i \in Fixtures : i \in Fixtures' /\ fixture'[i].match = fixture[i].match,
           NEW s \in Session, NEW j \in Job, JobOK(new, j)', job' = [job EXCEPT ![s] = j]
    PROVE  JobsMean(new)' /\ job' \in [Session -> Job]
  <1>1. \A k : JobOK(owner, k) => JobOK(new, k)'
    BY JobsSurvive
  <1>2. job' \in [Session -> Job]
    BY DEF IInv, TypeOK
  <1>3. ASSUME NEW r \in Session PROVE JobOK(new, job[r])'
    <2>1. job'[r] = (IF r = s THEN j ELSE job[r])
      BY DEF IInv, TypeOK
    <2>2. JobOK(owner, job[r])
      BY DEF JobsMean
    <2> QED BY <1>1, <2>1, <2>2
  <1> QED BY <1>2, <1>3 DEF JobsMean

(* The job of a session that goes on to write the index entry of row i. *)
LEMMA GoOnJob ==
    ASSUME IInv, NEW w \in Session, NEW i \in TeamId \union FixtureId, GoOn(w, i)
    PROVE  /\ [job[w] EXCEPT !.pc = "write", !.row = i] \in Job
           /\ job' = [job EXCEPT ![w] = [job[w] EXCEPT !.pc = "write", !.row = i]]
  <1>1. job[w] \in Job /\ job \in [Session -> Job]
    BY DEF IInv, TypeOK
  <1>2. [job[w] EXCEPT !.pc = "write", !.row = i] \in Job
    BY <1>1 DEF Job, PC
  <1>3. job' = [job EXCEPT ![w] = [job[w] EXCEPT !.pc = "write", !.row = i]]
    BY <1>1 DEF GoOn
  <1> QED BY <1>2, <1>3

(* A team's row is written: a fresh id gets its club now, an old one, be it *)
(* merged away, is written for the club it has always had.                  *)
LEMMA SaveTeamStep ==
    ASSUME IInv, NEW w \in Session, SaveTeam(w)
    PROVE  IInv'
  <1>1. PICK owner \in Owner : Owned(owner)
    BY DEF IInv
  <1>2. PICK i \in TeamId : /\ Chosen(w, i, FreshTeams)
                            /\ SaveTeamAs(i, job[w].of, Name["api"][job[w].of])
                            /\ gone' = gone \ {i}
                            /\ GoOn(w, i)
    BY DEF SaveTeam
  <1>c. PICK c : c = job[w].of
    OBVIOUS
  <1>k. PICK k : k = [job[w] EXCEPT !.pc = "write", !.row = i]
    OBVIOUS
  <1>new. PICK new : new = [owner EXCEPT ![i] = c]
    OBVIOUS
  <1>3. job[w].op = "sync_teams" /\ job[w] \in Job /\ UNCHANGED <<fixture, ref>>
    BY Fields DEF SaveTeam, IInv
  <1>4. JobOK(owner, job[w])
    BY <1>1 DEF Owned, JobsMean
  <1>5. c \in Club /\ (job[w].row # None => Means(owner, job[w].row, c))
    BY <1>3, <1>4, <1>c DEF JobOK, TeamJob
  <1>6. i \in Teams \union gone => owner[i] = c
    BY <1>2, <1>5 DEF Chosen, Least, FreshTeams, Means
  <1>7. /\ new \in Owner /\ new[i] = c
        /\ \A x \in TeamId : x # i => new[x] = owner[x]
        /\ \A x \in Teams \union gone : new[x] = owner[x]
    BY <1>5, <1>6, <1>new DEF IInv, TypeOK, Teams, Owner
  <1> DEFINE row == [club |-> IF team[i] = None THEN c ELSE team[i].club, name |-> Name["api"][c]]
  <1>8. team' = [team EXCEPT ![i] = row]
    BY <1>2, <1>c DEF SaveTeamAs, IInv, TypeOK
  <1>9. row.club = c /\ row.name = Name["api"][c] /\ row \in TeamRow /\ row # None
    <2>1. i \in Teams => team[i].club = c
      BY <1>1, <1>6 DEF Owned, RowsMean
    <2>2. row.club = c /\ Name["api"][c] \in Names
      BY <1>2, <1>5, <2>1 DEF Teams, Names
    <2> QED BY <1>5, <2>2, RowAssumption DEF TeamRow
  <1> HIDE DEF row
  <1>10. /\ team' \in [TeamId -> TeamRow \union {None}] /\ team'[i] = row
         /\ \A x \in TeamId : x # i => team'[x] = team[x]
         /\ Teams' = Teams \union {i} /\ Fixtures' = Fixtures
         /\ (Teams \union gone)' = Teams \union gone \union {i}
    BY <1>2, <1>3, <1>8, <1>9 DEF IInv, TypeOK, Teams, Fixtures
  <1>11. k \in Job /\ job' = [job EXCEPT ![w] = k]
    BY <1>2, <1>k, GoOnJob
  <1>12. JobOK(new, k)'
    <2>1. k.op = "sync_teams" /\ k.pc = "write" /\ k.row = i /\ k.of = c
      BY <1>3, <1>c, <1>k DEF Job
    <2>2. i # None
      BY NoneApart
    <2>3. TeamJob(new, k)'
      BY <1>5, <1>7, <1>10, <2>1 DEF TeamJob, Means
    <2> QED BY <2>1, <2>2, <2>3 DEF JobOK, FixtureJob, ImportJob, Stage
  <1>13. JobsMean(new)' /\ job' \in [Session -> Job]
    <2>1. \A x \in Fixtures : x \in Fixtures' /\ fixture'[x].match = fixture[x].match
      BY <1>3, <1>10
    <2> QED BY <1>1, <1>7, <1>10, <1>11, <1>12, <2>1, JobsAfter DEF Owned
  <1>14. TypeOK'
    BY <1>2, <1>3, <1>10, <1>13 DEF IInv, TypeOK
  <1>15. RefsAreLive'
    BY <1>3, <1>10 DEF IInv, RefsAreLive
  <1>16. RowsMean(new)' /\ RefsMean(new)'
    <2>1. RowsMean(new)'
      BY <1>1, <1>7, <1>9, <1>10 DEF Owned, RowsMean, Teams
    <2>2. RefsMean(new)'
      BY <1>1, <1>3, <1>7 DEF Owned, RefsMean, IInv, RefsAreLive
    <2> QED BY <2>1, <2>2
  <1>17. \A x \in Teams : team'[x].club = team[x].club
    BY <1>1, <1>6, <1>9, <1>10 DEF Owned, RowsMean, Teams
  <1>18. NoMixUp'
    <2>1. \A s \in Source, d \in Club : ref'[s][d] \in Teams' => team'[ref'[s][d]].club = d
      BY <1>3, <1>7, <1>10, <1>16, NoneApart DEF RowsMean, RefsMean, Teams
    <2>2. \A s \in Source, m \in Match : ref'[s][m] # None => fixture'[ref'[s][m]].match = m
      BY <1>3 DEF IInv, NoMixUp
    <2>3. \A x \in Fixtures' :
             /\ team'[fixture'[x].home].club = Home[fixture'[x].match]
             /\ team'[fixture'[x].away].club = Away[fixture'[x].match]
      BY <1>3, <1>10, <1>17 DEF IInv, NoMixUp, RefsAreLive
    <2> QED BY <2>1, <2>2, <2>3 DEF NoMixUp
  <1>19. NamedAsClub'
    <2>1. team'[i].name = Name["api"][team'[i].club]
      BY <1>9, <1>10
    <2>2. \A x \in Teams : x # i => team'[x] = team[x]
      BY <1>10 DEF Teams
    <2> QED BY <1>10, <2>1, <2>2 DEF IInv, NamedAsClub
  <1>20. PlayedOnItsDays'
    BY <1>3, <1>10 DEF IInv, PlayedOnItsDays
  <1> QED BY <1>7, <1>13, <1>14, <1>15, <1>16, <1>18, <1>19, <1>20 DEF IInv, Owned

(* The row of a fixture that is written keeps, or is given, its match. *)
LEMMA SaveFixtureAsStep ==
    ASSUME IInv, NEW i \in FixtureId, NEW m \in Match, NEW day \in Days[m],
           NEW home \in TeamId, NEW away \in TeamId, SaveFixtureAs(i, m, day, home, away),
           i \in Fixtures => fixture[i].match = m
    PROVE  /\ fixture' \in [FixtureId -> FixtureRow \union {None}]
           /\ Fixtures' = Fixtures \union {i}
           /\ \A x \in FixtureId : x # i => fixture'[x] = fixture[x]
           /\ fixture'[i].match = m /\ fixture'[i].day = day
           /\ fixture'[i].home = home /\ fixture'[i].away = away
           /\ \A x \in Fixtures : fixture'[x].match = fixture[x].match
           /\ PlayedOnItsDays'
  <1> DEFINE row == [match |-> IF fixture[i] = None THEN m ELSE fixture[i].match,
                     day |-> day, home |-> home, away |-> away]
  <1>1. fixture' = [fixture EXCEPT ![i] = row]
    BY DEF SaveFixtureAs, IInv, TypeOK
  <1>2. row \in FixtureRow /\ row # None
    <2>1. day \in AllDays
      BY DEF AllDays
    <2>2. row.match = m
      BY DEF Fixtures
    <2> QED BY <2>1, <2>2, RowAssumption DEF FixtureRow
  <1>3. row.match = m /\ row.day = day /\ row.home = home /\ row.away = away
    BY DEF Fixtures
  <1> HIDE DEF row
  <1>4. /\ fixture' \in [FixtureId -> FixtureRow \union {None}] /\ fixture'[i] = row
        /\ \A x \in FixtureId : x # i => fixture'[x] = fixture[x]
    BY <1>1, <1>2 DEF IInv, TypeOK
  <1>5. Fixtures' = Fixtures \union {i}
    BY <1>2, <1>4 DEF Fixtures
  <1>6. \A x \in Fixtures : fixture'[x].match = fixture[x].match
    BY <1>3, <1>4 DEF Fixtures
  <1>7. PlayedOnItsDays'
    BY <1>3, <1>4, <1>5 DEF PlayedOnItsDays, IInv, Fixtures
  <1> QED BY <1>3, <1>4, <1>5, <1>6, <1>7

(* A fixture's row is written between teams that still exist; what the *)
(* other jobs have read of matches stays true.                         *)
LEMMA SaveFixtureStep ==
    ASSUME IInv, NEW w \in Session, SaveFixture(w)
    PROVE  IInv'
  <1>1. PICK owner \in Owner : Owned(owner)
    BY DEF IInv
  <1>m. PICK m : m = job[w].of
    OBVIOUS
  <1>h. PICK home : home = job[w].home
    OBVIOUS
  <1>a. PICK away : away = job[w].away
    OBVIOUS
  <1>d. PICK day : day = job[w].day
    OBVIOUS
  <1>2. PICK i \in FixtureId : /\ Chosen(w, i, FreshFixtures)
                               /\ SaveFixtureAs(i, m, day, home, away)
                               /\ GoOn(w, i)
    BY <1>m, <1>h, <1>a, <1>d DEF SaveFixture
  <1>k. PICK k : k = [job[w] EXCEPT !.pc = "write", !.row = i]
    OBVIOUS
  <1>3. /\ job[w].op \in {"sync_fixtures", "sync_upcoming"} /\ job[w] \in Job
        /\ home \in Teams /\ away \in Teams /\ home \in TeamId /\ away \in TeamId
        /\ UNCHANGED <<team, ref, gone>>
    BY Fields, <1>h, <1>a DEF SaveFixture, IInv
  <1>4. FixtureJob(owner, job[w])
    BY <1>1 DEF Owned, JobsMean, JobOK
  <1>5. /\ m \in Match /\ day \in Days[m]
        /\ Means(owner, home, Home[m]) /\ Means(owner, away, Away[m])
        /\ job[w].row # None => job[w].row \in Fixtures /\ fixture[job[w].row].match = m
    BY <1>3, <1>4, <1>m, <1>h, <1>a, <1>d, NoneApart DEF FixtureJob, OfFixture
  <1>6. i \in Fixtures => fixture[i].match = m
    BY <1>2, <1>5 DEF Chosen, Least, FreshFixtures
  <1>7. /\ fixture' \in [FixtureId -> FixtureRow \union {None}]
        /\ Fixtures' = Fixtures \union {i}
        /\ \A x \in FixtureId : x # i => fixture'[x] = fixture[x]
        /\ fixture'[i].match = m /\ fixture'[i].home = home /\ fixture'[i].away = away
        /\ \A x \in Fixtures : fixture'[x].match = fixture[x].match
        /\ PlayedOnItsDays'
    BY <1>2, <1>3, <1>5, <1>6, SaveFixtureAsStep
  <1>8. Teams' = Teams /\ gone' = gone /\ team' = team /\ ref' = ref
    BY <1>3 DEF Teams
  <1>9. k \in Job /\ job' = [job EXCEPT ![w] = k]
    BY <1>2, <1>k, GoOnJob
  <1>10. JobOK(owner, k)'
    <2>1. /\ k.op = job[w].op /\ k.pc = "write" /\ k.row = i /\ k.of = m /\ k.day = day
          /\ k.home = home /\ k.away = away
      BY <1>3, <1>k, <1>m, <1>h, <1>a, <1>d DEF Job
    <2>2. k.op \in {"sync_fixtures", "sync_upcoming"} /\ i # None
      BY <1>3, <2>1, NoneApart
    <2>3. FixtureJob(owner, k)'
      BY <1>5, <1>7, <1>8, <2>1 DEF FixtureJob, OfFixture, Means
    <2> QED BY <2>1, <2>2, <2>3 DEF JobOK, TeamJob, ImportJob, Stage
  <1>11. JobsMean(owner)' /\ job' \in [Session -> Job]
    BY <1>1, <1>7, <1>8, <1>9, <1>10, JobsAfter DEF Owned
  <1>12. TypeOK'
    BY <1>7, <1>8, <1>11 DEF IInv, TypeOK
  <1>13. RefsAreLive'
    <2>1. \A x \in Fixtures' : fixture'[x].home \in Teams /\ fixture'[x].away \in Teams
      BY <1>3, <1>7 DEF IInv, RefsAreLive, Fixtures
    <2> QED BY <1>7, <1>8, <2>1 DEF IInv, RefsAreLive
  <1>14. NoMixUp'
    <2>1. \A x \in Fixtures' : /\ team[fixture'[x].home].club = Home[fixture'[x].match]
                               /\ team[fixture'[x].away].club = Away[fixture'[x].match]
      BY <1>1, <1>3, <1>5, <1>7 DEF IInv, NoMixUp, Fixtures, Owned, RowsMean, Means
    <2>2. \A s \in Source, n \in Match : ref[s][n] # None => fixture'[ref[s][n]].match = n
      BY <1>7 DEF IInv, NoMixUp, RefsAreLive
    <2> QED BY <1>8, <2>1, <2>2 DEF IInv, NoMixUp
  <1>15. RowsMean(owner)' /\ RefsMean(owner)' /\ NamedAsClub'
    BY <1>1, <1>8 DEF IInv, Owned, RowsMean, RefsMean, NamedAsClub
  <1> QED BY <1>7, <1>11, <1>12, <1>13, <1>14, <1>15 DEF IInv, Owned

(* One entry of the index is written: it means what the others mean. *)
LEMMA RefStep ==
    ASSUME IInv, NEW owner \in Owner, Owned(owner), NEW w \in Session,
           NEW s \in Source, NEW x \in Subject, NEW row,
           x \in Club => row \in TeamId /\ Means(owner, row, x),
           x \in Match => row \in Fixtures /\ fixture[row].match = x,
           ref' = [ref EXCEPT ![s][x] = row], job' = [job EXCEPT ![w] = IdleJob],
           UNCHANGED <<team, fixture, gone>>
    PROVE  IInv'
  <1>1. Teams' = Teams /\ Fixtures' = Fixtures /\ gone' = gone /\ team' = team
        /\ fixture' = fixture
    BY DEF Teams, Fixtures
  <1>2. row \in TeamId \union FixtureId
    BY DEF Subject, Fixtures
  <1>3. /\ ref' \in [Source -> [Subject -> TeamId \union FixtureId \union {None}]]
        /\ \A t \in Source, y \in Subject :
               ref'[t][y] = IF t = s /\ y = x THEN row ELSE ref[t][y]
    BY <1>2 DEF IInv, TypeOK
  <1>4. IdleJob \in Job /\ JobOK(owner, IdleJob)
    BY IdleIsOK
  <1>5. JobOK(owner, IdleJob)'
    BY <1>1, <1>4, JobsSurvive
  <1>6. JobsMean(owner)' /\ job' \in [Session -> Job]
    BY <1>1, <1>4, <1>5, JobsAfter DEF Owned
  <1>7. TypeOK'
    BY <1>1, <1>3, <1>6 DEF IInv, TypeOK
  <1>8. RefsAreLive'
    <2>1. \A t \in Source, c \in Club : ref'[t][c] \in Teams \union gone \union {None}
      BY <1>3, NoneApart DEF IInv, RefsAreLive, Means
    <2>2. \A t \in Source, m \in Match : ref'[t][m] \in Fixtures \union {None}
      BY <1>3, NoneApart DEF IInv, RefsAreLive
    <2> QED BY <1>1, <2>1, <2>2 DEF IInv, RefsAreLive
  <1>9. NoMixUp'
    <2>1. \A t \in Source, c \in Club : ref'[t][c] \in Teams => team[ref'[t][c]].club = c
      BY <1>3, NoneApart DEF IInv, NoMixUp, Means, Owned, RowsMean
    <2>2. \A t \in Source, m \in Match : ref'[t][m] # None => fixture[ref'[t][m]].match = m
      BY <1>3, NoneApart DEF IInv, NoMixUp
    <2> QED BY <1>1, <2>1, <2>2 DEF IInv, NoMixUp
  <1>10. RefsMean(owner)'
    BY <1>3, NoneApart DEF Owned, RefsMean, Means
  <1>11. RowsMean(owner)' /\ NamedAsClub' /\ PlayedOnItsDays'
    BY <1>1 DEF IInv, Owned, RowsMean, NamedAsClub, PlayedOnItsDays
  <1> QED BY <1>6, <1>7, <1>8, <1>9, <1>10, <1>11 DEF IInv, Owned

(* The sync enters the row it wrote under the id it was about. *)
LEMMA WriteRefStep ==
    ASSUME IInv, NEW w \in Session, WriteRef(w)
    PROVE  IInv'
  <1>1. PICK owner \in Owner : Owned(owner)
    BY DEF IInv
  <1>2. JobOK(owner, job[w]) /\ job[w] \in Job
    BY <1>1, Fields DEF Owned, JobsMean, IInv
  <1>3. /\ job[w].op \in {"sync_teams", "sync_fixtures", "sync_upcoming"}
        /\ job[w].row # None
    BY <1>2 DEF WriteRef, JobOK, Stage
  <1>4. job[w].of \in Subject /\ SourceOf(job[w].op) \in Source
    BY <1>2, <1>3, NoneApart DEF SourceOf, Source, JobOK, TeamJob, FixtureJob
  <1>5. job[w].of \in Club => job[w].row \in TeamId /\ Means(owner, job[w].row, job[w].of)
    BY <1>2, <1>3, NoneApart DEF JobOK, TeamJob, FixtureJob, Means, IInv, TypeOK, Teams
  <1>6. job[w].of \in Match =>
            job[w].row \in Fixtures /\ fixture[job[w].row].match = job[w].of
    BY <1>2, <1>3, NoneApart DEF JobOK, TeamJob, FixtureJob, OfFixture
  <1> QED BY <1>1, <1>4, <1>5, <1>6, RefStep DEF WriteRef

-----------------------------------------------------------------------------
(* The desk's steps. *)

(* The import remembers, of each club, the one team called so, or that *)
(* there is none.                                                      *)
LEMMA ReadCatalogueStep ==
    ASSUME IInv, NEW m \in Match, NEW day \in Days[m], ReadCatalogue(m, day)
    PROVE  IInv'
  <1>1. PICK owner \in Owner : Owned(owner)
    BY DEF IInv
  <1> DEFINE home == TheOne(Called(Home[m]))
             away == TheOne(Called(Away[m]))
             known == {c \in {Home[m], Away[m]} : Called(c) # {}}
             j == [IdleJob EXCEPT !.op = "import", !.pc = "read", !.of = m, !.day = day,
                                  !.home = home, !.away = away, !.known = known]
  <1>2. \A c \in Club : LET i == TheOne(Called(c))
                       IN  /\ i # None => i \in TeamId /\ Means(owner, i, c)
                           /\ i = None => Called(c) = {}
    <2> TAKE c \in Club
    <2> DEFINE i == TheOne(Called(c))
    <2>1. CASE Called(c) = {}
      BY <2>1 DEF TheOne
    <2>2. CASE Called(c) # {}
      <3>1. i \in Called(c)
        BY <2>2 DEF TheOne
      <3>2. i \in Teams /\ team[i].club = c
        BY <3>1, CalledIsTheClub DEF IInv
      <3>3. i \in TeamId /\ Means(owner, i, c)
        BY <1>1, <3>2 DEF Teams, Means, Owned, RowsMean
      <3>4. i # None
        BY <3>3, NoneApart
      <3> QED BY <3>3, <3>4
    <2> QED BY <2>1, <2>2
  <1>3. /\ home # None => home \in TeamId /\ Means(owner, home, Home[m])
        /\ away # None => away \in TeamId /\ Means(owner, away, Away[m])
        /\ home = None => Home[m] \notin known
        /\ away = None => Away[m] \notin known
        /\ known \subseteq Subject
    BY <1>2, NoneApart
  <1>4. job' = [job EXCEPT ![Desk] = j]
    BY DEF ReadCatalogue
  <1> HIDE DEF home, away, known
  <1>5. /\ j.op = "import" /\ j.pc = "read" /\ j.of = m /\ j.day = day /\ j.row = None
        /\ j.home = home /\ j.away = away /\ j.known = known /\ j \in Job
    BY <1>3, NoneApart DEF IdleJob, Job, Op, PC, AllDays
  <1> HIDE DEF j
  <1>6. JobOK(owner, j)
    BY <1>3, <1>5 DEF JobOK, TeamJob, FixtureJob, ImportJob, Stage, OfFixture
  <1>7. Desk \in Session
    BY DEF Session
  <1> QED BY <1>1, <1>4, <1>5, <1>6, <1>7, LocalStep DEF ReadCatalogue

(* The import adds what the index knows under the file's own ids. *)
LEMMA ReadFileStep ==
    ASSUME IInv, ReadFile
    PROVE  IInv'
  <1>1. PICK owner \in Owner : Owned(owner)
    BY DEF IInv
  <1> DEFINE m == job[Desk].of
             day == job[Desk].day
             home == TeamOfFile(Home[m], job[Desk].home)
             away == TeamOfFile(Away[m], job[Desk].away)
             row == IF ExistingFixture("file", m) = None THEN SameMatch(home, away, day)
                    ELSE ExistingFixture("file", m)
             j == [job[Desk] EXCEPT !.pc = "save", !.home = home, !.away = away, !.row = row]
  <1>2. /\ job[Desk].pc = "read" /\ Desk \in Session /\ job[Desk] \in Job
        /\ JobOK(owner, job[Desk])
    BY <1>1, Fields DEF ReadFile, Owned, JobsMean, IInv, Session
  <1>3. job[Desk].op = "import" /\ FixtureJob(owner, job[Desk]) /\ ImportJob(job[Desk])
    BY <1>2 DEF JobOK, Stage
  <1>4. /\ m \in Match /\ day \in Days[m]
        /\ job[Desk].home # None => Means(owner, job[Desk].home, Home[m])
        /\ job[Desk].away # None => Means(owner, job[Desk].away, Away[m])
    BY <1>3 DEF FixtureJob
  <1>5. /\ home # None => home \in TeamId /\ Means(owner, home, Home[m])
        /\ away # None => away \in TeamId /\ Means(owner, away, Away[m])
        /\ home = None => job[Desk].home = None
        /\ away = None => job[Desk].away = None
    <2>1. \A c \in Club : ExistingTeam("file", c) # None =>
              ExistingTeam("file", c) \in TeamId /\ Means(owner, ExistingTeam("file", c), c)
      BY <1>1, ExistingMeans DEF Source
    <2>2. job[Desk].home \in TeamId \union {None} /\ job[Desk].away \in TeamId \union {None}
      BY <1>2 DEF Job
    <2>3. Home[m] \in Club /\ Away[m] \in Club
      BY <1>4, NoneApart
    <2> QED BY <1>4, <2>1, <2>2, <2>3 DEF TeamOfFile
  <1>6. row # None => row \in Fixtures /\ fixture[row].match = m
    <2>1. CASE ExistingFixture("file", m) = None
      <3>1. /\ home # None => owner[home] = Home[m]
            /\ away # None => owner[away] = Away[m]
        BY <1>5 DEF Means
      <3> QED BY <1>1, <1>4, <2>1, <3>1, SameMatchIsTheMatch DEF IInv, Owned
    <2>2. CASE ExistingFixture("file", m) # None
      BY <1>4, <2>2, ExistingIsTheMatch DEF Source
    <2> QED BY <2>1, <2>2
  <1>7. job' = [job EXCEPT ![Desk] = j]
    BY DEF ReadFile, IInv, TypeOK
  <1> HIDE DEF home, away, row
  <1>8. /\ j.op = "import" /\ j.pc = "save" /\ j.of = m /\ j.day = day /\ j.row = row
        /\ j.home = home /\ j.away = away /\ j.known = job[Desk].known /\ j \in Job
    BY <1>2, <1>3, <1>5, <1>6 DEF Job, PC, Fixtures
  <1> HIDE DEF j
  <1>9. JobOK(owner, j)
    BY <1>3, <1>4, <1>5, <1>6, <1>8 DEF JobOK, TeamJob, FixtureJob, ImportJob, Stage, OfFixture
  <1> QED BY <1>1, <1>2, <1>7, <1>8, <1>9, LocalStep DEF ReadFile

(* The admin sees a row of some club. *)
LEMMA ReadMappingStep ==
    ASSUME IInv, NEW i \in TeamId, ReadMapping(i)
    PROVE  IInv'
  <1>1. PICK owner \in Owner : Owned(owner)
    BY DEF IInv
  <1> DEFINE j == [IdleJob EXCEPT !.op = "confirm", !.pc = "save", !.of = team[i].club, !.row = i]
  <1>2. i \in Teams /\ team[i].club \in Club
    BY Fields DEF ReadMapping, IInv
  <1>3. Means(owner, i, team[i].club)
    BY <1>1, <1>2 DEF Means, Owned, RowsMean
  <1>4. job' = [job EXCEPT ![Desk] = j] /\ Desk \in Session
    BY DEF ReadMapping, Session
  <1>5. /\ j.op = "confirm" /\ j.pc = "save" /\ j.of = team[i].club /\ j.row = i /\ j \in Job
    BY <1>2, NoneApart DEF IdleJob, Job, Op, PC, AllDays
  <1> HIDE DEF j
  <1>6. JobOK(owner, j)
    BY <1>2, <1>3, <1>5, NoneApart DEF JobOK, TeamJob, FixtureJob, ImportJob, Stage
  <1> QED BY <1>1, <1>4, <1>5, <1>6, LocalStep DEF ReadMapping

(* The row the admin saw is entered for its club. *)
LEMMA CommitMappingStep ==
    ASSUME IInv, CommitMapping
    PROVE  IInv'
  <1>1. PICK owner \in Owner : Owned(owner)
    BY DEF IInv
  <1>2. Desk \in Session /\ JobOK(owner, job[Desk]) /\ job[Desk].op = "confirm"
    BY <1>1 DEF Owned, JobsMean, CommitMapping, Session
  <1>3. /\ job[Desk].of \in Club /\ job[Desk].row \in TeamId
        /\ Means(owner, job[Desk].row, job[Desk].of)
    BY <1>2 DEF JobOK, TeamJob, Stage, Means, IInv, TypeOK, Teams
  <1>4. job[Desk].of \in Subject /\ job[Desk].of \notin Match /\ "alternate" \in Source
    BY <1>3, NoneApart DEF Source
  <1> QED BY <1>1, <1>2, <1>3, <1>4, RefStep DEF CommitMapping

(* What an import adds to the tables: the team of a club it has found no row *)
(* of, the match it has found no row of.                                     *)
TeamOf(c, id, i) == (i \in Teams <=> id # None) /\ team'[i].club = c
NewRows ==
    \E home \in TeamId, away \in TeamId, i \in FixtureId :
        /\ Teams' = Teams \union {home, away}
        /\ TeamOf(Home[job[Desk].of], job[Desk].home, home)
        /\ TeamOf(Away[job[Desk].of], job[Desk].away, away)
        /\ \A x \in Teams : team'[x].club = team[x].club
        /\ Fixtures' = Fixtures \union {i} /\ fixture'[i].match = job[Desk].of
        /\ i \in Fixtures \/ job[Desk].row = None
        /\ \A x \in Fixtures : fixture'[x].match = fixture[x].match

(* The import's transaction: each of its two teams is a new row, or the row  *)
(* its club's id has always meant.                                           *)
LEMMA CommitFileStep ==
    ASSUME IInv, CommitFile
    PROVE  /\ IInv'
           /\ Teams \subseteq Teams' /\ Teams' \intersect gone \subseteq Teams
           /\ \A s \in Source, c \in Club : ref'[s][c] = ref[s][c] \/ ref'[s][c] \in Teams'
           /\ NewRows
  <1>1. PICK owner \in Owner : Owned(owner)
    BY DEF IInv
  <1> DEFINE m == job[Desk].of
             day == job[Desk].day
             known == job[Desk].known
             Rows(id) == IF id = None THEN FreshTeams ELSE {id} \intersect Teams
             Named(i, c, id) == i = id /\ c \notin known
             Written(i, c) == [club |-> IF team[i] = None THEN c ELSE team[i].club,
                               name |-> Name["file"][c]]
  <1>2. PICK home \in Rows(job[Desk].home), away \in Rows(job[Desk].away), i \in FixtureId :
            /\ home # away /\ Chosen(Desk, i, FreshFixtures)
            /\ team' = [j \in TeamId |-> CASE Named(j, Home[m], home) -> Written(j, Home[m])
                                           [] Named(j, Away[m], away) -> Written(j, Away[m])
                                           [] OTHER -> team[j]]
            /\ SaveFixtureAs(i, m, day, home, away)
            /\ ref' = [ref EXCEPT !["file"] = [@ EXCEPT ![Home[m]] = home, ![Away[m]] = away,
                                                        ![m] = i]]
    BY DEF CommitFile
  <1>3. /\ job[Desk].op = "import" /\ Desk \in Session /\ job[Desk] \in Job
        /\ gone' = gone /\ job' = [job EXCEPT ![Desk] = IdleJob]
        /\ FixtureJob(owner, job[Desk]) /\ ImportJob(job[Desk])
    BY <1>1, Fields DEF CommitFile, IInv, Owned, JobsMean, JobOK, Session
  <1>4. /\ m \in Match /\ day \in Days[m]
        /\ job[Desk].home # None => Means(owner, job[Desk].home, Home[m])
        /\ job[Desk].away # None => Means(owner, job[Desk].away, Away[m])
        /\ job[Desk].row # None =>
               job[Desk].row \in Fixtures /\ fixture[job[Desk].row].match = m
        /\ job[Desk].home = None => Home[m] \notin known
        /\ job[Desk].away = None => Away[m] \notin known
    BY <1>3 DEF FixtureJob, ImportJob, OfFixture
  <1> HIDE DEF m, day, known
  <1>5. /\ Home[m] \in Club /\ Away[m] \in Club /\ Home[m] # Away[m] /\ m \notin Club
        /\ m \in Subject /\ Home[m] \in Subject /\ Away[m] \in Subject
    BY <1>4, NoneApart
  (* Each team is a row of its club, or becomes one. *)
  <1>6. /\ home \in TeamId /\ (home \in Teams => owner[home] = Home[m])
        /\ home \notin Teams => home \in FreshTeams /\ Home[m] \notin known
    BY <1>2, <1>4 DEF Means, FreshTeams, Teams
  <1>7. /\ away \in TeamId /\ (away \in Teams => owner[away] = Away[m])
        /\ away \notin Teams => away \in FreshTeams /\ Away[m] \notin known
    BY <1>2, <1>4 DEF Means, FreshTeams, Teams
  <1>new. PICK new : new = [owner EXCEPT ![home] = Home[m], ![away] = Away[m]]
    OBVIOUS
  <1>8. /\ new \in Owner /\ new[home] = Home[m] /\ new[away] = Away[m]
        /\ \A x \in TeamId : x # home /\ x # away => new[x] = owner[x]
    BY <1>2, <1>5, <1>6, <1>7, <1>new DEF Owner
  <1>9. \A x \in Teams \union gone : x \in TeamId /\ new[x] = owner[x]
    BY <1>6, <1>7, <1>8 DEF FreshTeams, IInv, TypeOK, Teams
  (* The rows of the teams. *)
  <1>10. /\ \A x \in TeamId : x # home /\ x # away => team'[x] = team[x]
         /\ team'[home] = IF Home[m] \notin known THEN Written(home, Home[m]) ELSE team[home]
         /\ team'[away] = IF Away[m] \notin known THEN Written(away, Away[m]) ELSE team[away]
    BY <1>2, <1>6, <1>7
  <1>11. \A x \in {home, away} :
             LET c == new[x]
             IN  /\ Written(x, c) \in TeamRow /\ Written(x, c) # None
                 /\ Written(x, c).club = c /\ Written(x, c).name = Name["file"][c]
    <2> TAKE x \in {home, away}
    <2>1. new[x] \in Club /\ (x \in Teams => team[x].club = new[x]) /\ x \in TeamId
      BY <1>1, <1>5, <1>6, <1>7, <1>8 DEF Owned, RowsMean
    <2>2. Written(x, new[x]).club = new[x] /\ Name["file"][new[x]] \in Names
      BY <2>1 DEF Teams, Names
    <2> QED BY <2>1, <2>2, RowAssumption DEF TeamRow
  <1>12. \A x \in {home, away} :
             /\ team'[x] \in TeamRow /\ team'[x] # None /\ team'[x].club = new[x]
             /\ \E s \in {"api", "file"} : team'[x].name = Name[s][new[x]]
    <2>1. \A x \in Teams : /\ team[x] \in TeamRow /\ team[x] # None /\ team[x].club = owner[x]
                           /\ \E s \in {"api", "file"} : team[x].name = Name[s][owner[x]]
      BY <1>1, Fields DEF IInv, Owned, RowsMean, NamedAsClub, Teams
    <2>2. \A x \in {home, away} : 
                                team'[x] = Written(x, new[x]) \/ (x \in Teams /\ team'[x] = team[x])
      BY <1>6, <1>7, <1>8, <1>10
    <2> HIDE DEF Written
    <2> QED BY <1>9, <1>11, <2>1, <2>2
  <1> HIDE DEF Written, Rows, Named
  <1>13. /\ team' \in [TeamId -> TeamRow \union {None}]
         /\ Teams' = Teams \union {home, away}
    <2>1. \A x \in TeamId : team'[x] \in TeamRow \union {None}
      BY <1>10, <1>12 DEF IInv, TypeOK
    <2>2. team' = [x \in TeamId |-> team'[x]]
      BY <1>2
    <2>3. team' \in [TeamId -> TeamRow \union {None}]
      BY <2>1, <2>2
    <2>4. Teams' = Teams \union {home, away}
      BY <1>6, <1>7, <1>10, <1>12 DEF Teams
    <2> QED BY <2>3, <2>4
  <1>14. \A x \in Teams' : x \in TeamId /\ team'[x].club = new[x]
                         /\ \E s \in {"api", "file"} : team'[x].name = Name[s][new[x]]
    <2> TAKE x \in Teams'
    <2>1. CASE x \in {home, away}
      BY <1>6, <1>7, <1>12, <2>1
    <2>2. CASE x \in Teams /\ x \notin {home, away}
      BY <1>1, <1>9, <1>10, <2>2 DEF Owned, RowsMean, IInv, NamedAsClub
    <2> QED BY <1>13, <2>1, <2>2
  (* The row of the fixture. *)
  <1>15. i \in Fixtures => fixture[i].match = m
    BY <1>2, <1>4 DEF Chosen, Least, FreshFixtures
  <1>16. /\ fixture' \in [FixtureId -> FixtureRow \union {None}]
         /\ Fixtures' = Fixtures \union {i}
         /\ \A x \in FixtureId : x # i => fixture'[x] = fixture[x]
         /\ fixture'[i].match = m /\ fixture'[i].home = home /\ fixture'[i].away = away
         /\ \A x \in Fixtures : fixture'[x].match = fixture[x].match
         /\ PlayedOnItsDays'
    BY <1>2, <1>4, <1>6, <1>7, <1>15, SaveFixtureAsStep
  (* The index. *)
  <1>17. /\ ref' \in [Source -> [Subject -> TeamId \union FixtureId \union {None}]]
         /\ \A s \in Source, x \in Subject :
                ref'[s][x] = IF s # "file" THEN ref[s][x]
                             ELSE IF x = Home[m] THEN home
                             ELSE IF x = Away[m] THEN away
                             ELSE IF x = m THEN i ELSE ref[s][x]
    <2>1. /\ "file" \in Source /\ ref \in [Source -> [Subject -> TeamId \union FixtureId \union {None}]]
          /\ Home[m] # m /\ Away[m] # m
      BY <1>5 DEF IInv, TypeOK, Source
    <2> QED BY <1>2, <1>5, <1>6, <1>7, <2>1
  <1>18. JobsMean(new)' /\ job' \in [Session -> Job]
    <2>1. Teams \union gone \subseteq (Teams \union gone)'
      BY <1>3, <1>13
    <2>2. IdleJob \in Job /\ JobOK(new, IdleJob)
      BY IdleIsOK
    <2>3. \A x \in Fixtures : x \in Fixtures' /\ fixture'[x].match = fixture[x].match
      BY <1>16
    <2>4. JobOK(new, IdleJob)'
      BY <2>1, <2>2, <2>3, JobsSurvive
    <2> QED BY <1>1, <1>3, <1>9, <2>1, <2>2, <2>3, <2>4, JobsAfter DEF Owned
  <1>19. TypeOK'
    BY <1>3, <1>13, <1>16, <1>17, <1>18 DEF IInv, TypeOK
  <1>20. RefsMean(new)' /\ (\A s \in Source, c \in Club : ref'[s][c] \in Teams' \union gone \union {None})
    <2> SUFFICES ASSUME NEW s \in Source, NEW c \in Club
                 PROVE  /\ ref'[s][c] \in Teams' \union gone \union {None}
                        /\ ref'[s][c] # None => new[ref'[s][c]] = c
      BY DEF RefsMean
    <2>1. c \in Subject /\ c # m
      BY <1>5, NoneApart
    <2>2. CASE ref'[s][c] = ref[s][c]
      BY <1>1, <1>9, <1>13, <2>2 DEF Owned, RefsMean, IInv, RefsAreLive
    <2>3. CASE ref'[s][c] = home /\ c = Home[m]
      BY <1>8, <1>13, <2>3
    <2>4. CASE ref'[s][c] = away /\ c = Away[m]
      BY <1>8, <1>13, <2>4
    <2> QED BY <1>17, <2>1, <2>2, <2>3, <2>4
  <1>21. \A s \in Source, n \in Match :
             /\ ref'[s][n] \in Fixtures' \union {None}
             /\ ref'[s][n] # None => fixture'[ref'[s][n]].match = n
    <2> TAKE s \in Source, n \in Match
    <2>1. n \in Subject /\ n # Home[m] /\ n # Away[m]
      BY <1>5, NoneApart
    <2>2. ref'[s][n] = ref[s][n] \/ (ref'[s][n] = i /\ n = m)
      BY <1>17, <2>1
    <2> QED BY <1>16, <2>2 DEF IInv, RefsAreLive, NoMixUp
  <1>22. \A x \in Fixtures' :
             /\ fixture'[x].home \in Teams' /\ fixture'[x].away \in Teams'
             /\ new[fixture'[x].home] = Home[fixture'[x].match]
             /\ new[fixture'[x].away] = Away[fixture'[x].match]
    <2> TAKE x \in Fixtures'
    <2>1. CASE x = i
      BY <1>8, <1>13, <1>16, <2>1
    <2>2. CASE x \in Fixtures /\ x # i
      <3>1. fixture'[x] = fixture[x]
        BY <1>16, <2>2 DEF Fixtures
      <3>2. /\ fixture[x].home \in Teams /\ fixture[x].away \in Teams
            /\ owner[fixture[x].home] = Home[fixture[x].match]
            /\ owner[fixture[x].away] = Away[fixture[x].match]
        BY <1>1, <2>2 DEF IInv, RefsAreLive, NoMixUp, Owned, RowsMean
      <3> QED BY <1>9, <1>13, <3>1, <3>2
    <2> QED BY <1>16, <2>1, <2>2
  <1>23. RefsAreLive'
    BY <1>3, <1>20, <1>21, <1>22 DEF RefsAreLive
  <1>24. NoMixUp'
    <2>1. \A s \in Source, c \in Club : ref'[s][c] \in Teams' => team'[ref'[s][c]].club = c
      BY <1>14, <1>20, NoneApart DEF RefsMean
    <2>2. \A x \in Fixtures' : /\ team'[fixture'[x].home].club = Home[fixture'[x].match]
                               /\ team'[fixture'[x].away].club = Away[fixture'[x].match]
      BY <1>14, <1>22
    <2> QED BY <1>21, <2>1, <2>2 DEF NoMixUp
  <1>25. RowsMean(new)' /\ NamedAsClub'
    BY <1>14 DEF RowsMean, NamedAsClub
  <1>26. Teams \subseteq Teams' /\ Teams' \intersect gone \subseteq Teams
    BY <1>6, <1>7, <1>13 DEF FreshTeams
  <1>27. \A s \in Source, c \in Club : ref'[s][c] = ref[s][c] \/ ref'[s][c] \in Teams'
    BY <1>5, <1>13, <1>17, NoneApart
  <1>28. IInv'
    BY <1>8, <1>16, <1>18, <1>19, <1>20, <1>23, <1>24, <1>25 DEF IInv, Owned
  <1>29. NewRows
    <2>1. \A x \in Teams : team'[x].club = team[x].club
      BY <1>1, <1>9, <1>13, <1>14 DEF Owned, RowsMean
    <2>2. /\ home \notin Teams <=> job[Desk].home = None
          /\ away \notin Teams <=> job[Desk].away = None
      BY <1>2 DEF Rows, FreshTeams
    <2>3. TeamOf(Home[m], job[Desk].home, home) /\ TeamOf(Away[m], job[Desk].away, away)
      BY <1>8, <1>13, <1>14, <2>2 DEF TeamOf
    <2>4. i \in Fixtures \/ job[Desk].row = None
      BY <1>2, <1>4 DEF Chosen
    <2> QED BY <1>6, <1>7, <1>13, <1>16, <2>1, <2>3, <2>4 DEF NewRows, m
  <1> QED BY <1>26, <1>27, <1>28, <1>29

(* The merge: both rows were of one club, so what is repointed means the     *)
(* same as before; the lost id keeps its meaning for the jobs that hold it.  *)
LEMMA MergeStep ==
    ASSUME IInv, NEW kept \in TeamId, NEW lost \in TeamId, Merge(kept, lost)
    PROVE  /\ IInv'
           /\ Fixtures' = Fixtures /\ \A i \in Fixtures : fixture'[i].match = fixture[i].match
  <1>1. PICK owner \in Owner : Owned(owner)
    BY DEF IInv
  <1>2. /\ kept \in Teams /\ lost \in Teams /\ kept # lost
        /\ team[kept].club = team[lost].club
        /\ owner[kept] = owner[lost]
        /\ team' = [team EXCEPT ![lost] = None] /\ fixture' = Repointed(kept, lost)
        /\ gone' = gone \union {lost} /\ job' = job
        /\ ref' = [s \in Source |-> [x \in Subject |->
                      IF x \in Club THEN Kept(kept, lost, ref[s][x]) ELSE ref[s][x]]]
    BY <1>1 DEF Merge, Owned, RowsMean
  <1>3. /\ team' \in [TeamId -> TeamRow \union {None}] /\ Teams' = Teams \ {lost}
        /\ \A i \in Teams' : team'[i] = team[i]
        /\ (Teams \union gone)' = Teams \union gone
    BY <1>2 DEF IInv, TypeOK, Teams
  <1>4. /\ Fixtures' = Fixtures
        /\ fixture' \in [FixtureId -> FixtureRow \union {None}]
        /\ \A i \in Fixtures : /\ fixture'[i].match = fixture[i].match
                              /\ fixture'[i].day = fixture[i].day
                              /\ fixture'[i].home = Kept(kept, lost, fixture[i].home)
                              /\ fixture'[i].away = Kept(kept, lost, fixture[i].away)
    <2> DEFINE row(i) == [fixture[i] EXCEPT !.home = Kept(kept, lost, @),
                                            !.away = Kept(kept, lost, @)]
    <2>1. \A i \in Fixtures : /\ row(i) \in FixtureRow /\ row(i) # None
                            /\ row(i).match = fixture[i].match /\ row(i).day = fixture[i].day
                            /\ row(i).home = Kept(kept, lost, fixture[i].home)
                            /\ row(i).away = Kept(kept, lost, fixture[i].away)
      <3> TAKE i \in Fixtures
      <3>1. fixture[i] \in FixtureRow
        BY Fields DEF IInv
      <3>2. row(i) \in FixtureRow
        BY <3>1 DEF FixtureRow, Kept
      <3>3. row(i) # None
        BY <3>2, RowAssumption
      <3> QED BY <3>1, <3>2, <3>3 DEF FixtureRow
    <2>2. fixture' = [i \in FixtureId |-> IF fixture[i] = None THEN None ELSE row(i)]
      BY <1>2 DEF Repointed
    <2> HIDE DEF row
    <2> QED BY <2>1, <2>2 DEF Fixtures
  <1>5. /\ ref' \in [Source -> [Subject -> TeamId \union FixtureId \union {None}]]
        /\ \A s \in Source, c \in Club : ref'[s][c] = Kept(kept, lost, ref[s][c])
        /\ \A s \in Source, m \in Match : ref'[s][m] = ref[s][m]
    <2>1. \A s \in Source, x \in Subject :
              /\ ref'[s][x] = IF x \in Club THEN Kept(kept, lost, ref[s][x]) ELSE ref[s][x]
              /\ ref'[s][x] \in TeamId \union FixtureId \union {None}
      BY <1>2 DEF IInv, TypeOK, Kept
    <2>2. ref' \in [Source -> [Subject -> TeamId \union FixtureId \union {None}]]
      BY <1>2, <2>1
    <2> QED BY <2>1, <2>2, NoneApart
  <1>6. JobsMean(owner)'
    <2>1. \A j : JobOK(owner, j) => JobOK(owner, j)'
      BY <1>3, <1>4, JobsSurvive
    <2> QED BY <1>1, <1>2, <2>1 DEF Owned, JobsMean
  <1>7. TypeOK'
    BY <1>2, <1>3, <1>4, <1>5 DEF IInv, TypeOK
  <1>8. \A i \in Teams : Kept(kept, lost, i) \in Teams' /\ owner[Kept(kept, lost, i)] = owner[i]
    BY <1>2, <1>3 DEF Kept
  <1>9. RowsMean(owner)' /\ NamedAsClub'
    BY <1>1, <1>3 DEF Owned, RowsMean, IInv, NamedAsClub
  <1>10. RefsMean(owner)'
    BY <1>1, <1>2, <1>5, NoneApart DEF Owned, RefsMean, Kept
  <1>11. RefsAreLive'
    <2>1. \A s \in Source, c \in Club : ref'[s][c] \in (Teams \union gone)' \union {None}
      BY <1>2, <1>3, <1>5 DEF IInv, RefsAreLive, Kept
    <2>2. \A i \in Fixtures' : fixture'[i].home \in Teams' /\ fixture'[i].away \in Teams'
      BY <1>4, <1>8 DEF IInv, RefsAreLive
    <2> QED BY <1>4, <1>5, <2>1, <2>2 DEF IInv, RefsAreLive
  <1>12. NoMixUp'
    <2>1. \A s \in Source, c \in Club : ref'[s][c] \in Teams' => team'[ref'[s][c]].club = c
      BY <1>9, <1>10, NoneApart DEF RowsMean, RefsMean, Teams
    <2>2. \A s \in Source, m \in Match : ref'[s][m] # None => fixture'[ref'[s][m]].match = m
      BY <1>4, <1>5 DEF IInv, NoMixUp, RefsAreLive
    <2>3. \A i \in Fixtures : /\ team'[fixture'[i].home].club = Home[fixture[i].match]
                            /\ team'[fixture'[i].away].club = Away[fixture[i].match]
      BY <1>1, <1>4, <1>8, <1>9 DEF IInv, RefsAreLive, NoMixUp, Owned, RowsMean
    <2> QED BY <1>4, <2>1, <2>2, <2>3 DEF NoMixUp
  <1>13. PlayedOnItsDays'
    BY <1>4 DEF IInv, PlayedOnItsDays
  <1> QED BY <1>4, <1>6, <1>7, <1>9, <1>10, <1>11, <1>12, <1>13 DEF IInv, Owned

-----------------------------------------------------------------------------
(* Nothing exists and nothing is known at the start. *)
LEMMA InitIInv == Init => IInv
  <1> SUFFICES ASSUME Init PROVE IInv
    OBVIOUS
  <1>1. /\ Teams = {} /\ Fixtures = {} /\ gone = {} /\ \A s \in Session : job[s] = IdleJob
        /\ \A s \in Source, x \in Subject : ref[s][x] = None
    BY DEF Init, Teams, Fixtures
  <1>2. TypeOK
    BY IdleIsOK DEF Init, TypeOK
  <1>3. RefsAreLive /\ NoMixUp /\ NamedAsClub /\ PlayedOnItsDays
    BY <1>1, NoneApart DEF RefsAreLive, NoMixUp, NamedAsClub, PlayedOnItsDays
  <1>4. PICK owner \in Owner : owner = [i \in TeamId |-> None]
    BY DEF Owner
  <1>5. RowsMean(owner) /\ RefsMean(owner) /\ JobsMean(owner)
    BY <1>1, IdleIsOK, NoneApart DEF RowsMean, RefsMean, JobsMean
  <1> QED BY <1>2, <1>3, <1>4, <1>5 DEF IInv, Owned

(* Every operation of the syncs, the desk and the script keeps the invariant. *)
LEMMA StepIInv == IInv /\ [Next]_vars => IInv'
  <1> SUFFICES ASSUME IInv, [Next]_vars PROVE IInv'
    OBVIOUS
  <1>1. CASE UNCHANGED vars
    <2>1. PICK owner \in Owner : Owned(owner)
      BY DEF IInv
    <2>2. Desk \in Session /\ job[Desk] \in Job /\ JobOK(owner, job[Desk])
      BY <2>1, Fields DEF Owned, JobsMean, IInv, Session
    <2>3. job' = [job EXCEPT ![Desk] = job[Desk]]
      BY <1>1 DEF vars, IInv, TypeOK
    <2> QED BY <1>1, <2>1, <2>2, <2>3, LocalStep DEF vars
  <1>2. ASSUME NEW w \in Worker, Sync(w) PROVE IInv'
    <2>1. w \in Session
      BY DEF Session
    <2>2. ASSUME NEW c \in Club, ReadTeam(w, c) PROVE IInv'
      BY <2>1, <2>2, ReadTeamStep
    <2>3. ASSUME NEW s \in {"api", "alternate"}, NEW m \in Match, NEW day \in AllDays,
                 day \in Days[m], ReadFixture(w, s, m, day)
          PROVE  IInv'
      BY <2>1, <2>3, ReadFixtureStep
    <2>4. SaveTeam(w) => IInv'
      BY <2>1, SaveTeamStep
    <2>5. SaveFixture(w) => IInv'
      BY <2>1, SaveFixtureStep
    <2>6. Refuse(w) => IInv'
      BY <2>1, EndStep
    <2>7. WriteRef(w) => IInv'
      BY <2>1, WriteRefStep
    <2> QED BY <1>2, <2>2, <2>3, <2>4, <2>5, <2>6, <2>7 DEF Sync
  <1>3. CASE Office
    <2>1. ASSUME NEW m \in Match, NEW day \in AllDays, day \in Days[m], ReadCatalogue(m, day)
          PROVE  IInv'
      BY <2>1, ReadCatalogueStep
    <2>2. ASSUME NEW i \in TeamId, ReadMapping(i) PROVE IInv'
      BY <2>2, ReadMappingStep
    <2>3. ASSUME NEW kept \in TeamId, NEW lost \in TeamId, Merge(kept, lost) PROVE IInv'
      BY <2>3, MergeStep
    <2> QED BY <1>3, <2>1, <2>2, <2>3, ReadFileStep, CommitFileStep, CommitMappingStep DEF Office
  <1>4. ASSUME NEW s \in Session, Abort(s) PROVE IInv'
    BY <1>4, EndStep
  <1> QED BY <1>1, <1>2, <1>3, <1>4 DEF Next

(* In every state the rows, the index and the jobs agree on the club of each *)
(* id, on the strength of which nothing is mixed up.                         *)
THEOREM InductiveInvariant == Spec => []IInv
  BY InitIInv, StepIInv, PTL DEF Spec

(* The tables, the index and what the jobs remember are well-typed. *)
THEOREM TypeCorrect == Spec => []TypeOK
  BY InductiveInvariant, PTL DEF IInv

(* No id of a club or match ever leads to the row of another, and no match is *)
(* between other clubs than its own, however syncs, imports, mappings, merges *)
(* and failures interleave.                                                   *)
THEOREM NothingIsMixedUp == Spec => []NoMixUp
  BY InductiveInvariant, PTL DEF IInv

(* The index leads to rows or to ids merged away, a fixture's teams exist. *)
THEOREM ReferencesAreLive == Spec => []RefsAreLive
  BY InductiveInvariant, PTL DEF IInv

-----------------------------------------------------------------------------
(* When nobody merges while a job runs, no job holds the id of a team that   *)
(* was merged away, so none brings it back into the index.                   *)
LiveJob(j) == j.op \in {"sync_teams", "confirm"} => j.row \in Teams \union {None}
TidyIInv == /\ IInv /\ Teams \intersect gone = {}
            /\ TidyIndex
            /\ mode = "tidy" => \A s \in Session : LiveJob(job[s])

(* A step that leaves the rows and the index alone. *)
LEMMA TidyLocalStep ==
    ASSUME TidyIInv, IInv', UNCHANGED <<team, ref, gone, mode>>,
           NEW s \in Session, \A r \in Session : r # s => job'[r] = job[r], LiveJob(job'[s])
    PROVE  TidyIInv'
  <1>1. Teams' = Teams /\ gone' = gone
    BY DEF Teams
  <1>2. TidyIndex'
    BY <1>1 DEF TidyIInv, TidyIndex
  <1>3. mode' = "tidy" => \A r \in Session : LiveJob(job[r])'
    BY <1>1 DEF TidyIInv, LiveJob
  <1> QED BY <1>1, <1>2, <1>3 DEF TidyIInv

(* A step that writes rows or entries that lead to rows. *)
LEMMA TidyWriteStep ==
    ASSUME TidyIInv, IInv', mode' = mode, Teams \subseteq Teams', (Teams \intersect gone)' = {},
           NEW s \in Session, \A r \in Session : r # s => job'[r] = job[r],
           mode = "tidy" => LiveJob(job[s])',
           mode = "tidy" => \A t \in Source, c \in Club :
                                ref'[t][c] = ref[t][c] \/ ref'[t][c] \in Teams'
    PROVE  TidyIInv'
  <1>1. TidyIndex'
    BY DEF TidyIInv, TidyIndex
  <1>2. mode' = "tidy" => \A r \in Session : LiveJob(job[r])'
    BY DEF TidyIInv, LiveJob
  <1> QED BY <1>1, <1>2 DEF TidyIInv

(* A session that does nothing holds no id. *)
LEMMA TidyIdle == LiveJob(IdleJob) /\ LiveJob(IdleJob)'
  BY DEF LiveJob, IdleJob

(* Steps of the worker: a team is saved only where it was found, or new, so *)
(* the id that is then indexed is one of a team that exists.                *)
LEMMA TidySync ==
    ASSUME TidyIInv, IInv', mode' = mode, NEW w \in Worker, Sync(w)
    PROVE  TidyIInv'
  <1>1. w \in Session /\ job \in [Session -> Job] /\ job[w] \in Job
    BY DEF Session, TidyIInv, IInv, TypeOK
  <1>2. ASSUME NEW c \in Club, ReadTeam(w, c) PROVE TidyIInv'
    <2>1. ExistingTeam("api", c) \in Teams \union {None}
      BY DEF ExistingTeam
    <2>2. /\ job'[w].row = ExistingTeam("api", c)
          /\ \A r \in Session : r # w => job'[r] = job[r]
      BY <1>1, <1>2 DEF ReadTeam, Begin, IdleJob
    <2> QED BY <1>1, <1>2, <2>1, <2>2, TidyLocalStep DEF ReadTeam, LiveJob
  <1>3. ASSUME NEW s \in {"api", "alternate"}, NEW m \in Match, NEW day \in AllDays,
               ReadFixture(w, s, m, day)
        PROVE  TidyIInv'
    <2>1. /\ job'[w].op \in {"sync_fixtures", "sync_upcoming"}
          /\ \A r \in Session : r # w => job'[r] = job[r]
      BY <1>1, <1>3 DEF ReadFixture, Begin, IdleJob
    <2> QED BY <1>1, <1>3, <2>1, TidyLocalStep DEF ReadFixture, LiveJob
  <1>4. CASE SaveTeam(w)
    <2>1. PICK i \in TeamId : /\ Chosen(w, i, FreshTeams)
                              /\ SaveTeamAs(i, job[w].of, Name["api"][job[w].of])
                              /\ gone' = gone \ {i} /\ GoOn(w, i) /\ ref' = ref
      BY <1>4 DEF SaveTeam
    <2>2. Teams' = Teams \union {i}
      <3> DEFINE row == [club |-> IF team[i] = None THEN job[w].of ELSE team[i].club,
                         name |-> Name["api"][job[w].of]]
      <3>1. team \in [TeamId -> TeamRow \union {None}] /\ team' = [team EXCEPT ![i] = row]
        BY <2>1 DEF SaveTeamAs, TidyIInv, IInv, TypeOK
      <3>2. row \in TeamRow
        <4>1. PICK owner \in Owner : Owned(owner)
          BY DEF TidyIInv, IInv
        <4>2. job[w].op = "sync_teams" /\ job[w].of \in Club
          BY <1>1, <1>4, <4>1 DEF SaveTeam, Owned, JobsMean, JobOK, TeamJob
        <4>3. row.club \in Club /\ Name["api"][job[w].of] \in Names
          BY <3>1, <4>2 DEF TeamRow, Names
        <4> QED BY <4>3 DEF TeamRow
      <3>3. row # None
        BY <3>2, RowAssumption
      <3> HIDE DEF row
      <3> QED BY <3>1, <3>3 DEF Teams
    <2>3. job'[w].row = i /\ \A r \in Session : r # w => job'[r] = job[r]
      BY <1>1, <2>1 DEF GoOn, Job
    <2>4. (Teams \intersect gone)' = {}
      BY <2>1, <2>2 DEF TidyIInv
    <2>5. LiveJob(job[w])'
      BY <2>2, <2>3 DEF LiveJob
    <2> QED BY <1>1, <2>1, <2>2, <2>3, <2>4, <2>5, TidyWriteStep
  <1>5. CASE SaveFixture(w)
    <2>1. PICK i \in FixtureId : GoOn(w, i)
      BY <1>5 DEF SaveFixture
    <2>2. job'[w].op = job[w].op /\ \A r \in Session : r # w => job'[r] = job[r]
      BY <1>1, <2>1 DEF GoOn, Job
    <2> QED BY <1>1, <1>5, <2>2, TidyLocalStep DEF SaveFixture, LiveJob
  <1>6. CASE Refuse(w)
    <2>1. job'[w] = IdleJob /\ \A r \in Session : r # w => job'[r] = job[r]
      BY <1>1, <1>6 DEF Refuse
    <2> QED BY <1>1, <1>6, <2>1, TidyIdle, TidyLocalStep DEF Refuse
  <1>7. CASE WriteRef(w)
    <2>1. /\ job'[w] = IdleJob /\ \A r \in Session : r # w => job'[r] = job[r]
          /\ Teams' = Teams /\ gone' = gone
      BY <1>1, <1>7 DEF WriteRef, Teams
    <2>2. PICK owner \in Owner : Owned(owner)
      BY DEF TidyIInv, IInv
    <2>3. /\ job[w].op \in {"sync_teams", "sync_fixtures", "sync_upcoming"} /\ job[w].row # None
          /\ job[w].op # "sync_teams" => job[w].of \in Match
      BY <1>1, <1>7, <2>2 DEF WriteRef, Owned, JobsMean, JobOK, Stage, FixtureJob
    <2>4. job[w].op = "sync_teams" /\ mode = "tidy" => job[w].row \in Teams
      BY <1>1, <2>3 DEF TidyIInv, LiveJob
    <2>5. ASSUME NEW t \in Source, NEW c \in Club, mode = "tidy"
          PROVE  ref'[t][c] = ref[t][c] \/ ref'[t][c] \in Teams'
      <3>1. c \in Subject /\ c \notin Match
        BY NoneApart
      <3>2. ref'[t][c] = ref[t][c] \/ (ref'[t][c] = job[w].row /\ c = job[w].of)
        BY <1>7, <3>1 DEF WriteRef, TidyIInv, IInv, TypeOK
      <3> QED BY <2>1, <2>3, <2>4, <2>5, <3>1, <3>2
    <2>6. LiveJob(job[w])'
      BY <2>1, TidyIdle DEF LiveJob
    <2> QED BY <1>1, <2>1, <2>5, <2>6, TidyWriteStep DEF TidyIInv
  <1> QED BY <1>2, <1>3, <1>4, <1>5, <1>6, <1>7 DEF Sync

(* Steps of the desk: a merge repoints the entries and finds no job that *)
(* holds the lost id.                                                    *)
LEMMA TidyOffice ==
    ASSUME TidyIInv, IInv', mode' = mode, Office,
           mode = "tidy" /\ (\E s \in Session : job[s].pc # "idle") => gone' \subseteq gone
    PROVE  TidyIInv'
  <1>1. Desk \in Session /\ job \in [Session -> Job] /\ job[Desk] \in Job
    BY DEF Session, TidyIInv, IInv, TypeOK
  <1>2. PICK owner \in Owner : Owned(owner)
    BY DEF TidyIInv, IInv
  <1>3. ASSUME NEW m \in Match, NEW day \in AllDays, ReadCatalogue(m, day) PROVE TidyIInv'
    <2>1. job'[Desk].op = "import" /\ \A r \in Session : r # Desk => job'[r] = job[r]
      BY <1>1, <1>3 DEF ReadCatalogue, IdleJob
    <2> QED BY <1>1, <1>3, <2>1, TidyLocalStep DEF ReadCatalogue, LiveJob
  <1>4. CASE ReadFile
    <2>1. job[Desk].op = "import"
      BY <1>1, <1>2, <1>4 DEF ReadFile, Owned, JobsMean, JobOK, Stage
    <2>2. job'[Desk].op = job[Desk].op /\ \A r \in Session : r # Desk => job'[r] = job[r]
      BY <1>1, <1>4 DEF ReadFile, Job
    <2> QED BY <1>1, <1>4, <2>1, <2>2, TidyLocalStep DEF ReadFile, LiveJob
  <1>5. CASE CommitFile
    <2>1. /\ Teams \subseteq Teams' /\ Teams' \intersect gone \subseteq Teams
          /\ \A s \in Source, c \in Club : ref'[s][c] = ref[s][c] \/ ref'[s][c] \in Teams'
      BY <1>5, CommitFileStep DEF TidyIInv
    <2>2. /\ gone' = gone /\ job'[Desk] = IdleJob
          /\ \A r \in Session : r # Desk => job'[r] = job[r]
      BY <1>1, <1>5 DEF CommitFile
    <2>3. (Teams \intersect gone)' = {}
      BY <2>1, <2>2 DEF TidyIInv
    <2>4. LiveJob(job[Desk])'
      BY <2>2, TidyIdle DEF LiveJob
    <2> QED BY <1>1, <2>1, <2>2, <2>3, <2>4, TidyWriteStep
  <1>6. ASSUME NEW i \in TeamId, ReadMapping(i) PROVE TidyIInv'
    <2>1. job'[Desk].row = i /\ i \in Teams /\ \A r \in Session : r # Desk => job'[r] = job[r]
      BY <1>1, <1>6 DEF ReadMapping, IdleJob
    <2> QED BY <1>1, <1>6, <2>1, TidyLocalStep DEF ReadMapping, LiveJob
  <1>7. CASE CommitMapping
    <2>1. /\ job'[Desk] = IdleJob /\ \A r \in Session : r # Desk => job'[r] = job[r]
          /\ Teams' = Teams /\ gone' = gone /\ job[Desk].op = "confirm"
      BY <1>1, <1>7 DEF CommitMapping, Teams
    <2>2. job[Desk].row # None
      BY <1>1, <1>2, <2>1 DEF Owned, JobsMean, JobOK, Stage
    <2>3. mode = "tidy" => job[Desk].row \in Teams
      BY <1>1, <2>1, <2>2 DEF TidyIInv, LiveJob
    <2>4. ASSUME NEW t \in Source, NEW c \in Club, mode = "tidy"
          PROVE  ref'[t][c] = ref[t][c] \/ ref'[t][c] \in Teams'
      <3>1. ref'[t][c] = ref[t][c] \/ ref'[t][c] = job[Desk].row
        BY <1>7, NoneApart DEF CommitMapping, TidyIInv, IInv, TypeOK
      <3> QED BY <2>1, <2>3, <2>4, <3>1
    <2>5. LiveJob(job[Desk])'
      BY <2>1, TidyIdle DEF LiveJob
    <2> QED BY <1>1, <2>1, <2>4, <2>5, TidyWriteStep DEF TidyIInv
  <1>8. ASSUME NEW kept \in TeamId, NEW lost \in TeamId, Merge(kept, lost) PROVE TidyIInv'
    <2>1. /\ kept \in Teams /\ lost \in Teams /\ kept # lost
          /\ gone' = gone \union {lost} /\ job' = job
          /\ Teams' = Teams \ {lost}
      BY <1>8 DEF Merge, TidyIInv, IInv, TypeOK, Teams
    <2>2. lost \notin gone
      BY <2>1 DEF TidyIInv
    <2>3. mode = "tidy" => \A s \in Session : job[s].op = "none"
      BY <1>2, <2>1, <2>2 DEF Owned, JobsMean, JobOK, Stage
    <2>4. mode' = "tidy" => \A s \in Session : LiveJob(job[s])'
      BY <2>1, <2>3 DEF LiveJob
    <2>5. TidyIndex'
      <3>1. \A s \in Source, c \in Club : ref'[s][c] = Kept(kept, lost, ref[s][c])
        BY <1>8, NoneApart DEF Merge
      <3> QED BY <2>1, <3>1 DEF Kept, TidyIInv, TidyIndex
    <2>6. (Teams \intersect gone)' = {}
      BY <2>1 DEF TidyIInv
    <2> QED BY <2>4, <2>5, <2>6 DEF TidyIInv
  <1> QED BY <1>3, <1>4, <1>5, <1>6, <1>7, <1>8 DEF Office

(* At the start there are no rows, entries or jobs. *)
LEMMA InitTidy == MCInit => TidyIInv
  <1> SUFFICES ASSUME MCInit PROVE TidyIInv
    OBVIOUS
  <1>1. IInv
    BY InitIInv DEF MCInit
  <1>2. gone = {} /\ \A s \in Session : job[s] = IdleJob
    BY DEF MCInit, Init
  <1>3. TidyIndex
    BY NoneApart DEF MCInit, Init, TidyIndex
  <1> QED BY <1>1, <1>2, <1>3, TidyIdle DEF TidyIInv

(* Every step keeps the index tidy. *)
LEMMA StepTidy == TidyIInv /\ [MCNext]_<<vars, mode>> => TidyIInv'
  <1> SUFFICES ASSUME TidyIInv, [MCNext]_<<vars, mode>> PROVE TidyIInv'
    OBVIOUS
  <1>1. CASE UNCHANGED <<vars, mode>>
    <2>1. Teams' = Teams /\ gone' = gone /\ job' = job /\ IInv'
      BY <1>1, StepIInv DEF vars, Teams, TidyIInv
    <2>2. TidyIndex'
      BY <1>1, <2>1 DEF vars, TidyIInv, TidyIndex
    <2> QED BY <1>1, <2>1, <2>2 DEF TidyIInv, LiveJob
  <1>2. CASE MCNext
    <2>1. mode' = mode
      BY <1>2 DEF MCNext
    <2>2. ASSUME NEW w \in Worker, Sync(w) PROVE TidyIInv'
      <3>1. IInv'
        BY <2>2, StepIInv DEF Next, TidyIInv
      <3> QED BY <2>1, <2>2, <3>1, TidySync
    <2>3. CASE Office
      <3>1. IInv'
        BY <2>3, StepIInv DEF Next, TidyIInv
      <3>2. mode = "tidy" /\ (\E s \in Session : job[s].pc # "idle") => gone' \subseteq gone
        BY <1>2 DEF MCNext, Tidy, Busy
      <3> QED BY <2>1, <2>3, <3>1, <3>2, TidyOffice
    <2>4. ASSUME NEW s \in Session, Abort(s) PROVE TidyIInv'
      <3>1. IInv'
        BY <2>4, StepIInv DEF Next, TidyIInv
      <3>2. job'[s] = IdleJob /\ \A r \in Session : r # s => job'[r] = job[r]
        BY <2>4 DEF Abort, TidyIInv, IInv, TypeOK
      <3> QED BY <2>1, <2>4, <3>1, <3>2, TidyIdle, TidyLocalStep DEF Abort
    <2> QED BY <1>2, <2>2, <2>3, <2>4 DEF MCNext
  <1> QED BY <1>1, <1>2

(* As long as the merge script runs while no sync, import or mapping does,   *)
(* the index never leads to a deleted team, in whatever order they come.     *)
THEOREM IndexStaysTidy == MCSpec => []TidyIndex
  BY InitTidy, StepTidy, PTL DEF MCSpec, TidyIInv

-----------------------------------------------------------------------------
(* Where one job follows the other, what a job has read is still so when it  *)
(* writes: reading again would find the same rows, or as before none.        *)
UpToDate(j) ==
    /\ j.op = "sync_teams" /\ j.pc = "save" => j.row = ExistingTeam("api", j.of)
    /\ j.op = "sync_fixtures" /\ j.pc = "save" => j.row = ExistingFixture("api", j.of)
    /\ j.op \in {"sync_upcoming", "import"} /\ j.pc = "save" /\ j.row = None =>
           SameMatch(j.home, j.away, j.day) = None
    /\ j.op = "import" => \A c \in {Home[j.of], Away[j.of]} : Called(c) # {} => c \in j.known
OneAtATime == \A s, t \in Session : Busy(s) /\ Busy(t) => s = t
FreshIInv == TidyIInv /\ (mode = "tidy" => OneAtATime /\ \A s \in Session : UpToDate(job[s]))

(* A step of one session, up to date after it, while the others do nothing. *)
LEMMA FreshStep ==
    ASSUME FreshIInv, TidyIInv', mode' = mode, mode = "tidy" => Tidy,
           NEW s \in Session, \A r \in Session : r # s => job'[r] = job[r],
           Busy(s) \/ Busy(s)', mode = "tidy" => UpToDate(job[s])'
    PROVE  FreshIInv'
  <1> SUFFICES ASSUME mode = "tidy", NEW r \in Session, r # s PROVE UpToDate(job[r])'
    BY DEF FreshIInv, OneAtATime, Tidy
  <1>1. job'[r].pc = "idle"
    BY DEF Busy, Tidy, FreshIInv, OneAtATime
  <1>2. PICK owner : JobOK(owner, job[r])'
    BY DEF TidyIInv, IInv, Owned, JobsMean
  <1>3. job'[r].op = "none"
    BY <1>1, <1>2 DEF JobOK, Stage
  <1> QED BY <1>3 DEF UpToDate

(* Steps of the worker. *)
LEMMA FreshSync ==
    ASSUME FreshIInv, TidyIInv', mode' = mode, mode = "tidy" => Tidy,
           NEW w \in Worker, Sync(w)
    PROVE  FreshIInv'
  <1>1. w \in Session /\ job \in [Session -> Job] /\ job[w] \in Job
    BY DEF Session, FreshIInv, TidyIInv, IInv, TypeOK
  <1>2. PICK owner : JobOK(owner, job[w])
    BY <1>1 DEF FreshIInv, TidyIInv, IInv, Owned, JobsMean
  <1>3. ASSUME NEW c \in Club, ReadTeam(w, c) PROVE FreshIInv'
    <2> DEFINE j == [IdleJob EXCEPT !.op = "sync_teams", !.pc = "save", !.of = c, !.day = 0,
                                    !.row = ExistingTeam("api", c), !.home = None, !.away = None]
    <2>1. job' = [job EXCEPT ![w] = j] /\ UNCHANGED <<team, fixture, ref>>
      BY <1>3 DEF ReadTeam, Begin
    <2>2. j.op = "sync_teams" /\ j.pc = "save" /\ j.of = c /\ j.row = ExistingTeam("api", c)
      BY DEF IdleJob
    <2> HIDE DEF j
    <2>3. job'[w] = j /\ \A r \in Session : r # w => job'[r] = job[r]
      BY <1>1, <2>1
    <2>4. ExistingTeam("api", c)' = ExistingTeam("api", c)
      BY <2>1 DEF ExistingTeam, Teams
    <2>5. UpToDate(job[w])' /\ Busy(w)'
      BY <2>2, <2>3, <2>4 DEF UpToDate, Busy, ExistingTeam
    <2> QED BY <1>1, <2>3, <2>5, FreshStep
  <1>4. ASSUME NEW s \in {"api", "alternate"}, NEW m \in Match, NEW day \in AllDays,
               ReadFixture(w, s, m, day)
        PROVE  FreshIInv'
    <2> DEFINE home == ExistingTeam(s, Home[m])
               away == ExistingTeam(s, Away[m])
               known == ExistingFixture(s, m)
               j == [IdleJob EXCEPT !.op = IF s = "api" THEN "sync_fixtures" ELSE "sync_upcoming",
                        !.pc = "save", !.of = m, !.day = day,
                        !.row = IF known = None /\ s # "api" THEN SameMatch(home, away, day)
                                ELSE known,
                        !.home = home, !.away = away]
    <2>1. job' = [job EXCEPT ![w] = j] /\ UNCHANGED <<team, fixture, ref>>
      BY <1>4 DEF ReadFixture, Begin
    <2>2. /\ j.op = IF s = "api" THEN "sync_fixtures" ELSE "sync_upcoming"
          /\ j.pc = "save" /\ j.of = m /\ j.home = home /\ j.away = away /\ j.day = day
          /\ s = "api" => j.row = known
          /\ s # "api" /\ j.row = None => SameMatch(home, away, day) = None
      BY DEF IdleJob
    <2> HIDE DEF j, home, away
    <2>3. job'[w] = j /\ \A r \in Session : r # w => job'[r] = job[r]
      BY <1>1, <2>1
    <2>4. Fixtures' = Fixtures /\ fixture' = fixture /\ ref' = ref
      BY <2>1 DEF Fixtures
    <2>5. s = "api" => job'[w].op = "sync_fixtures" /\ job'[w].row = ExistingFixture("api", m)'
      BY <2>2, <2>3, <2>4 DEF ExistingFixture
    <2>6. s # "api" => /\ job'[w].op = "sync_upcoming"
                       /\ job'[w].row = None => SameMatch(job[w].home, job[w].away, job[w].day)' = None
      BY <2>2, <2>3, <2>4 DEF SameMatch, Window
    <2>7. job'[w].of = m /\ job'[w].pc = "save"
      BY <2>2, <2>3
    <2>8. UpToDate(job[w])' /\ Busy(w)'
      BY <2>5, <2>6, <2>7 DEF UpToDate, Busy, ExistingFixture
    <2> QED BY <1>1, <2>3, <2>8, FreshStep
  <1>5. ASSUME SaveTeam(w) \/ SaveFixture(w) PROVE FreshIInv'
    <2>1. PICK i : GoOn(w, i)
      BY <1>5 DEF SaveTeam, SaveFixture
    <2>2. /\ job'[w].op = job[w].op /\ job'[w].pc = "write"
          /\ \A r \in Session : r # w => job'[r] = job[r]
      BY <1>1, <2>1 DEF GoOn, Job
    <2>3. job[w].op # "import" /\ Busy(w)
      BY <1>5 DEF SaveTeam, SaveFixture, Busy
    <2> QED BY <1>1, <2>2, <2>3, FreshStep DEF UpToDate
  <1>6. ASSUME Refuse(w) \/ WriteRef(w) PROVE FreshIInv'
    <2>1. /\ job'[w] = IdleJob /\ \A r \in Session : r # w => job'[r] = job[r]
          /\ Busy(w)
      BY <1>1, <1>6 DEF Refuse, WriteRef, Busy
    <2> QED BY <1>1, <2>1, FreshStep DEF UpToDate, IdleJob
  <1> QED BY <1>3, <1>4, <1>5, <1>6 DEF Sync

(* Steps of the desk. *)
LEMMA FreshOffice ==
    ASSUME FreshIInv, TidyIInv', mode' = mode, mode = "tidy" => Tidy, Office
    PROVE  FreshIInv'
  <1>1. Desk \in Session /\ job \in [Session -> Job] /\ job[Desk] \in Job
    BY DEF Session, FreshIInv, TidyIInv, IInv, TypeOK
  <1>2. PICK owner : \A s \in Session : JobOK(owner, job[s])
    BY DEF FreshIInv, TidyIInv, IInv, Owned, JobsMean
  <1>3. ASSUME NEW m \in Match, NEW day \in AllDays, ReadCatalogue(m, day) PROVE FreshIInv'
    <2>1. /\ job'[Desk].op = "import" /\ job'[Desk].pc = "read" /\ job'[Desk].of = m
          /\ job'[Desk].known = {c \in {Home[m], Away[m]} : Called(c) # {}}
          /\ \A r \in Session : r # Desk => job'[r] = job[r]
      BY <1>1, <1>3 DEF ReadCatalogue, IdleJob
    <2>2. \A c : Called(c)' = Called(c)
      BY <1>3 DEF ReadCatalogue, Called, Teams
    <2>3. UpToDate(job[Desk])' /\ Busy(Desk)'
      BY <2>1, <2>2 DEF UpToDate, Busy, Called
    <2> QED BY <1>1, <2>1, <2>3, FreshStep
  <1>4. CASE ReadFile
    <2> DEFINE m == job[Desk].of
               home == TeamOfFile(Home[m], job[Desk].home)
               away == TeamOfFile(Away[m], job[Desk].away)
               known == ExistingFixture("file", m)
    <2>1. /\ job'[Desk].op = job[Desk].op /\ job'[Desk].pc = "save" /\ job'[Desk].of = m
          /\ job'[Desk].known = job[Desk].known /\ job'[Desk].day = job[Desk].day
          /\ job'[Desk].home = home /\ job'[Desk].away = away
          /\ job'[Desk].row = None => SameMatch(home, away, job[Desk].day) = None
          /\ \A r \in Session : r # Desk => job'[r] = job[r]
          /\ UNCHANGED <<team, fixture, ref>>
      BY <1>1, <1>4 DEF ReadFile, Job
    <2>2. job[Desk].op = "import" /\ Busy(Desk)
      BY <1>1, <1>2, <1>4 DEF ReadFile, JobOK, Stage, Busy
    <2> HIDE DEF m, home, away
    <2>3. \A c : Called(c)' = Called(c)
      BY <2>1 DEF Called, Teams
    <2>4. mode = "tidy" =>
            \A c \in {Home[m], Away[m]} : Called(c) # {} => c \in job[Desk].known
      BY <1>1, <2>2 DEF FreshIInv, UpToDate, m
    <2>5. job'[Desk].row = None =>
              SameMatch(job[Desk].home, job[Desk].away, job[Desk].day)' = None
      BY <2>1 DEF SameMatch, Window, Fixtures
    <2>6. mode = "tidy" => UpToDate(job[Desk])'
      BY <2>1, <2>2, <2>3, <2>4, <2>5 DEF UpToDate, Called
    <2> QED BY <1>1, <2>1, <2>2, <2>6, FreshStep
  <1>5. ASSUME CommitFile \/ CommitMapping PROVE FreshIInv'
    <2>1. /\ job'[Desk] = IdleJob /\ \A r \in Session : r # Desk => job'[r] = job[r]
          /\ Busy(Desk)
      BY <1>1, <1>5 DEF CommitFile, CommitMapping, Busy
    <2> QED BY <1>1, <2>1, FreshStep DEF UpToDate, IdleJob
  <1>6. ASSUME NEW i \in TeamId, ReadMapping(i) PROVE FreshIInv'
    <2>1. /\ job'[Desk].op = "confirm" /\ job'[Desk].pc = "save"
          /\ \A r \in Session : r # Desk => job'[r] = job[r]
      BY <1>1, <1>6 DEF ReadMapping, IdleJob
    <2> QED BY <1>1, <2>1, FreshStep DEF UpToDate, Busy
  <1>7. ASSUME NEW kept \in TeamId, NEW lost \in TeamId, Merge(kept, lost) PROVE FreshIInv'
    <2>1. lost \in Teams /\ gone' = gone \union {lost} /\ job' = job
      BY <1>7 DEF Merge
    <2>2. lost \notin gone
      BY <2>1 DEF FreshIInv, TidyIInv
    <2>3. mode = "tidy" => \A s \in Session : job[s].op = "none"
      BY <1>2, <2>1, <2>2 DEF Tidy, Busy, JobOK, Stage
    <2> QED BY <2>1, <2>3 DEF FreshIInv, OneAtATime, UpToDate, Busy
  <1> QED BY <1>3, <1>4, <1>5, <1>6, <1>7 DEF Office

(* At the start nothing runs. *)
LEMMA InitFresh == MCInit => FreshIInv
  <1> SUFFICES ASSUME MCInit PROVE FreshIInv
    OBVIOUS
  <1>1. \A s \in Session : job[s] = IdleJob
    BY DEF MCInit, Init
  <1>2. \A s \in Session : ~Busy(s) /\ UpToDate(job[s])
    BY <1>1 DEF Busy, UpToDate, IdleJob
  <1> QED BY <1>2, InitTidy DEF FreshIInv, OneAtATime

(* Every step keeps what is being done up to date. *)
LEMMA StepFresh == FreshIInv /\ [MCNext]_<<vars, mode>> => FreshIInv'
  <1> SUFFICES ASSUME FreshIInv, [MCNext]_<<vars, mode>> PROVE FreshIInv'
    OBVIOUS
  <1>1. TidyIInv'
    BY StepTidy DEF FreshIInv
  <1>2. CASE UNCHANGED <<vars, mode>>
    <2>1. Teams' = Teams /\ Fixtures' = Fixtures /\ job' = job /\ ref' = ref
          /\ team' = team /\ fixture' = fixture /\ mode' = mode
      BY <1>2 DEF vars, Teams, Fixtures
    <2>2. \A s \in Session : UpToDate(job[s]) => UpToDate(job[s])'
      BY <2>1 DEF UpToDate, ExistingTeam, ExistingFixture, SameMatch, Window, Called
    <2> QED BY <1>1, <2>1, <2>2 DEF FreshIInv, OneAtATime, Busy
  <1>3. CASE MCNext
    <2>1. mode' = mode /\ (mode = "tidy" => Tidy)
      BY <1>3 DEF MCNext
    <2>2. ASSUME NEW s \in Session, Abort(s) PROVE FreshIInv'
      <3>1. /\ job'[s] = IdleJob /\ \A r \in Session : r # s => job'[r] = job[r]
            /\ Busy(s)
        BY <2>2 DEF Abort, Busy, FreshIInv, TidyIInv, IInv, TypeOK
      <3> QED BY <1>1, <2>1, <3>1, FreshStep DEF UpToDate, IdleJob
    <2> QED BY <1>1, <1>3, <2>1, <2>2, FreshSync, FreshOffice DEF MCNext
  <1> QED BY <1>2, <1>3

(* In one mode of running jobs, one after the other, each job's reads still  *)
(* hold when it writes.                                                      *)
THEOREM FreshInductiveInvariant == MCSpec => []FreshIInv
  BY InitFresh, StepFresh, PTL DEF MCSpec

-----------------------------------------------------------------------------
(* One row of a club or match means there is such a row, and only it. *)
LEMMA SingleMeans ==
    ASSUME TypeOK
    PROVE  /\ \A c : Single(RowsOf(c)) <=> \E i : RowsOf(c) = {i}
           /\ \A m : Single(RowsOfMatch(m)) <=> \E i : RowsOfMatch(m) = {i}
  <1>1. IsFiniteSet(TeamId) /\ IsFiniteSet(FixtureId)
    BY FS_Interval, BoundAssumption DEF TeamId, FixtureId
  <1>2. \A c : IsFiniteSet(RowsOf(c))
    BY <1>1, FS_Subset DEF RowsOf, Teams
  <1>3. \A m : IsFiniteSet(RowsOfMatch(m))
    BY <1>1, FS_Subset DEF RowsOfMatch, Fixtures
  <1> QED BY <1>2, <1>3, FS_Singleton DEF Single

(* If the match and both its clubs have one row each, whoever looks for it by *)
(* its teams and one of its days finds it.                                    *)
LEMMA SingleIsFound ==
    ASSUME TypeOK, RefsAreLive, NoMixUp, PlayedOnItsDays,
           NEW m \in Match, NEW day \in Days[m], Single(RowsOfMatch(m)),
           Single(RowsOf(Home[m])), Single(RowsOf(Away[m])),
           NEW home \in RowsOf(Home[m]), NEW away \in RowsOf(Away[m])
    PROVE  SameMatch(home, away, day) # None
  <1>1. PICK i : RowsOfMatch(m) = {i}
    BY SingleMeans
  <1>2. RowsOf(Home[m]) = {home} /\ RowsOf(Away[m]) = {away}
    BY SingleMeans
  <1>3. i \in Fixtures /\ fixture[i].match = m /\ i # None
    BY <1>1, Fields, NoneApart DEF RowsOfMatch
  <1>4. /\ fixture[i].home = home /\ fixture[i].away = away
    BY <1>2, <1>3 DEF RefsAreLive, NoMixUp, RowsOf
  <1>5. fixture[i].day - day \in -1..1
    BY <1>3, DaysAssumption DEF PlayedOnItsDays
  <1>6. \A x \in Window(home, away, day) : x = i
    <2> SUFFICES ASSUME NEW x \in Window(home, away, day) PROVE fixture[x].match = m
      BY <1>1 DEF Window, RowsOfMatch
    <2>1. /\ x \in Fixtures /\ fixture[x].home = home /\ fixture[x].away = away
          /\ fixture[x].day - day \in -1..1 /\ fixture[x].match \in Match
          /\ fixture[x].day \in Days[fixture[x].match]
      BY Fields DEF Window, PlayedOnItsDays
    <2>2. Home[fixture[x].match] = Home[m] /\ Away[fixture[x].match] = Away[m]
      BY <2>1 DEF NoMixUp, RowsOf
    <2> QED BY <2>1, <2>2, DaysAssumption
  <1>7. Window(home, away, day) = {i}
    BY <1>3, <1>4, <1>5, <1>6 DEF Window
  <1>8. Cardinality(Window(home, away, day)) = 1
    BY <1>7, FS_Singleton
  <1>9. TheOne({i}) = i
    BY DEF TheOne
  <1> QED BY <1>3, <1>7, <1>8, <1>9 DEF SameMatch

(* A club that goes by one name in every source and is in the index never    *)
(* gets a second row, nor loses the one it has.                              *)
LEMMA OneTeamStep ==
    ASSUME FreshIInv, [MCNext]_<<vars, mode>>, mode = "tidy",
           NEW a \in Club, Name["api"][a] = Name["file"][a],
           ref["api"][a] # None, Single(RowsOf(a))
    PROVE  RowsOf(a)' = RowsOf(a)
  <1>1. TypeOK /\ IInv /\ TidyIInv
    BY DEF FreshIInv, TidyIInv, IInv
  <1>2. PICK owner : \A s \in Session : JobOK(owner, job[s])
    BY <1>1 DEF IInv, Owned, JobsMean
  <1>3. ref["api"][a] \in Teams /\ RowsOf(a) # {}
    BY <1>1, SingleMeans DEF TidyIInv, TidyIndex, Source
  <1>4. ASSUME team' = team PROVE RowsOf(a)' = RowsOf(a)
    BY <1>4 DEF RowsOf, Teams
  <1>5. ASSUME NEW w \in Worker, SaveTeam(w) PROVE RowsOf(a)' = RowsOf(a)
    <2>1. /\ w \in Session /\ job[w].op = "sync_teams" /\ job[w].pc = "save"
          /\ job[w].of \in Club /\ UpToDate(job[w])
      BY <1>2, <1>5 DEF Session, SaveTeam, JobOK, TeamJob, FreshIInv
    <2> DEFINE c == job[w].of
    <2>2. PICK i \in TeamId : Chosen(w, i, FreshTeams) /\ SaveTeamAs(i, c, Name["api"][c])
      BY <1>5 DEF SaveTeam
    <2> HIDE DEF c
    <2> DEFINE row == [club |-> IF team[i] = None THEN c ELSE team[i].club,
                       name |-> Name["api"][c]]
    <2>3. team' = [team EXCEPT ![i] = row] /\ row \in TeamRow
      BY <1>1, <2>1, <2>2 DEF SaveTeamAs, TypeOK, TeamRow, Names, c
    <2>4. row # None /\ row.club = IF team[i] = None THEN c ELSE team[i].club
      BY <2>3, RowAssumption
    <2> HIDE DEF row
    <2>5. i \in Teams \/ (i \notin Teams /\ c # a)
      <3>1. CASE job[w].row # None
        BY <1>1, <2>1, <2>2, <3>1 DEF Chosen, UpToDate, ExistingTeam
      <3>2. CASE job[w].row = None
        <4>1. ref["api"][c] \notin Teams
          BY <2>1, <3>2, NoneApart DEF UpToDate, ExistingTeam, c, Teams
        <4> QED BY <1>3, <2>2, <3>2, <4>1 DEF Chosen, Least, FreshTeams
      <3> QED BY <3>1, <3>2
    <2> QED BY <1>1, <2>3, <2>4, <2>5 DEF RowsOf, Teams, TypeOK
  <1>6. ASSUME CommitFile PROVE RowsOf(a)' = RowsOf(a)
    <2> DEFINE m == job[Desk].of
    <2>1. NewRows
      BY <1>1, <1>6, CommitFileStep
    <2>2. PICK home \in TeamId, away \in TeamId :
              /\ Teams' = Teams \union {home, away}
              /\ TeamOf(Home[m], job[Desk].home, home)
              /\ TeamOf(Away[m], job[Desk].away, away)
              /\ \A x \in Teams : team'[x].club = team[x].club
      BY <2>1 DEF NewRows
    <2>3. /\ Desk \in Session /\ job[Desk].op = "import" /\ ImportJob(job[Desk])
          /\ UpToDate(job[Desk])
      BY <1>2, <1>6 DEF Session, CommitFile, JobOK, FreshIInv
    <2>4. Called(a) # {}
      <3>1. PICK i \in Teams : team[i].club = a
        BY <1>3 DEF RowsOf
      <3>2. team[i].name = Name["file"][a]
        BY <1>1, <3>1 DEF IInv, NamedAsClub
      <3> QED BY <3>1, <3>2 DEF Called
    <2>5. /\ Home[m] = a => home \in Teams
          /\ Away[m] = a => away \in Teams
      BY <2>2, <2>3, <2>4 DEF UpToDate, ImportJob, TeamOf
    <2> HIDE DEF m
    <2> QED BY <2>2, <2>5 DEF RowsOf, TeamOf
  <1>7. ASSUME NEW kept \in TeamId, NEW lost \in TeamId, Merge(kept, lost)
        PROVE  RowsOf(a)' = RowsOf(a)
    <2>1. /\ kept \in Teams /\ lost \in Teams /\ team[kept].club = team[lost].club
          /\ team[kept].name # team[lost].name /\ team' = [team EXCEPT ![lost] = None]
      BY <1>7 DEF Merge
    <2>2. team[lost].club # a
      BY <1>1, <2>1 DEF IInv, NamedAsClub
    <2> QED BY <1>1, <2>1, <2>2 DEF RowsOf, Teams, TypeOK
  <1>8. CASE UNCHANGED <<vars, mode>>
    BY <1>4, <1>8 DEF vars
  <1>9. CASE MCNext
    BY <1>4, <1>5, <1>6, <1>7, <1>9, ZenonT(40) DEF MCNext, Sync, Office, ReadTeam, ReadFixture, SaveFixture,
       Refuse, WriteRef, Abort, ReadCatalogue, ReadFile, ReadMapping, CommitMapping
  <1> QED BY <1>8, <1>9

(* A match that is known under the default provider's id, with one row of it *)
(* and of each of its clubs, never gets a second row.                        *)
LEMMA OneMatchStep ==
    ASSUME FreshIInv, [MCNext]_<<vars, mode>>, mode = "tidy", NEW m \in Match,
           ref["api"][m] # None, Single(RowsOfMatch(m)),
           \A c \in {Home[m], Away[m]} : Single(RowsOf(c)) /\ Single(RowsOf(c)')
    PROVE  RowsOfMatch(m)' = RowsOfMatch(m)
  <1>1. TypeOK /\ IInv /\ TidyIInv /\ RefsAreLive /\ NoMixUp /\ PlayedOnItsDays
    BY DEF FreshIInv, TidyIInv, IInv
  <1>2. PICK owner \in Owner : RowsMean(owner) /\ \A s \in Session : JobOK(owner, job[s])
    BY <1>1 DEF IInv, Owned, JobsMean
  <1>3. ref["api"][m] \in Fixtures
    BY <1>1 DEF RefsAreLive, Source
  <1>4. ASSUME fixture' = fixture PROVE RowsOfMatch(m)' = RowsOfMatch(m)
    BY <1>4 DEF RowsOfMatch, Fixtures
  (* Who writes a match as a new row has looked for it and not found it. *)
  <1>5. ASSUME NEW home \in Teams, NEW away \in Teams, NEW day \in Days[m],
               Means(owner, home, Home[m]), Means(owner, away, Away[m])
        PROVE  SameMatch(home, away, day) # None
    <2>1. home \in RowsOf(Home[m]) /\ away \in RowsOf(Away[m])
      BY <1>2, <1>5 DEF RowsOf, Means, RowsMean
    <2> QED BY <1>1, <2>1, SingleIsFound
  <1>6. ASSUME NEW w \in Worker, SaveFixture(w) PROVE RowsOfMatch(m)' = RowsOfMatch(m)
    <2> DEFINE j == job[w]
    <2>1. /\ w \in Session /\ j.op \in {"sync_fixtures", "sync_upcoming"} /\ j.pc = "save"
          /\ FixtureJob(owner, j) /\ UpToDate(j) /\ j.home \in Teams /\ j.away \in Teams
      BY <1>2, <1>6 DEF Session, SaveFixture, JobOK, FreshIInv
    <2>2. /\ j.of \in Match /\ j.day \in Days[j.of]
          /\ Means(owner, j.home, Home[j.of]) /\ Means(owner, j.away, Away[j.of])
          /\ j.row # None => j.row \in Fixtures /\ fixture[j.row].match = j.of
      BY <1>1, <2>1, Fields, NoneApart DEF FixtureJob, OfFixture
    <2>3. PICK i \in FixtureId : /\ Chosen(w, i, FreshFixtures)
                                 /\ SaveFixtureAs(i, j.of, j.day, j.home, j.away)
      BY <1>6 DEF SaveFixture
    <2>4. i \in Fixtures => fixture[i].match = j.of
      BY <2>2, <2>3 DEF Chosen, Least, FreshFixtures
    <2>5. /\ Fixtures' = Fixtures \union {i} /\ fixture'[i].match = j.of
          /\ \A x \in Fixtures : fixture'[x].match = fixture[x].match
      BY <1>1, <2>1, <2>2, <2>3, <2>4, Fields, SaveFixtureAsStep
    <2>6. i \in Fixtures \/ j.of # m
      <3> SUFFICES ASSUME j.of = m, j.row = None PROVE FALSE
        BY <2>2, <2>3 DEF Chosen
      <3>1. CASE j.op = "sync_fixtures"
        BY <1>1, <1>3, <2>1, <3>1, Fields, NoneApart DEF UpToDate, ExistingFixture
      <3>2. CASE j.op = "sync_upcoming"
        BY <1>5, <2>1, <2>2, <3>2 DEF UpToDate
      <3> QED BY <2>1, <3>1, <3>2
    <2> HIDE DEF j
    <2> QED BY <2>5, <2>6 DEF RowsOfMatch
  <1>7. ASSUME CommitFile PROVE RowsOfMatch(m)' = RowsOfMatch(m)
    <2> DEFINE j == job[Desk]
    <2>1. NewRows
      BY <1>1, <1>7, CommitFileStep
    <2>2. PICK home \in TeamId, away \in TeamId, i \in FixtureId :
              /\ Teams' = Teams \union {home, away}
              /\ TeamOf(Home[j.of], j.home, home) /\ TeamOf(Away[j.of], j.away, away)
              /\ \A x \in Teams : team'[x].club = team[x].club
              /\ Fixtures' = Fixtures \union {i} /\ fixture'[i].match = j.of
              /\ i \in Fixtures \/ j.row = None
              /\ \A x \in Fixtures : fixture'[x].match = fixture[x].match
      BY <2>1 DEF NewRows
    <2>3. /\ Desk \in Session /\ j.op = "import" /\ j.pc = "save" /\ UpToDate(j)
          /\ FixtureJob(owner, j)
      BY <1>2, <1>7 DEF Session, CommitFile, JobOK, FreshIInv
    <2>4. ASSUME j.of = m, i \notin Fixtures PROVE FALSE
      <3>1. /\ SameMatch(j.home, j.away, j.day) = None /\ j.day \in Days[m]
            /\ j.home # None => Means(owner, j.home, Home[m])
            /\ j.away # None => Means(owner, j.away, Away[m])
        BY <2>2, <2>3, <2>4 DEF UpToDate, FixtureJob
      <3>2. j.home # None => j.home \in Teams
        BY <1>7 DEF CommitFile
      <3>3. j.away # None => j.away \in Teams
        BY <1>7 DEF CommitFile
      <3>4. j.home = None \/ j.away = None
        BY <1>5, <3>1, <3>2, <3>3
      <3>5. ASSUME NEW c \in {Home[m], Away[m]}, NEW x \in TeamId,
                   x \in Teams', x \notin Teams, team'[x].club = c
            PROVE  FALSE
        <4>1. TypeOK'
          BY StepFresh DEF FreshIInv, TidyIInv, IInv
        <4>2. PICK y : RowsOf(c) = {y}
          BY <1>1, SingleMeans
        <4>3. PICK z : RowsOf(c)' = {z}
          <5>1. IsFiniteSet(TeamId)
            BY FS_Interval, BoundAssumption DEF TeamId
          <5>2. IsFiniteSet(RowsOf(c)')
            BY <5>1, FS_Subset DEF RowsOf, Teams
          <5> QED BY <5>2, FS_Singleton DEF Single
        <4>4. y \in RowsOf(c)' /\ x \in RowsOf(c)' /\ x \notin RowsOf(c)
          BY <2>2, <3>5, <4>2 DEF RowsOf
        <4> QED BY <4>2, <4>3, <4>4
      <3> QED BY <2>2, <2>4, <3>4, <3>5 DEF TeamOf
    <2> HIDE DEF j
    <2> QED BY <2>2, <2>4 DEF RowsOfMatch
  <1>8. ASSUME NEW kept \in TeamId, NEW lost \in TeamId, Merge(kept, lost)
        PROVE  RowsOfMatch(m)' = RowsOfMatch(m)
    BY <1>1, <1>8, MergeStep DEF RowsOfMatch
  <1>9. CASE UNCHANGED <<vars, mode>>
    BY <1>4, <1>9 DEF vars
  <1>10. CASE MCNext
    BY <1>4, <1>6, <1>7, <1>8, <1>10, ZenonT(40) DEF MCNext, Sync, Office, ReadTeam, ReadFixture, SaveTeam,
       Refuse, WriteRef, Abort, ReadCatalogue, ReadFile, ReadMapping, CommitMapping
  <1> QED BY <1>9, <1>10

(* A club that goes by one name in all sources (Name), once its id at the    *)
(* default provider is indexed and it has one row, keeps exactly that row,   *)
(* and a match of clubs with one row each keeps its one row: a job run after *)
(* another recognises what is there, whatever source it is from.             *)
THEOREM OneRowIsKept ==
    ASSUME A \in Club, Name["api"][A] = Name["file"][A]
    PROVE  MCSpec => OneRowStaysOne
  <1>1. FreshIInv /\ [MCNext]_<<vars, mode>> =>
            [mode = "tidy" =>
                /\ ref["api"][A] # None /\ Single(RowsOf(A)) => Single(RowsOf(A)')
                /\ \A m \in Match :
                      /\ ref["api"][m] # None /\ Single(RowsOfMatch(m))
                      /\ \A c \in {Home[m], Away[m]} : Single(RowsOf(c)) /\ Single(RowsOf(c)')
                      => Single(RowsOfMatch(m)')]_vars
    BY OneTeamStep, OneMatchStep
  <1> QED BY <1>1, FreshInductiveInvariant, PTL DEF MCSpec, OneRowStaysOne
=============================================================================
