----------------------- MODULE NotificationOutbox_proofs -----------------------
(***************************************************************************)
(* Theorems about NotificationOutbox with one server, which is how the     *)
(* repository deploys it, for any notifications and any bounds.  A second  *)
(* server takes the rows of the first back when it starts, so none of the  *)
(* three theorems holds with two.                                          *)
(***************************************************************************)
EXTENDS NotificationOutbox, FiniteSetTheorems, TLAPS

Steps == Live \cup {"none", "created"}
Jobs == [step : Steps, attempts : 0 .. MaxAttempts - 1]
NoteRows == [status : Statuses, attempts : 0 .. MaxAttempts - 1]

(* A live job is the only one of its notification, whose row says that it  *)
(* is being processed and has the attempts the job has read; a server that *)
(* is down has no job; a row that was never claimed was never tried, and   *)
(* requests only claim such rows.                                          *)
Held ==
  /\ \A n \in Notes : \A x, y \in Executors :
       job[x][n].step \in Live /\ job[y][n].step \in Live => x = y
  /\ \A n \in Notes : \A x \in Executors : job[x][n].step \in Live =>
       row[n].status = "PROCESSING" /\ job[x][n].attempts = row[n].attempts
  /\ \A x \in Executors : x[1] \notin up => \A n \in Notes : job[x][n] = NoJob
  /\ \A n \in Notes : row[n].status \in {"NONE", "PENDING"} => row[n].attempts = 0
  /\ \A n \in Notes : \A x \in Executors : x[2] = "dispatch" => job[x][n].attempts = 0

(* A message that was accepted is counted by its row, by the job that has  *)
(* yet to write it, or as unknown.                                         *)
Accepted(n) == \E x \in Executors : job[x][n].step = "accepted"

Counted ==
  \A n \in Notes :
    /\ delivered[n] <= unknown[n] + 1
    /\ row[n].status # "SENT" /\ ~Accepted(n) => delivered[n] <= unknown[n]

-----------------------------------------------------------------------------
(* Values.                                                                 *)
LEMMA LowAttempts == 0 \in 0 .. MaxAttempts - 1
BY NotificationAssumption

LEMMA NothingHeld == /\ NoJob \in Jobs
                     /\ NoJob.step = "none" /\ NoJob.attempts = 0
BY LowAttempts DEF NoJob, Jobs, Steps

LEMMA ExecutorShape ==
  /\ \A s \in Servers : /\ <<s, "dispatch">> \in Executors /\ <<s, "worker">> \in Executors
                        /\ <<s, "dispatch">>[1] = s /\ <<s, "worker">>[1] = s
                        /\ <<s, "dispatch">>[2] = "dispatch" /\ <<s, "worker">>[2] = "worker"
  /\ \A x \in Executors : x[1] \in Servers /\ x = <<x[1], x[2]>> /\ x[2] \in {"dispatch", "worker"}
BY DEF Executors

LEMMA Types ==
  ASSUME TypeOK
  PROVE  /\ row \in [Notes -> NoteRows] /\ job \in [Executors -> [Notes -> Jobs]]
         /\ \A n \in Notes : /\ row[n].status \in Statuses
                             /\ row[n].attempts \in 0 .. MaxAttempts - 1
                             /\ delivered[n] \in Nat /\ unknown[n] \in Nat
         /\ \A x \in Executors, n \in Notes : /\ job[x][n].step \in Steps
                                              /\ job[x][n].attempts \in 0 .. MaxAttempts - 1
BY DEF TypeOK, NoteRows, Jobs, Steps

(* The two ways a step writes one job.                                     *)
LEMMA Stepped ==
  ASSUME TypeOK, NEW x \in Executors, NEW n \in Notes, NEW step \in Steps, Step(x, n, step)
  PROVE  /\ job' \in [Executors -> [Notes -> Jobs]]
         /\ job'[x][n].step = step /\ job'[x][n].attempts = job[x][n].attempts
         /\ \A y \in Executors, m \in Notes : y # x \/ m # n => job'[y][m] = job[y][m]
<1> DEFINE j == [job[x][n] EXCEPT !.step = step]
<1>1. job' = [job EXCEPT ![x] = [job[x] EXCEPT ![n] = j]]
  BY DEF Step
<1>2. job \in [Executors -> [Notes -> Jobs]] /\ job[x][n] \in Jobs
  BY Types
<1>3. j \in Jobs /\ j.step = step /\ j.attempts = job[x][n].attempts
  BY <1>2 DEF Jobs
<1> HIDE DEF j
<1> QED BY <1>1, <1>2, <1>3

LEMMA Ended ==
  ASSUME TypeOK, NEW x \in Executors, NEW n \in Notes, Ends(x, n)
  PROVE  /\ job' \in [Executors -> [Notes -> Jobs]]
         /\ job'[x][n] = NoJob
         /\ \A y \in Executors, m \in Notes : y # x \/ m # n => job'[y][m] = job[y][m]
<1>1. job' = [job EXCEPT ![x] = [job[x] EXCEPT ![n] = NoJob]]
  BY DEF Ends
<1>2. job \in [Executors -> [Notes -> Jobs]]
  BY Types
<1> QED BY <1>1, <1>2, NothingHeld

LEMMA Written ==
  ASSUME TypeOK, NEW n \in Notes, NEW status \in Statuses, Status(n, status)
  PROVE  /\ row' \in [Notes -> NoteRows]
         /\ row'[n].status = status /\ row'[n].attempts = row[n].attempts
         /\ \A m \in Notes : m # n => row'[m] = row[m]
<1> DEFINE r == [row[n] EXCEPT !.status = status]
<1>1. row' = [row EXCEPT ![n] = r]
  BY DEF Status
<1>2. row \in [Notes -> NoteRows] /\ row[n] \in NoteRows
  BY Types
<1>3. r \in NoteRows /\ r.status = status /\ r.attempts = row[n].attempts
  BY <1>2 DEF NoteRows
<1> HIDE DEF r
<1> QED BY <1>1, <1>2, <1>3

-----------------------------------------------------------------------------
(* The steps of a job that leave the row alone, and those that end it and  *)
(* write it.                                                               *)
Moves(x, n) ==
  /\ UNCHANGED <<row, up>>
  /\ job' \in [Executors -> [Notes -> Jobs]]
  /\ job[x][n].step \in Live /\ job'[x][n].step \in Live
  /\ job'[x][n].attempts = job[x][n].attempts
  /\ \A y \in Executors, m \in Notes : y # x \/ m # n => job'[y][m] = job[y][m]

Leaves(x, n) ==
  /\ UNCHANGED up
  /\ row' \in [Notes -> NoteRows] /\ job' \in [Executors -> [Notes -> Jobs]]
  /\ \A m \in Notes : m # n => row'[m] = row[m]
  /\ \/ UNCHANGED row
     \/ job[x][n].step \in Live /\ row'[n].status \notin {"NONE", "PENDING"}
  /\ job'[x][n] = NoJob
  /\ \A y \in Executors, m \in Notes : y # x \/ m # n => job'[y][m] = job[y][m]

LEMMA HeldMoves ==
  ASSUME TypeOK, Held, NEW x \in Executors, NEW n \in Notes, Moves(x, n)
  PROVE  Held'
<1>1. \A y \in Executors, m \in Notes : job'[y][m].step \in Live <=> job[y][m].step \in Live
  BY DEF Moves
<1>2. \A y \in Executors, m \in Notes : job'[y][m].attempts = job[y][m].attempts
  BY DEF Moves
<1>4. x[1] \in up
  BY NothingHeld DEF Held, Moves, Live
<1>5. \A y \in Executors : y[1] \notin up' => \A m \in Notes : job'[y][m] = NoJob
  BY <1>4 DEF Held, Moves
<1>6. UNCHANGED row
  BY DEF Moves
<1> QED BY <1>1, <1>2, <1>5, <1>6 DEF Held

LEMMA HeldLeaves ==
  ASSUME TypeOK, Held, NEW x \in Executors, NEW n \in Notes, Leaves(x, n)
  PROVE  Held'
<1>1. \A y \in Executors, m \in Notes : job'[y][m] = NoJob \/ job'[y][m] = job[y][m]
  BY DEF Leaves
<1>2. \A y \in Executors, m \in Notes : job'[y][m].step \in Live => job[y][m].step \in Live
                                        /\ job'[y][m] = job[y][m]
  BY <1>1, NothingHeld DEF Live
<1>3. \A y \in Executors, m \in Notes : job'[y][m].step \in Live => row'[m] = row[m]
  <2> SUFFICES ASSUME NEW y \in Executors, NEW m \in Notes, job'[y][m].step \in Live
               PROVE  row'[m] = row[m]
    OBVIOUS
  <2>1. CASE m # n
    BY <2>1 DEF Leaves
  <2>2. CASE m = n
    <3>1. y # x
      BY <2>2, NothingHeld DEF Leaves, Live
    <3>2. job[x][n].step \notin Live
      BY <1>2, <2>2, <3>1 DEF Held
    <3> QED BY <2>2, <3>2 DEF Leaves
  <2> QED BY <2>1, <2>2
<1>4. \A m \in Notes : row'[m].status \in {"NONE", "PENDING"} => row'[m].attempts = 0
  BY DEF Leaves, Held
<1>5. \A y \in Executors, m \in Notes : y[2] = "dispatch" => job'[y][m].attempts = 0
  BY <1>1, NothingHeld DEF Held
<1>6. \A y \in Executors : y[1] \notin up' => \A m \in Notes : job'[y][m] = NoJob
  BY <1>1 DEF Held, Leaves
<1>7. \A m \in Notes : \A y, z \in Executors :
        job'[y][m].step \in Live /\ job'[z][m].step \in Live => y = z
  BY <1>2 DEF Held
<1>8. \A m \in Notes : \A y \in Executors : job'[y][m].step \in Live =>
        row'[m].status = "PROCESSING" /\ job'[y][m].attempts = row'[m].attempts
  BY <1>2, <1>3 DEF Held
<1> QED BY <1>4, <1>5, <1>6, <1>7, <1>8 DEF Held

-----------------------------------------------------------------------------
(* The steps, one by one: the row, the jobs and the two counts.            *)
SameCounts(n) == delivered'[n] = delivered[n] /\ unknown'[n] = unknown[n]

LEMMA SuppressEffect ==
  ASSUME TypeOK, NEW x \in Executors, NEW n \in Notes, Suppress(x, n)
  PROVE  /\ Leaves(x, n) /\ row'[n].status = "SUPPRESSED" /\ job[x][n].step = "claimed"
         /\ UNCHANGED <<silenced, counters, delivered, unknown>>
<1>1. "SUPPRESSED" \in Statuses
  BY DEF Statuses, Terminal
<1> QED BY <1>1, Written, Ended DEF Suppress, Leaves, Live, history

LEMMA ClearEffect ==
  ASSUME TypeOK, NEW x \in Executors, NEW n \in Notes, Clear(x, n)
  PROVE  /\ Moves(x, n) /\ job[x][n].step = "claimed" /\ job'[x][n].step = "cleared"
         /\ UNCHANGED <<silenced, delivered, unknown>>
<1>1. "cleared" \in Steps
  BY DEF Steps, Live
<1> QED BY <1>1, Stepped DEF Clear, Moves, Live, history

LEMMA SendEffect ==
  ASSUME TypeOK, NEW x \in Executors, NEW n \in Notes, Send(x, n)
  PROVE  /\ Moves(x, n) /\ job[x][n].step = "cleared" /\ UNCHANGED silenced
         /\ \/ /\ job'[x][n].step = "accepted" /\ UNCHANGED <<unknown, counters>>
               /\ delivered' = [delivered EXCEPT ![n] = @ + 1]
            \/ /\ job'[x][n].step \in {"transient", "permanent"}
               /\ UNCHANGED <<delivered, unknown, counters>>
            \/ /\ job'[x][n].step = "transient" /\ Fault
               /\ delivered' = [delivered EXCEPT ![n] = @ + 1]
               /\ unknown' = [unknown EXCEPT ![n] = @ + 1]
<1>1. {"accepted", "transient", "permanent"} \subseteq Steps
  BY DEF Steps, Live
<1>2. UNCHANGED <<row, up, silenced>> /\ job[x][n].step = "cleared"
  BY DEF Send
<1>3. CASE /\ Step(x, n, "accepted")
           /\ delivered' = [delivered EXCEPT ![n] = @ + 1]
           /\ UNCHANGED <<unknown, counters>>
  BY <1>1, <1>2, <1>3, Stepped DEF Moves, Live
<1>4. ASSUME NEW refusal \in {"transient", "permanent"}, Step(x, n, refusal),
             UNCHANGED <<history, counters>>
      PROVE  /\ Moves(x, n) /\ job'[x][n].step \in {"transient", "permanent"}
             /\ UNCHANGED <<delivered, unknown, counters>>
  BY <1>1, <1>2, <1>4, Stepped DEF Moves, Live, history
<1>5. CASE /\ Fault /\ Step(x, n, "transient")
           /\ delivered' = [delivered EXCEPT ![n] = @ + 1]
           /\ unknown' = [unknown EXCEPT ![n] = @ + 1]
  BY <1>1, <1>2, <1>5, Stepped DEF Moves, Live
<1> QED BY <1>2, <1>3, <1>4, <1>5 DEF Send

LEMMA FinishEffect ==
  ASSUME TypeOK, NEW x \in Executors, NEW n \in Notes, Finish(x, n)
  PROVE  /\ Leaves(x, n) /\ job[x][n].step \in {"accepted", "permanent"}
         /\ row'[n].status = IF job[x][n].step = "accepted" THEN "SENT" ELSE "DEAD_LETTER"
         /\ UNCHANGED <<silenced, counters, delivered, unknown>>
<1> DEFINE status == IF job[x][n].step = "accepted" THEN "SENT" ELSE "DEAD_LETTER"
<1>1. status \in Statuses /\ status \notin {"NONE", "PENDING"}
  BY DEF Statuses, Terminal
<1>2. /\ Status(n, status) /\ Ends(x, n) /\ job[x][n].step \in {"accepted", "permanent"}
      /\ UNCHANGED <<up, silenced, counters, delivered, unknown>>
  BY DEF Finish, history
<1> HIDE DEF status
<1>3. Leaves(x, n) /\ row'[n].status = status
  BY <1>1, <1>2, Written, Ended DEF Leaves, Live
<1> QED BY <1>2, <1>3 DEF status

LEMMA RetryEffect ==
  ASSUME TypeOK, Held, NEW x \in Executors, NEW n \in Notes, Retry(x, n)
  PROVE  /\ Leaves(x, n) /\ job[x][n].step = "transient"
         /\ row'[n].status \in {"FAILED", "DEAD_LETTER"}
         /\ UNCHANGED <<silenced, counters, delivered, unknown>>
<1>1. /\ job[x][n].step = "transient" /\ Ends(x, n)
      /\ UNCHANGED <<up, silenced, counters, delivered, unknown>>
  BY DEF Retry, history
<1>2. job[x][n].attempts = row[n].attempts /\ row[n].attempts \in 0 .. MaxAttempts - 1
      /\ row \in [Notes -> NoteRows] /\ row[n] \in NoteRows
  BY <1>1, Types DEF Held, Live
<1>3. CASE LastAttempt(x, n)
  <2>1. Status(n, "DEAD_LETTER") /\ "DEAD_LETTER" \in Statuses
    BY <1>3 DEF Retry, Status, Statuses, Terminal
  <2> QED BY <1>1, <2>1, Written, Ended DEF Leaves, Live
<1>4. CASE ~LastAttempt(x, n)
  <2> DEFINE r == [status |-> "FAILED", attempts |-> row[n].attempts + 1]
  <2>1. row' = [row EXCEPT ![n] = r]
    BY <1>4 DEF Retry
  <2>2. row[n].attempts + 1 \in 0 .. MaxAttempts - 1
    <3>1. CASE x[2] = "worker"
      BY <1>2, <1>4, <3>1, NotificationAssumption DEF LastAttempt
    <3>2. CASE x[2] # "worker"
      <4>1. row[n].attempts = 0
        BY <1>2, <3>2, ExecutorShape DEF Held
      <4> QED BY <4>1, NotificationAssumption
    <3> QED BY <3>1, <3>2
  <2>3. r \in NoteRows /\ r.status = "FAILED"
    BY <2>2 DEF NoteRows, Statuses
  <2> HIDE DEF r
  <2>4. row' \in [Notes -> NoteRows] /\ row'[n] = r /\ \A m \in Notes : m # n => row'[m] = row[m]
    BY <1>2, <2>1, <2>3
  <2> QED BY <1>1, <2>3, <2>4, Ended DEF Leaves, Live
<1> QED BY <1>3, <1>4

LEMMA RecordFailsEffect ==
  ASSUME TypeOK, NEW x \in Executors, NEW n \in Notes, RecordFails(x, n)
  PROVE  /\ Leaves(x, n) /\ UNCHANGED <<row, silenced, delivered>> /\ Fault
         /\ unknown' = [unknown EXCEPT
              ![n] = IF job[x][n].step \in {"accepted", "transient"} THEN @ + 1 ELSE @]
BY Types, Ended DEF RecordFails, Leaves

LEMMA BeginEffect ==
  ASSUME TypeOK, Held, NEW s \in Servers, NEW n \in Notes, BeginDispatch(s, n)
  PROVE  /\ UNCHANGED <<up, silenced, faults, silences, delivered, unknown>>
         /\ events' \in 0 .. MaxEvents
         /\ row' \in [Notes -> NoteRows] /\ job' \in [Executors -> [Notes -> Jobs]]
         /\ \A m \in Notes : \/ row'[m] = row[m]
                             \/ row[m].status = "NONE" /\ row'[m].status = "PENDING"
                                /\ row'[m].attempts = row[m].attempts
         /\ \A y \in Executors, m \in Notes :
              \/ job'[y][m] = job[y][m]
              \/ y[1] \in up /\ job'[y][m].step = "created" /\ job[y][m] = NoJob
                 /\ job'[y][m].attempts = 0
<1> DEFINE x == <<s, "dispatch">>
<1>1. x \in Executors /\ x[1] = s
  BY ExecutorShape
<1>2. /\ s \in up /\ job[x][n] = NoJob
      /\ UNCHANGED <<up, silenced, faults, silences, delivered, unknown>>
      /\ events < MaxEvents /\ events' = events + 1
      /\ UNCHANGED row \/ (row[n].status = "NONE" /\ Status(n, "PENDING"))
      /\ UNCHANGED job \/ Step(x, n, "created")
  BY DEF BeginDispatch, history
<1> HIDE DEF x
<1>3. events' \in 0 .. MaxEvents
  BY <1>2, NotificationAssumption DEF TypeOK
<1>4. /\ row' \in [Notes -> NoteRows]
      /\ \A m \in Notes : \/ row'[m] = row[m]
                          \/ row[m].status = "NONE" /\ row'[m].status = "PENDING"
                             /\ row'[m].attempts = row[m].attempts
  <2>1. "PENDING" \in Statuses
    BY DEF Statuses
  <2> QED BY <1>2, <2>1, Written, Types
<1>5. /\ job' \in [Executors -> [Notes -> Jobs]]
      /\ \A y \in Executors, m \in Notes :
           \/ job'[y][m] = job[y][m]
           \/ y[1] \in up /\ job'[y][m].step = "created" /\ job[y][m] = NoJob
              /\ job'[y][m].attempts = 0
  <2>1. "created" \in Steps
    BY DEF Steps
  <2> QED BY <1>1, <1>2, <2>1, Stepped, Types, NothingHeld
<1> QED BY <1>2, <1>3, <1>4, <1>5

LEMMA ClaimEffect ==
  ASSUME TypeOK, NEW s \in Servers, NEW n \in Notes, ClaimForDispatch(s, n)
  PROVE  LET x == <<s, "dispatch">> IN
         /\ UNCHANGED <<up, silenced, counters, delivered, unknown>>
         /\ x \in Executors /\ x[1] = s /\ x[2] = "dispatch" /\ job[x][n].step = "created"
         /\ \/ Leaves(x, n) /\ UNCHANGED row
            \/ /\ row' \in [Notes -> NoteRows] /\ job' \in [Executors -> [Notes -> Jobs]]
               /\ row[n].status = "PENDING"
               /\ row'[n].status = "PROCESSING" /\ row'[n].attempts = row[n].attempts
               /\ \A m \in Notes : m # n => row'[m] = row[m]
               /\ job'[x][n].step = "claimed" /\ job'[x][n].attempts = job[x][n].attempts
               /\ \A y \in Executors, m \in Notes : y # x \/ m # n => job'[y][m] = job[y][m]
<1> DEFINE x == <<s, "dispatch">>
<1>1. x \in Executors /\ x[1] = s /\ x[2] = "dispatch"
  BY ExecutorShape
<1>2. /\ job[x][n].step = "created"
      /\ UNCHANGED <<up, silenced, counters, delivered, unknown>>
      /\ \/ row[n].status = "PENDING" /\ Status(n, "PROCESSING") /\ Step(x, n, "claimed")
         \/ UNCHANGED row /\ Ends(x, n)
  BY DEF ClaimForDispatch, history
<1> HIDE DEF x
<1>3. "PROCESSING" \in Statuses /\ "claimed" \in Steps
  BY DEF Statuses, Steps, Live
<1>4. CASE row[n].status = "PENDING" /\ Status(n, "PROCESSING") /\ Step(x, n, "claimed")
  BY <1>1, <1>2, <1>3, <1>4, Written, Stepped DEF x
<1>5. CASE UNCHANGED row /\ Ends(x, n)
  BY <1>1, <1>2, <1>5, Ended, Types DEF x, Leaves
<1> QED BY <1>2, <1>4, <1>5

(* Rows that are taken back, or taken by the worker, keep their attempts.  *)
LEMMA Relabelled ==
  ASSUME TypeOK, NEW B \in SUBSET Notes, NEW status \in Statuses,
         row' = [n \in Notes |-> IF n \in B THEN [row[n] EXCEPT !.status = status] ELSE row[n]]
  PROVE  /\ row' \in [Notes -> NoteRows]
         /\ \A n \in Notes : n \in B => row'[n].status = status
                                        /\ row'[n].attempts = row[n].attempts
         /\ \A n \in Notes : n \notin B => row'[n] = row[n]
<1>1. \A n \in Notes : row[n] \in NoteRows
  BY Types
<1>2. ASSUME NEW n \in Notes
      PROVE  /\ [row[n] EXCEPT !.status = status] \in NoteRows
             /\ [row[n] EXCEPT !.status = status].status = status
             /\ [row[n] EXCEPT !.status = status].attempts = row[n].attempts
  BY <1>1 DEF NoteRows
<1> QED BY <1>1, <1>2

LEMMA BatchEffect ==
  ASSUME TypeOK, NEW s \in Servers, ClaimBatchForProcessing(s)
  PROVE  LET x == <<s, "worker">> IN
         /\ UNCHANGED <<up, silenced, counters, delivered, unknown>>
         /\ s \in up /\ x \in Executors /\ x[1] = s /\ x[2] = "worker"
         /\ \A n \in Notes : job[x][n] = NoJob
         /\ row' \in [Notes -> NoteRows] /\ job' \in [Executors -> [Notes -> Jobs]]
         /\ \A y \in Executors : y # x => job'[y] = job[y]
         /\ \A n \in Notes :
              \/ row'[n] = row[n] /\ job'[x][n] = NoJob
              \/ /\ row[n].status \in {"FAILED", "PENDING"}
                 /\ row'[n].status = "PROCESSING" /\ row'[n].attempts = row[n].attempts
                 /\ job'[x][n].step = "claimed" /\ job'[x][n].attempts = row[n].attempts
<1> DEFINE x == <<s, "worker">>
<1>1. x \in Executors /\ x[1] = s /\ x[2] = "worker"
  BY ExecutorShape
<1>2. PICK B \in SUBSET {n \in Notes : row[n].status \in {"FAILED", "PENDING"}} :
        /\ row' = [n \in Notes |-> IF n \in B THEN [row[n] EXCEPT !.status = "PROCESSING"]
                                              ELSE row[n]]
        /\ job' = [job EXCEPT ![x] =
             [n \in Notes |-> IF n \in B THEN [step |-> "claimed", attempts |-> row[n].attempts]
                                         ELSE NoJob]]
  BY DEF ClaimBatchForProcessing
<1>3. /\ UNCHANGED <<up, silenced, counters, delivered, unknown>>
      /\ s \in up /\ \A n \in Notes : job[x][n] = NoJob
  BY DEF ClaimBatchForProcessing, Idle, history
<1> HIDE DEF x
<1>4. "PROCESSING" \in Statuses /\ B \in SUBSET Notes
  BY <1>2 DEF Statuses
<1>5. /\ row' \in [Notes -> NoteRows]
      /\ \A n \in Notes : n \in B => row'[n].status = "PROCESSING"
                                     /\ row'[n].attempts = row[n].attempts
      /\ \A n \in Notes : n \notin B => row'[n] = row[n]
  BY <1>2, <1>4, Relabelled
<1>6. \A n \in Notes : [step |-> "claimed", attempts |-> row[n].attempts] \in Jobs
  BY Types DEF Jobs, Steps, Live
<1>7. job \in [Executors -> [Notes -> Jobs]] /\ NoJob \in Jobs
  BY Types, NothingHeld
<1> DEFINE taken == [n \in Notes |->
             IF n \in B THEN [step |-> "claimed", attempts |-> row[n].attempts] ELSE NoJob]
<1>8. taken \in [Notes -> Jobs] /\ \A n \in Notes :
        /\ n \in B => taken[n].step = "claimed" /\ taken[n].attempts = row[n].attempts
        /\ n \notin B => taken[n] = NoJob
  BY <1>6, <1>7
<1>9. job' = [job EXCEPT ![x] = taken]
  BY <1>2
<1> HIDE DEF taken
<1>10. /\ job' \in [Executors -> [Notes -> Jobs]] /\ job'[x] = taken
       /\ \A y \in Executors : y # x => job'[y] = job[y]
  BY <1>1, <1>7, <1>8, <1>9
<1>11. \A n \in Notes :
         \/ row'[n] = row[n] /\ job'[x][n] = NoJob
         \/ /\ row[n].status \in {"FAILED", "PENDING"}
            /\ row'[n].status = "PROCESSING" /\ row'[n].attempts = row[n].attempts
            /\ job'[x][n].step = "claimed" /\ job'[x][n].attempts = row[n].attempts
  BY <1>2, <1>5, <1>8, <1>10
<1> QED BY <1>1, <1>3, <1>5, <1>10, <1>11 DEF x

(* Start and Sweep: rows without a job are taken back.                     *)
TakesBack ==
  /\ row' \in [Notes -> NoteRows]
  /\ \A n \in Notes : \/ row'[n] = row[n]
                      \/ /\ \A x \in Executors : job[x][n].step \notin Live
                         /\ row[n].status = "PROCESSING" /\ row'[n].status = "FAILED"
                         /\ row'[n].attempts = row[n].attempts
  /\ UNCHANGED <<job, silenced, delivered, unknown>>

LEMMA SweepEffect ==
  ASSUME TypeOK, NEW s \in Servers, Sweep(s)
  PROVE  TakesBack /\ UNCHANGED <<up, counters>>
<1>1. PICK B \in SUBSET {n \in Processing : Holders(n) = {}} : Recovered(B)
  BY DEF Sweep
<1>2. "FAILED" \in Statuses /\ B \in SUBSET Notes
  BY <1>1 DEF Statuses, Processing
<1>3. \A n \in B : row[n].status = "PROCESSING" /\ \A x \in Executors : job[x][n].step \notin Live
  BY <1>1 DEF Holders, Processing
<1>4. /\ row' \in [Notes -> NoteRows]
      /\ \A n \in Notes : n \in B => row'[n].status = "FAILED"
                                     /\ row'[n].attempts = row[n].attempts
      /\ \A n \in Notes : n \notin B => row'[n] = row[n]
  BY <1>1, <1>2, Relabelled DEF Recovered
<1>5. UNCHANGED <<up, job, silenced, counters, delivered, unknown>>
  BY DEF Sweep, history
<1> QED BY <1>3, <1>4, <1>5 DEF TakesBack

LEMMA StartEffect ==
  ASSUME TypeOK, Held, NEW s \in Servers, Servers = {s}, Start(s)
  PROVE  /\ TakesBack /\ up' = up \cup {s} /\ s \notin up
         /\ UNCHANGED counters \/ Fault
<1>1. \A x \in Executors, n \in Notes : job[x][n].step \notin Live
  BY ExecutorShape, NothingHeld DEF Held, Start, Live
<1>2. UNCHANGED <<job, silenced, delivered, unknown>> /\ s \notin up /\ up' = up \cup {s}
  BY DEF Start, history
<1>3. CASE Recovered(Processing) /\ UNCHANGED counters
  <2>1. "FAILED" \in Statuses /\ Processing \in SUBSET Notes
    BY DEF Statuses, Processing
  <2>2. /\ row' \in [Notes -> NoteRows]
        /\ \A n \in Notes : n \in Processing => row'[n].status = "FAILED"
                                                /\ row'[n].attempts = row[n].attempts
        /\ \A n \in Notes : n \notin Processing => row'[n] = row[n]
    BY <1>3, <2>1, Relabelled DEF Recovered
  <2> QED BY <1>1, <1>2, <1>3, <2>2 DEF TakesBack, Processing
<1>4. CASE Fault /\ UNCHANGED row
  BY <1>1, <1>2, <1>4, Types DEF TakesBack
<1> QED BY <1>3, <1>4 DEF Start

LEMMA CrashEffect ==
  ASSUME TypeOK, NEW s \in Servers, Crash(s)
  PROVE  /\ UNCHANGED <<row, silenced, delivered>> /\ Fault
         /\ up' = up \ {s}
         /\ job' \in [Executors -> [Notes -> Jobs]]
         /\ \A x \in Executors, n \in Notes :
              job'[x][n] = IF x[1] = s THEN NoJob ELSE job[x][n]
         /\ unknown' \in [Notes -> Nat]
         /\ \A n \in Notes :
              /\ unknown'[n] >= unknown[n]
              /\ (\E x \in Executors : x[1] = s /\ job[x][n].step = "accepted") =>
                   unknown'[n] >= unknown[n] + 1
<1> DEFINE X == {s} \X {"dispatch", "worker"}
           lost(n) == {x \in X : job[x][n].step \in {"accepted", "transient"}}
<1>1. /\ UNCHANGED <<row, silenced, delivered>> /\ Fault /\ up' = up \ {s}
      /\ job' = [x \in Executors |-> IF x[1] = s THEN [n \in Notes |-> NoJob] ELSE job[x]]
      /\ unknown' = [n \in Notes |-> unknown[n] + Cardinality(lost(n))]
  BY DEF Crash, Unrecorded
<1>2. job \in [Executors -> [Notes -> Jobs]] /\ NoJob \in Jobs
  BY Types, NothingHeld
<1>3. /\ job' \in [Executors -> [Notes -> Jobs]]
      /\ \A x \in Executors, n \in Notes : job'[x][n] = IF x[1] = s THEN NoJob ELSE job[x][n]
  BY <1>1, <1>2
<1>4. IsFiniteSet(X)
  <2>1. IsFiniteSet({s}) /\ IsFiniteSet({"dispatch"})
    BY FS_Singleton
  <2>2. IsFiniteSet({"dispatch"} \cup {"worker"})
    BY <2>1, FS_AddElement
  <2>3. {"dispatch"} \cup {"worker"} = {"dispatch", "worker"}
    OBVIOUS
  <2> QED BY <2>1, <2>2, <2>3, FS_Product
<1>5. ASSUME NEW n \in Notes
      PROVE  /\ Cardinality(lost(n)) \in Nat
             /\ lost(n) # {} => Cardinality(lost(n)) >= 1
  <2>1. lost(n) \in SUBSET X
    OBVIOUS
  <2>2. IsFiniteSet(lost(n))
    BY <1>4, <2>1, FS_Subset
  <2> HIDE DEF lost
  <2> QED BY <2>2, FS_CardinalityType, FS_EmptySet
<1>6. ASSUME NEW n \in Notes, NEW x \in Executors, x[1] = s, job[x][n].step = "accepted"
      PROVE  lost(n) # {}
  <2>1. x \in X
    BY <1>6, ExecutorShape
  <2> QED BY <1>6, <2>1
<1>7. \A n \in Notes : unknown[n] \in Nat
  BY Types
<1> HIDE DEF lost
<1>8. \A n \in Notes : unknown'[n] = unknown[n] + Cardinality(lost(n))
  BY <1>1
<1>9. unknown' \in [Notes -> Nat]
  BY <1>1, <1>5, <1>7
<1> QED BY <1>1, <1>3, <1>5, <1>6, <1>7, <1>8, <1>9

(* A step is one of these.                                                 *)
LEMMA Kinds ==
  ASSUME [Next]_vars
  PROVE  \/ \E x \in Executors, n \in Notes : Suppress(x, n)
         \/ \E x \in Executors, n \in Notes : Clear(x, n)
         \/ \E x \in Executors, n \in Notes : Send(x, n)
         \/ \E x \in Executors, n \in Notes : Retry(x, n)
         \/ \E x \in Executors, n \in Notes : Finish(x, n)
         \/ \E x \in Executors, n \in Notes : RecordFails(x, n)
         \/ \E s \in Servers, n \in Notes : ClaimForDispatch(s, n)
         \/ \E s \in Servers, n \in Notes : BeginDispatch(s, n)
         \/ \E s \in Servers : ClaimBatchForProcessing(s)
         \/ \E s \in Servers : Sweep(s)
         \/ \E s \in Servers : Crash(s)
         \/ \E s \in Servers : Start(s)
         \/ Silence
         \/ UNCHANGED <<row, up, job, silenced, events, silences, faults, delivered, unknown>>
<1>1. ASSUME NEW x \in Executors, NEW n \in Notes, x[2] = "dispatch" /\ ClaimForDispatch(x[1], n)
      PROVE  \E s \in Servers, m \in Notes : ClaimForDispatch(s, m)
  BY <1>1, ExecutorShape
<1>2. CASE UNCHANGED vars
  BY <1>2 DEF vars, counters, history
<1>3. CASE Next
  BY <1>1, <1>3 DEF Next, Proceed, Work
<1> QED BY <1>2, <1>3

-----------------------------------------------------------------------------
(* The invariants.                                                         *)
LEMMA Start0 == Init => TypeOK /\ Held /\ Counted
<1> SUFFICES ASSUME Init
             PROVE  TypeOK /\ Held /\ Counted
  OBVIOUS
<1>1. \A x \in Executors, n \in Notes : job[x][n] = NoJob /\ job[x][n].step = "none"
  BY NothingHeld DEF Init
<1>2. \A n \in Notes : row[n].status = "NONE" /\ row[n].attempts = 0
                       /\ delivered[n] = 0 /\ unknown[n] = 0
  BY DEF Init
<1>3. Held
  BY <1>1, <1>2, NothingHeld DEF Held, Live
<1>4. Counted
  BY <1>2 DEF Counted
<1>5. row \in [Notes -> [status : Statuses, attempts : 0 .. MaxAttempts - 1]]
  BY LowAttempts DEF Init, Statuses
<1>6. job \in [Executors -> [Notes ->
        [step : Live \cup {"none", "created"}, attempts : 0 .. MaxAttempts - 1]]]
  BY NothingHeld DEF Init, Jobs, Steps
<1>7. up \subseteq Servers /\ silenced \in BOOLEAN
  BY DEF Init
<1>8. events \in 0 .. MaxEvents /\ silences \in 0 .. MaxSilences /\ faults \in 0 .. MaxFaults
  BY NotificationAssumption DEF Init
<1>9. delivered \in [Notes -> Nat] /\ unknown \in [Notes -> Nat]
  BY DEF Init
<1> QED BY <1>3, <1>4, <1>5, <1>6, <1>7, <1>8, <1>9 DEF TypeOK

LEMMA Faulty ==
  ASSUME TypeOK, Fault
  PROVE  events' \in 0 .. MaxEvents /\ silences' \in 0 .. MaxSilences /\ faults' \in 0 .. MaxFaults
BY NotificationAssumption DEF TypeOK, Fault

LEMMA OneMore ==
  ASSUME NEW f \in [Notes -> Nat], NEW n \in Notes, NEW g, g = [f EXCEPT ![n] = @ + 1]
  PROVE  /\ g \in [Notes -> Nat] /\ g[n] = f[n] + 1
         /\ \A m \in Notes : m # n => g[m] = f[m]
<1>1. f[n] + 1 \in Nat
  OBVIOUS
<1> QED BY <1>1

LEMMA TypedNext ==
  ASSUME row' \in [Notes -> NoteRows], job' \in [Executors -> [Notes -> Jobs]],
         up' \subseteq Servers, silenced' \in BOOLEAN,
         events' \in 0 .. MaxEvents, silences' \in 0 .. MaxSilences, faults' \in 0 .. MaxFaults,
         delivered' \in [Notes -> Nat], unknown' \in [Notes -> Nat]
  PROVE  TypeOK'
BY DEF TypeOK, NoteRows, Jobs, Steps

LEMMA TypesStep ==
  ASSUME TypeOK, Held, NEW s0 \in Servers, Servers = {s0}, [Next]_vars
  PROVE  TypeOK'
<1>0. /\ row \in [Notes -> NoteRows] /\ job \in [Executors -> [Notes -> Jobs]]
      /\ up \subseteq Servers /\ silenced \in BOOLEAN
      /\ events \in 0 .. MaxEvents /\ silences \in 0 .. MaxSilences /\ faults \in 0 .. MaxFaults
      /\ delivered \in [Notes -> Nat] /\ unknown \in [Notes -> Nat]
  BY Types DEF TypeOK
<1>1. ASSUME NEW x \in Executors, NEW n \in Notes, Suppress(x, n) \/ Retry(x, n) \/ Finish(x, n)
      PROVE  TypeOK'
  BY <1>0, <1>1, SuppressEffect, RetryEffect, FinishEffect, TypedNext DEF Leaves, counters
<1>2. ASSUME NEW x \in Executors, NEW n \in Notes, Clear(x, n)
      PROVE  TypeOK'
  <2>1. events' \in 0 .. MaxEvents /\ silences' \in 0 .. MaxSilences /\ faults' \in 0 .. MaxFaults
    BY <1>0, <1>2, Faulty DEF Clear, counters
  <2> QED BY <1>0, <1>2, <2>1, ClearEffect, TypedNext DEF Moves
<1>3. ASSUME NEW x \in Executors, NEW n \in Notes, Send(x, n)
      PROVE  TypeOK'
  <2>1. Moves(x, n) /\ UNCHANGED silenced
    BY <1>3, SendEffect
  <2>2. events' \in 0 .. MaxEvents /\ silences' \in 0 .. MaxSilences /\ faults' \in 0 .. MaxFaults
    BY <1>0, <1>3, SendEffect, Faulty DEF counters
  <2>3. delivered' \in [Notes -> Nat] /\ unknown' \in [Notes -> Nat]
    BY <1>0, <1>3, SendEffect, OneMore
  <2> QED BY <1>0, <2>1, <2>2, <2>3, TypedNext DEF Moves
<1>4. ASSUME NEW x \in Executors, NEW n \in Notes, RecordFails(x, n)
      PROVE  TypeOK'
  <2>1. unknown' \in [Notes -> Nat]
    <3>1. CASE job[x][n].step \in {"accepted", "transient"}
      <4>1. unknown' = [unknown EXCEPT ![n] = @ + 1]
        BY <1>4, <3>1, RecordFailsEffect
      <4> QED BY <1>0, <4>1, OneMore
    <3>2. CASE job[x][n].step \notin {"accepted", "transient"}
      <4>1. unknown' = unknown
        BY <1>0, <1>4, <3>2, RecordFailsEffect
      <4> QED BY <1>0, <4>1
    <3> QED BY <3>1, <3>2
  <2>2. events' \in 0 .. MaxEvents /\ silences' \in 0 .. MaxSilences /\ faults' \in 0 .. MaxFaults
    BY <1>4, RecordFailsEffect, Faulty
  <2>3. Leaves(x, n) /\ UNCHANGED <<silenced, delivered>>
    BY <1>4, RecordFailsEffect
  <2> QED BY <1>0, <2>1, <2>2, <2>3, TypedNext DEF Leaves
<1>5. ASSUME NEW s \in Servers, NEW n \in Notes, ClaimForDispatch(s, n)
      PROVE  TypeOK'
  BY <1>0, <1>5, ClaimEffect, TypedNext DEF Leaves, counters
<1>6. ASSUME NEW s \in Servers, NEW n \in Notes, BeginDispatch(s, n)
      PROVE  TypeOK'
  BY <1>0, <1>6, BeginEffect, TypedNext
<1>7. ASSUME NEW s \in Servers, ClaimBatchForProcessing(s)
      PROVE  TypeOK'
  BY <1>0, <1>7, BatchEffect, TypedNext DEF counters
<1>8. ASSUME NEW s \in Servers, Sweep(s)
      PROVE  TypeOK'
  BY <1>0, <1>8, SweepEffect, TypedNext DEF counters, TakesBack
<1>9. ASSUME NEW s \in Servers, Crash(s)
      PROVE  TypeOK'
  <2>1. events' \in 0 .. MaxEvents /\ silences' \in 0 .. MaxSilences /\ faults' \in 0 .. MaxFaults
    BY <1>9, CrashEffect, Faulty
  <2> QED BY <1>0, <1>9, <2>1, CrashEffect, TypedNext
<1>10. ASSUME NEW s \in Servers, Start(s)
       PROVE  TypeOK'
  <2>1. TakesBack /\ up' = up \cup {s} /\ (UNCHANGED counters \/ Fault)
    BY <1>10, StartEffect
  <2>2. events' \in 0 .. MaxEvents /\ silences' \in 0 .. MaxSilences /\ faults' \in 0 .. MaxFaults
    BY <1>0, <2>1, Faulty DEF counters
  <2> QED BY <1>0, <2>1, <2>2, TypedNext DEF TakesBack
<1>11. CASE Silence
  <2>1. silences' \in 0 .. MaxSilences
    BY <1>0, <1>11, NotificationAssumption DEF Silence
  <2>2. silenced' \in BOOLEAN /\ UNCHANGED <<row, up, job, events, faults, delivered, unknown>>
    BY <1>0, <1>11 DEF Silence, history
  <2> QED BY <1>0, <2>1, <2>2, TypedNext
<1>12. CASE UNCHANGED <<row, up, job, silenced, events, silences, faults, delivered, unknown>>
  BY <1>0, <1>12, TypedNext
<1> QED BY <1>1, <1>2, <1>3, <1>4, <1>5, <1>6, <1>7, <1>8, <1>9, <1>10, <1>11, <1>12, Kinds

LEMMA HeldStep ==
  ASSUME TypeOK, Held, NEW s0 \in Servers, Servers = {s0}, [Next]_vars
  PROVE  Held'
<1>1. ASSUME NEW x \in Executors, NEW n \in Notes,
             Suppress(x, n) \/ Retry(x, n) \/ Finish(x, n) \/ RecordFails(x, n)
      PROVE  Held'
  BY <1>1, SuppressEffect, RetryEffect, FinishEffect, RecordFailsEffect, HeldLeaves
<1>2. ASSUME NEW x \in Executors, NEW n \in Notes, Clear(x, n) \/ Send(x, n)
      PROVE  Held'
  BY <1>2, ClearEffect, SendEffect, HeldMoves
<1>3. ASSUME NEW s \in Servers, NEW n \in Notes, ClaimForDispatch(s, n)
      PROVE  Held'
  <2> DEFINE x == <<s, "dispatch">>
  <2>1. x \in Executors /\ x[1] = s /\ x[2] = "dispatch" /\ job[x][n].step = "created"
        /\ UNCHANGED up
    BY <1>3, ClaimEffect
  <2>2. CASE Leaves(x, n)
    BY <2>1, <2>2, HeldLeaves
  <2>3. CASE /\ row[n].status = "PENDING"
             /\ row'[n].status = "PROCESSING" /\ row'[n].attempts = row[n].attempts
             /\ \A m \in Notes : m # n => row'[m] = row[m]
             /\ job'[x][n].step = "claimed" /\ job'[x][n].attempts = job[x][n].attempts
             /\ \A y \in Executors, m \in Notes : y # x \/ m # n => job'[y][m] = job[y][m]
    <3> HIDE DEF x
    <3>1. row[n].attempts = 0 /\ job[x][n].attempts = 0 /\ x[1] \in up
      BY <2>1, <2>3, NothingHeld DEF Held
    <3>2. \A y \in Executors : y # x => job'[y][n].step \notin Live
      BY <2>3 DEF Held
    <3>3. \A m \in Notes : \A y, z \in Executors :
            job'[y][m].step \in Live /\ job'[z][m].step \in Live => y = z
      BY <2>3, <3>2 DEF Held
    <3>4. \A m \in Notes : \A y \in Executors : job'[y][m].step \in Live =>
            row'[m].status = "PROCESSING" /\ job'[y][m].attempts = row'[m].attempts
      BY <2>3, <3>1, <3>2 DEF Held
    <3>5. \A y \in Executors : y[1] \notin up' => \A m \in Notes : job'[y][m] = NoJob
      BY <2>1, <2>3, <3>1 DEF Held
    <3>6. \A m \in Notes : row'[m].status \in {"NONE", "PENDING"} => row'[m].attempts = 0
      BY <2>3, <3>1 DEF Held
    <3>7. \A m \in Notes : \A y \in Executors : y[2] = "dispatch" => job'[y][m].attempts = 0
      BY <2>3, <3>1 DEF Held
    <3> QED BY <3>3, <3>4, <3>5, <3>6, <3>7 DEF Held
  <2> QED BY <1>3, <2>2, <2>3, ClaimEffect
<1>4. ASSUME NEW s \in Servers, NEW n \in Notes, BeginDispatch(s, n)
      PROVE  Held'
  <2>1. /\ \A m \in Notes : \/ row'[m] = row[m]
                            \/ row[m].status = "NONE" /\ row'[m].status = "PENDING"
                               /\ row'[m].attempts = row[m].attempts
        /\ \A y \in Executors, m \in Notes :
             \/ job'[y][m] = job[y][m]
             \/ y[1] \in up /\ job'[y][m].step = "created" /\ job[y][m] = NoJob
                /\ job'[y][m].attempts = 0
        /\ UNCHANGED up
    BY <1>4, BeginEffect
  <2>2. \A y \in Executors, m \in Notes : job'[y][m].step \in Live =>
          job'[y][m] = job[y][m] /\ job[y][m].step \in Live
    BY <2>1 DEF Live
  <2>3. \A m \in Notes : \A y \in Executors : job'[y][m].step \in Live => row'[m] = row[m]
    BY <2>1, <2>2 DEF Held
  <2> QED BY <2>1, <2>2, <2>3 DEF Held
<1>5. ASSUME NEW s \in Servers, ClaimBatchForProcessing(s)
      PROVE  Held'
  <2> DEFINE x == <<s, "worker">>
  <2>1. /\ UNCHANGED up /\ s \in up /\ x \in Executors /\ x[1] = s /\ x[2] = "worker"
        /\ \A y \in Executors : y # x => job'[y] = job[y]
        /\ \A n \in Notes :
             \/ row'[n] = row[n] /\ job'[x][n] = NoJob
             \/ /\ row[n].status \in {"FAILED", "PENDING"}
                /\ row'[n].status = "PROCESSING" /\ row'[n].attempts = row[n].attempts
                /\ job'[x][n].step = "claimed" /\ job'[x][n].attempts = row[n].attempts
    BY <1>5, BatchEffect
  <2> HIDE DEF x
  <2>2. \A n \in Notes : job'[x][n].step \in Live =>
          /\ \A y \in Executors : job[y][n].step \notin Live
          /\ row'[n].status = "PROCESSING" /\ job'[x][n].attempts = row'[n].attempts
    BY <2>1, NothingHeld DEF Held, Live
  <2>3. \A n \in Notes : \A y \in Executors : y # x /\ job'[y][n].step \in Live =>
          row'[n] = row[n] /\ job'[x][n].step \notin Live
    BY <2>1, NothingHeld DEF Held, Live
  <2>4. \A n \in Notes : \A y, z \in Executors :
          job'[y][n].step \in Live /\ job'[z][n].step \in Live => y = z
    BY <2>1, <2>2, <2>3 DEF Held
  <2>5. \A n \in Notes : \A y \in Executors : job'[y][n].step \in Live =>
          row'[n].status = "PROCESSING" /\ job'[y][n].attempts = row'[n].attempts
    BY <2>1, <2>2, <2>3 DEF Held
  <2>6. \A y \in Executors : y[1] \notin up' => \A n \in Notes : job'[y][n] = NoJob
    BY <2>1 DEF Held
  <2>7. \A n \in Notes : row'[n].status \in {"NONE", "PENDING"} => row'[n].attempts = 0
    BY <2>1 DEF Held
  <2>8. \A n \in Notes : \A y \in Executors : y[2] = "dispatch" => job'[y][n].attempts = 0
    BY <2>1 DEF Held
  <2> QED BY <2>4, <2>5, <2>6, <2>7, <2>8 DEF Held
<1>6. CASE TakesBack /\ up \subseteq up'
  <2>1. \A n \in Notes : (\E x \in Executors : job[x][n].step \in Live) => row'[n] = row[n]
    BY <1>6 DEF TakesBack
  <2>2. \A n \in Notes : row'[n].status \in {"NONE", "PENDING"} => row'[n].attempts = 0
    BY <1>6 DEF TakesBack, Held
  <2> QED BY <1>6, <2>1, <2>2 DEF Held, TakesBack
<1>7. ASSUME NEW s \in Servers, Crash(s)
      PROVE  Held'
  <2>1. /\ UNCHANGED row /\ up' = up \ {s}
        /\ \A x \in Executors, n \in Notes :
             job'[x][n] = IF x[1] = s THEN NoJob ELSE job[x][n]
    BY <1>7, CrashEffect
  <2>2. \A x \in Executors, n \in Notes : job'[x][n].step \in Live =>
          job'[x][n] = job[x][n] /\ job[x][n].step \in Live
    BY <2>1, NothingHeld DEF Live
  <2>3. \A x \in Executors : x[1] \notin up' => \A n \in Notes : job'[x][n] = NoJob
    BY <2>1 DEF Held
  <2>4. \A n \in Notes : \A x \in Executors : x[2] = "dispatch" => job'[x][n].attempts = 0
    BY <2>1, NothingHeld DEF Held
  <2> QED BY <2>1, <2>2, <2>3, <2>4 DEF Held
<1>8. CASE UNCHANGED <<row, up, job>>
  BY <1>8 DEF Held
<1>9. CASE Silence
  BY <1>8, <1>9 DEF Silence
<1>10. CASE \E s \in Servers : Sweep(s)
  BY <1>6, <1>10, SweepEffect
<1>11. CASE \E s \in Servers : Start(s)
  BY <1>6, <1>11, StartEffect
<1> QED BY <1>1, <1>2, <1>3, <1>4, <1>5, <1>7, <1>8, <1>9, <1>10, <1>11, Kinds

(* With one server a notification is in the hands of one executor at a     *)
(* time: the claims of requests and worker and both recoveries agree.      *)
THEOREM OneExecutor ==
  ASSUME NEW s0 \in Servers, Servers = {s0}
  PROVE  Spec => []OneAtATime
<1>1. Init => TypeOK /\ Held
  BY Start0
<1>2. TypeOK /\ Held /\ [Next]_vars => (TypeOK /\ Held)'
  BY TypesStep, HeldStep
<1>3. Held => OneAtATime
  <2> SUFFICES ASSUME Held, NEW n \in Notes
               PROVE  /\ Cardinality(Holders(n)) <= 1
                      /\ Holders(n) # {} => row[n].status = "PROCESSING"
    BY DEF OneAtATime
  <2>1. Holders(n) # {} => row[n].status = "PROCESSING"
    BY DEF Held, Holders
  <2>2. Holders(n) = {} \/ \E x : Holders(n) = {x}
    BY DEF Held, Holders
  <2>3. CASE Holders(n) = {}
    <3>1. Cardinality(Holders(n)) = 0
      BY <2>3, FS_EmptySet
    <3> QED BY <2>1, <3>1
  <2>4. ASSUME NEW x, Holders(n) = {x}
        PROVE  Cardinality(Holders(n)) = 1
    <3>1. Cardinality({x}) = 1
      BY FS_Singleton
    <3> QED BY <2>4, <3>1
  <2> QED BY <2>1, <2>2, <2>3, <2>4
<1> QED BY <1>1, <1>2, <1>3, PTL DEF Spec

-----------------------------------------------------------------------------
(* Deliveries.                                                             *)

(* A note keeps its count when nothing is delivered, and what is accepted  *)
(* is written down or becomes unknown.                                     *)
LEMMA CountKept ==
  ASSUME TypeOK, Counted, NEW n \in Notes,
         delivered'[n] = delivered[n], unknown'[n] \in Nat, unknown'[n] >= unknown[n],
         row'[n].status # "SENT" /\ ~(\E x \in Executors : job'[x][n].step = "accepted") =>
           \/ unknown'[n] >= unknown[n] + 1
           \/ row[n].status # "SENT" /\ ~Accepted(n)
  PROVE  /\ delivered'[n] <= unknown'[n] + 1
         /\ row'[n].status # "SENT" /\ ~(\E x \in Executors : job'[x][n].step = "accepted") =>
              delivered'[n] <= unknown'[n]
<1>1. delivered[n] \in Nat /\ unknown[n] \in Nat
  BY Types
<1>2. /\ delivered[n] <= unknown[n] + 1
      /\ row[n].status # "SENT" /\ ~Accepted(n) => delivered[n] <= unknown[n]
  BY DEF Counted
<1> QED BY <1>1, <1>2

(* While a job is on its way to the gateway nothing of its note is sent.   *)
LEMMA OnTheWay ==
  ASSUME TypeOK, Held, NEW x \in Executors, NEW n \in Notes,
         job[x][n].step \in Live \ {"accepted"}
  PROVE  row[n].status = "PROCESSING" /\ ~Accepted(n)
BY DEF Held, Accepted, Live

LEMMA CountedStep ==
  ASSUME TypeOK, Held, Counted, TypeOK', NEW s0 \in Servers, Servers = {s0}, [Next]_vars
  PROVE  Counted'
<1> DEFINE Kept(n) ==
      /\ delivered'[n] = delivered[n] /\ unknown'[n] >= unknown[n]
      /\ row'[n].status # "SENT" /\ ~(\E x \in Executors : job'[x][n].step = "accepted") =>
           \/ unknown'[n] >= unknown[n] + 1
           \/ row[n].status # "SENT" /\ ~Accepted(n)
<1>0. \A n \in Notes : /\ delivered[n] \in Nat /\ unknown[n] \in Nat
                       /\ delivered'[n] \in Nat /\ unknown'[n] \in Nat
  BY Types DEF TypeOK
<1>a. CASE \A n \in Notes : Kept(n)
  BY <1>0, <1>a, CountKept DEF Counted, Accepted
<1>b. CASE /\ UNCHANGED <<delivered, unknown>>
           /\ \A n \in Notes :
                row'[n].status # "SENT" /\ ~(\E x \in Executors : job'[x][n].step = "accepted") =>
                  row[n].status # "SENT" /\ ~Accepted(n)
  BY <1>0, <1>a, <1>b
<1>1. ASSUME NEW x \in Executors, NEW n \in Notes, Suppress(x, n) \/ Retry(x, n)
      PROVE  Counted'
  <2>1. /\ Leaves(x, n) /\ job[x][n].step \in Live \ {"accepted"}
        /\ UNCHANGED <<delivered, unknown>>
    BY <1>1, SuppressEffect, RetryEffect DEF Live
  <2>2. row[n].status # "SENT" /\ ~Accepted(n)
    BY <2>1, OnTheWay
  <2> QED BY <1>b, <2>1, <2>2 DEF Leaves, Accepted
<1>2. ASSUME NEW x \in Executors, NEW n \in Notes, Finish(x, n)
      PROVE  Counted'
  <2>1. /\ Leaves(x, n) /\ UNCHANGED <<delivered, unknown>>
        /\ job[x][n].step \in {"accepted", "permanent"}
        /\ row'[n].status = IF job[x][n].step = "accepted" THEN "SENT" ELSE "DEAD_LETTER"
    BY <1>2, FinishEffect
  <2>2. job[x][n].step = "permanent" => row[n].status # "SENT" /\ ~Accepted(n)
    BY OnTheWay DEF Live
  <2> QED BY <1>b, <2>1, <2>2 DEF Leaves, Accepted
<1>3. ASSUME NEW x \in Executors, NEW n \in Notes, Clear(x, n)
      PROVE  Counted'
  <2>1. /\ Moves(x, n) /\ job[x][n].step = "claimed" /\ job'[x][n].step = "cleared"
        /\ UNCHANGED <<delivered, unknown>>
    BY <1>3, ClearEffect
  <2> QED BY <1>b, <2>1 DEF Moves, Accepted
<1>4. ASSUME NEW x \in Executors, NEW n \in Notes, Send(x, n)
      PROVE  Counted'
  <2>1. /\ Moves(x, n) /\ job[x][n].step = "cleared"
        /\ \/ /\ job'[x][n].step = "accepted" /\ UNCHANGED unknown
              /\ delivered' = [delivered EXCEPT ![n] = @ + 1]
           \/ UNCHANGED <<delivered, unknown>>
           \/ /\ delivered' = [delivered EXCEPT ![n] = @ + 1]
              /\ unknown' = [unknown EXCEPT ![n] = @ + 1]
    BY <1>4, SendEffect
  <2>2. /\ row[n].status # "SENT" /\ ~Accepted(n) /\ delivered[n] <= unknown[n]
        /\ row' = row
    BY <2>1, OnTheWay DEF Live, Counted, Moves
  <2>3. /\ delivered'[n] <= unknown'[n] + 1
        /\ ~(\E y \in Executors : job'[y][n].step = "accepted") => delivered'[n] <= unknown'[n]
    <3>1. delivered \in [Notes -> Nat] /\ unknown \in [Notes -> Nat]
      BY DEF TypeOK
    <3>2. CASE UNCHANGED <<delivered, unknown>>
      BY <1>0, <2>2, <3>2
    <3>3. CASE /\ job'[x][n].step = "accepted" /\ UNCHANGED unknown
               /\ delivered' = [delivered EXCEPT ![n] = @ + 1]
      BY <1>0, <2>2, <3>1, <3>3
    <3>4. CASE /\ delivered' = [delivered EXCEPT ![n] = @ + 1]
               /\ unknown' = [unknown EXCEPT ![n] = @ + 1]
      BY <1>0, <2>2, <3>1, <3>4
    <3> QED BY <2>1, <3>2, <3>3, <3>4
  <2>4. ASSUME NEW m \in Notes, m # n
        PROVE  /\ delivered'[m] = delivered[m] /\ unknown'[m] = unknown[m]
               /\ \A y \in Executors : job'[y][m] = job[y][m]
    BY <2>1, <2>4 DEF Moves, TypeOK
  <2>5. ASSUME NEW m \in Notes
        PROVE  /\ delivered'[m] <= unknown'[m] + 1
               /\ row'[m].status # "SENT"
                  /\ ~(\E y \in Executors : job'[y][m].step = "accepted") =>
                    delivered'[m] <= unknown'[m]
    <3>1. CASE m = n
      BY <2>3, <3>1
    <3>2. CASE m # n
      BY <2>2, <2>4, <3>2 DEF Counted, Accepted
    <3> QED BY <3>1, <3>2
  <2> QED BY <2>5 DEF Counted, Accepted
<1>5. ASSUME NEW x \in Executors, NEW n \in Notes, RecordFails(x, n)
      PROVE  Counted'
  <2>1. /\ Leaves(x, n) /\ UNCHANGED <<row, delivered>>
        /\ unknown' = [unknown EXCEPT
             ![n] = IF job[x][n].step \in {"accepted", "transient"} THEN @ + 1 ELSE @]
    BY <1>5, RecordFailsEffect
  <2>2. /\ unknown'[n] = IF job[x][n].step \in {"accepted", "transient"}
                         THEN unknown[n] + 1 ELSE unknown[n]
        /\ \A m \in Notes : m # n => unknown'[m] = unknown[m]
    BY <2>1 DEF TypeOK
  <2>3. ASSUME NEW m \in Notes
        PROVE  Kept(m)
    <3>1. CASE m = n /\ job[x][n].step = "accepted"
      BY <1>0, <2>1, <2>2, <3>1
    <3>2. CASE m # n \/ job[x][n].step # "accepted"
      <4>1. Accepted(m) => \E y \in Executors : job'[y][m].step = "accepted"
        BY <2>1, <3>2 DEF Leaves, Accepted
      <4> QED BY <1>0, <2>1, <2>2, <4>1
    <3> QED BY <3>1, <3>2
  <2> QED BY <1>a, <2>3
<1>6. ASSUME NEW s \in Servers, NEW n \in Notes, ClaimForDispatch(s, n)
      PROVE  Counted'
  <2> DEFINE x == <<s, "dispatch">>
  <2>1. /\ UNCHANGED <<delivered, unknown>> /\ x \in Executors /\ job[x][n].step = "created"
        /\ \A y \in Executors, m \in Notes : y # x \/ m # n => job'[y][m] = job[y][m]
        /\ \A m \in Notes : m # n => row'[m] = row[m]
        /\ row'[n] = row[n] \/ row[n].status = "PENDING"
    BY <1>6, ClaimEffect DEF Leaves
  <2> HIDE DEF x
  <2>2. ASSUME NEW m \in Notes
        PROVE  row'[m].status # "SENT" /\ ~(\E y \in Executors : job'[y][m].step = "accepted") =>
                 row[m].status # "SENT" /\ ~Accepted(m)
    BY <2>1 DEF Accepted
  <2> QED BY <1>b, <2>1, <2>2
<1>7. ASSUME NEW s \in Servers, NEW n \in Notes, BeginDispatch(s, n)
      PROVE  Counted'
  <2>1. /\ UNCHANGED <<delivered, unknown>>
        /\ \A m \in Notes : row'[m] = row[m] \/ row[m].status = "NONE"
        /\ \A y \in Executors, m \in Notes : job'[y][m] = job[y][m] \/ job[y][m] = NoJob
    BY <1>7, BeginEffect
  <2>2. \A m \in Notes : row'[m].status # "SENT"
                         /\ ~(\E y \in Executors : job'[y][m].step = "accepted") =>
                           row[m].status # "SENT" /\ ~Accepted(m)
    BY <2>1, NothingHeld DEF Accepted
  <2> QED BY <1>b, <2>1, <2>2
<1>8. ASSUME NEW s \in Servers, ClaimBatchForProcessing(s)
      PROVE  Counted'
  <2> DEFINE x == <<s, "worker">>
  <2>1. /\ UNCHANGED <<delivered, unknown>>
        /\ \A n \in Notes : job[x][n] = NoJob
        /\ \A y \in Executors : y # x => job'[y] = job[y]
        /\ \A n \in Notes : row'[n] = row[n] \/ row[n].status \in {"FAILED", "PENDING"}
    BY <1>8, BatchEffect
  <2> HIDE DEF x
  <2>2. \A m \in Notes : row'[m].status # "SENT"
                         /\ ~(\E y \in Executors : job'[y][m].step = "accepted") =>
                           row[m].status # "SENT" /\ ~Accepted(m)
    BY <2>1, NothingHeld DEF Accepted
  <2> QED BY <1>b, <2>1, <2>2
<1>9. CASE TakesBack
  <2>1. \A m \in Notes : row'[m].status # "SENT"
                         /\ ~(\E y \in Executors : job'[y][m].step = "accepted") =>
                           row[m].status # "SENT" /\ ~Accepted(m)
    BY <1>9 DEF TakesBack, Accepted
  <2> QED BY <1>9, <1>b, <2>1 DEF TakesBack
<1>10. ASSUME NEW s \in Servers, Crash(s)
       PROVE  Counted'
  <2>1. /\ UNCHANGED <<row, delivered>>
        /\ \A x \in Executors, n \in Notes :
             job'[x][n] = IF x[1] = s THEN NoJob ELSE job[x][n]
        /\ \A n \in Notes :
             /\ unknown'[n] >= unknown[n]
             /\ (\E x \in Executors : x[1] = s /\ job[x][n].step = "accepted") =>
                  unknown'[n] >= unknown[n] + 1
    BY <1>10, CrashEffect
  <2>2. ASSUME NEW n \in Notes
        PROVE  Kept(n)
    <3>1. CASE \E x \in Executors : x[1] = s /\ job[x][n].step = "accepted"
      BY <2>1, <3>1
    <3>2. CASE ~\E x \in Executors : x[1] = s /\ job[x][n].step = "accepted"
      <4>1. Accepted(n) => \E x \in Executors : job'[x][n].step = "accepted"
        BY <2>1, <3>2 DEF Accepted
      <4> QED BY <2>1, <4>1
    <3> QED BY <3>1, <3>2
  <2> QED BY <1>a, <2>2
<1>11. CASE UNCHANGED <<row, job, delivered, unknown>>
  BY <1>11, <1>b DEF Accepted
<1>12. CASE Silence
  BY <1>11, <1>12 DEF Silence, history
<1>13. CASE \E s \in Servers : Sweep(s) \/ Start(s)
  BY <1>9, <1>13, SweepEffect, StartEffect
<1> QED BY <1>1, <1>2, <1>3, <1>4, <1>5, <1>6, <1>7, <1>8, <1>10, <1>11, <1>12, <1>13, Kinds

(* With one server the customer never gets a message twice unless the      *)
(* outcome of a send was lost.                                             *)
THEOREM RepeatsAreUnknown ==
  ASSUME NEW s0 \in Servers, Servers = {s0}
  PROVE  Spec => []RepeatsOnlyUnknown
<1>1. Init => TypeOK /\ Held /\ Counted
  BY Start0
<1>2. TypeOK /\ Held /\ Counted /\ [Next]_vars => (TypeOK /\ Held /\ Counted)'
  <2> SUFFICES ASSUME TypeOK, Held, Counted, [Next]_vars
               PROVE  (TypeOK /\ Held /\ Counted)'
    OBVIOUS
  <2>1. TypeOK' /\ Held'
    BY TypesStep, HeldStep
  <2> QED BY <2>1, CountedStep
<1>3. TypeOK /\ Counted => RepeatsOnlyUnknown
  <2>1. TypeOK => \A n \in Notes : delivered[n] \in Nat /\ unknown[n] \in Nat
    BY Types
  <2> QED BY <2>1 DEF Counted, RepeatsOnlyUnknown
<1> QED BY <1>1, <1>2, <1>3, PTL DEF Spec

LEMMA TerminalStep ==
  ASSUME TypeOK, Held, NEW s0 \in Servers, Servers = {s0}, [Next]_vars,
         NEW n \in Notes, row[n].status \in Terminal
  PROVE  row'[n] = row[n]
<1>1. \A x \in Executors : job[x][n].step \notin Live
  BY DEF Held, Terminal
<1>2. row[n].status \notin {"NONE", "PENDING", "FAILED", "PROCESSING"}
  BY DEF Terminal
<1>3. ASSUME NEW x \in Executors, NEW m \in Notes, Leaves(x, m)
      PROVE  row'[n] = row[n]
  BY <1>1, <1>3 DEF Leaves
<1>4. ASSUME NEW x \in Executors, NEW m \in Notes,
             Suppress(x, m) \/ Retry(x, m) \/ Finish(x, m) \/ RecordFails(x, m)
      PROVE  row'[n] = row[n]
  BY <1>3, <1>4, SuppressEffect, RetryEffect, FinishEffect, RecordFailsEffect
<1>5. ASSUME NEW x \in Executors, NEW m \in Notes, Clear(x, m) \/ Send(x, m)
      PROVE  row'[n] = row[n]
  BY <1>5, ClearEffect, SendEffect DEF Moves
<1>6. ASSUME NEW s \in Servers, NEW m \in Notes, ClaimForDispatch(s, m)
      PROVE  row'[n] = row[n]
  BY <1>2, <1>6, ClaimEffect
<1>7. ASSUME NEW s \in Servers, NEW m \in Notes, BeginDispatch(s, m)
      PROVE  row'[n] = row[n]
  BY <1>2, <1>7, BeginEffect
<1>8. ASSUME NEW s \in Servers, ClaimBatchForProcessing(s)
      PROVE  row'[n] = row[n]
  BY <1>2, <1>8, BatchEffect
<1>9. CASE TakesBack
  BY <1>2, <1>9 DEF TakesBack
<1>10. ASSUME NEW s \in Servers, Crash(s)
       PROVE  row'[n] = row[n]
  BY <1>10, CrashEffect
<1>11. CASE \E s \in Servers : Sweep(s) \/ Start(s)
  BY <1>9, <1>11, SweepEffect, StartEffect
<1>12. CASE Silence
  BY <1>12 DEF Silence
<1> QED BY <1>4, <1>5, <1>6, <1>7, <1>8, <1>10, <1>11, <1>12, Kinds

(* With one server a notification that was settled stays as it is.         *)
THEOREM SettledNotesStay ==
  ASSUME NEW s0 \in Servers, Servers = {s0}
  PROVE  Spec => TerminalStays
<1>1. Init => TypeOK /\ Held
  BY Start0
<1>2. TypeOK /\ Held /\ [Next]_vars => (TypeOK /\ Held)'
  BY TypesStep, HeldStep
<1>3. TypeOK /\ Held /\ [Next]_vars =>
        [\A n \in Notes : row[n].status \in Terminal => row'[n] = row[n]]_vars
  BY TerminalStep
<1> QED BY <1>1, <1>2, <1>3, PTL DEF Spec, TerminalStays

(* Type correctness: attempts, events and faults stay within their bounds. *)
THEOREM TypeCorrect ==
  ASSUME NEW s0 \in Servers, Servers = {s0}
  PROVE  Spec => []TypeOK
<1>1. Init => TypeOK /\ Held
  BY Start0
<1>2. TypeOK /\ Held /\ [Next]_vars => (TypeOK /\ Held)'
  BY TypesStep, HeldStep
<1> QED BY <1>1, <1>2, PTL DEF Spec
=============================================================================
