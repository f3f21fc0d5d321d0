------------------------------ MODULE FalJobProofs ------------------------------
(****************************************************************************)
(* What FalJob's properties rest on, proved for any number of processes that *)
(* overlap, crash and fail at any step.                                      *)
(*                                                                           *)
(* The process that created the receipt, or whose job the provider took, has  *)
(* a claim; there is never a second (Claimed), and every id anywhere is of a  *)
(* job the provider has (IdsKnown).  As long as nobody saved over another,    *)
(* what a writer moves into place is what it meant to save (WritersOK).      *)
(****************************************************************************)
EXTENDS FalJob, FiniteSetTheorems, TLAPS

Any == Receipt \cup Results \cup {"whole", "part"} \cup Digests \cup {Absent, Torn}

Handles == {"none", "disk", "temp", "gone"}

Process ==
    [pc: Steps, command: Commands \cup {"none"}, job: Receipt \cup {Absent},
     result: Results \cup {Absent}, digest: Digests \cup {Absent}, file: Files, value: Any,
     exclusive: BOOLEAN, then: Steps, handle: Handles]

Shape ==
    /\ disk \in [Files -> Any] /\ temp \in [Files -> Any]
    /\ proc \in [Procs -> Process]
    /\ queue \in [DOMAIN queue -> QueueStates \cup {"expired"}] /\ DOMAIN queue \subseteq Procs
    /\ outcome \in Results /\ overlapped \in BOOLEAN

ContentsOK == \A f \in Files : {disk[f], temp[f]} \subseteq Contents[f] \cup {Absent, Torn}

(* Where a process is saving something, and what it does once that is saved.  *)
Saves == {"create", "open", "write", "replace"}
Nears(t, step) == t.pc = step \/ (t.pc \in Saves /\ t.then = step)

ControlOf(t) ==
    /\ t.pc \in Saves =>
           /\ t.file # "asset" => t.value \in Contents[t.file]
           /\ t.file = "job" => t.job = t.value
           /\ t.file = "result" => t.value = outcome
           /\ t.then = "judge" => t.file = "result"
           /\ t.exclusive =>
                  /\ t.pc \in {"create", "write"}
                  /\ \/ /\ t.file = "job" /\ t.command = "submit"
                        /\ t.value = Pending /\ t.then = "call"
                     \/ t.file = "upload" /\ t.command = "upload" /\ t.then = "ended"
           /\ ~t.exclusive =>
                  /\ t.pc # "create" /\ t.file # "upload" /\ t.command # "upload"
                  /\ t.command = "submit" => t.file = "job" /\ t.then = "ended"
                  /\ t.command # "submit" =>
                         HasId(t.job) /\ t.then \in {"fetch", "judge", "download", "ended"}
    /\ t.pc = "call" => t.command = "submit" /\ t.job = Pending
    /\ t.pc \in {"query", "readResult", "fetch", "judge", "download"} =>
           t.command \notin {"submit", "upload"} /\ HasId(t.job)
    /\ t.pc \in {"check", "upload"} /\ t.command = "upload" => t.digest \in Digests
    /\ t.pc = "upload" => t.command = "upload"
    /\ t.pc = "read" => t.command \notin {"submit", "upload"}
    /\ Nears(t, "judge") \/ Nears(t, "download") => t.result = outcome
    /\ Nears(t, "download") => outcome # "error"

Control == \A p \in Procs : ControlOf(proc[p])

(* Only submit has a claim, from the receipt's creation until its last save.  *)
Submits(t) == t.command = "submit" /\ t.pc \in {"call", "open", "write", "replace"}
Claims(p) == p \in DOMAIN queue \/ Submits(proc[p])
Claimed == \A p \in Procs : Claims(p) => disk["job"] # Absent /\ \A q \in Procs : Claims(q) => q = p

Known(x) == HasId(x) => x.id \in DOMAIN queue
IdsKnown == Known(disk["job"]) /\ Known(temp["job"]) /\ \A p \in Procs : Known(proc[p].job)

(* Until the provider has answered, nobody has an id.                        *)
Unanswered ==
    \A p \in Procs : Submits(proc[p]) /\ ~HasId(proc[p].job) =>
        /\ ~HasId(disk["job"]) /\ ~HasId(temp["job"])
        /\ \A q \in Procs : ~HasId(proc[q].job)

Writes(t) == t.pc \in {"write", "replace"}

WriterOf(p) ==
    /\ proc[p].pc = "write" /\ proc[p].file = "upload" => disk["upload"] # Absent
    /\ ~overlapped =>
           /\ proc[p].pc = "write" /\ ~proc[p].exclusive =>
                  proc[p].handle = "temp" /\ temp[proc[p].file] = Torn
           /\ proc[p].pc = "replace" /\ proc[p].file # "asset" =>
                  temp[proc[p].file] = proc[p].value
           /\ Writes(proc[p]) => \A q \in Procs :
                  Writes(proc[q]) /\ proc[q].file = proc[p].file => q = p

WritersOK == \A p \in Procs : WriterOf(p)

(* Only the provider's result is ever saved as the result, and whoever goes   *)
(* on to deliver it has seen it on the disk.                                 *)
ResultsSeen ==
    /\ {disk["result"], temp["result"]} \subseteq {Absent, Torn, outcome}
    /\ ~overlapped => \A p \in Procs :
           proc[p].pc = "judge" \/ Nears(proc[p], "download") => disk["result"] = outcome

Delivered(x) == x \notin {Absent, Torn} /\ x.status \in {"downloaded", "result_saved"}

DeliveredOK(x) ==
    Delivered(x) =>
        /\ outcome # "error"
        /\ ~overlapped => disk["result"] = outcome
        /\ x.status = "downloaded" <=> outcome = "media"
        /\ outcome = "media" => disk["asset"] # Absent

AllDelivered ==
    /\ DeliveredOK(disk["job"]) /\ DeliveredOK(temp["job"])
    /\ \A p \in Procs : DeliveredOK(proc[p].job)

IInv == /\ Shape /\ ContentsOK /\ Control
        /\ Claimed /\ IdsKnown /\ Unanswered
        /\ WritersOK /\ ResultsSeen /\ AllDelivered

--------------------------------------------------------------------------------
(* The operators the module is built from.                                   *)

(* What is in a file is neither Absent nor Torn.                             *)
LEMMA ContentsTold ==
    /\ Absent # Torn
    /\ \A f \in Files : Absent \notin Contents[f] /\ Torn \notin Contents[f]
    /\ Contents["job"] = Receipt /\ Contents["result"] = Results
    /\ Contents["asset"] = {"whole", "part"} /\ Contents["upload"] = Digests
    /\ Absent \notin Receipt /\ Torn \notin Receipt
    /\ Absent \notin Results /\ Torn \notin Results
    /\ \A f \in Files : Contents[f] \subseteq Any
<1>1. /\ Contents["job"] = Receipt /\ Contents["result"] = Results
      /\ Contents["asset"] = {"whole", "part"} /\ Contents["upload"] = Digests
  BY DEF Contents
<1>2. /\ Absent # Torn
      /\ \A f \in Files : Absent \notin Contents[f] /\ Torn \notin Contents[f]
  BY FalJobAssumption
<1>3. QED
  BY <1>1, <1>2 DEF Files, Any

LEMMA PendingFacts == Pending \in Receipt /\ ~HasId(Pending) /\ ~Delivered(Pending)
BY DEF Pending, Receipt, Statuses, HasId, NoId, Delivered

LEMMA EndedFacts ==
    /\ [NotStarted EXCEPT !.pc = "ended"] \in Process
    /\ [NotStarted EXCEPT !.pc = "ended"].pc = "ended"
    /\ [NotStarted EXCEPT !.pc = "ended"].job = Absent
    /\ NotStarted \in Process /\ NotStarted.pc = "start" /\ NotStarted.job = Absent
BY DEF NotStarted, Process, Steps, Files, Any, Handles

LEMMA SavingFacts ==
    ASSUME NEW t \in Process, NEW f \in Files, NEW value \in Any, NEW next \in Steps,
           f = "job" => value \in Receipt,
           NEW s, s = Saving(t, f, value, next)
    PROVE  /\ s \in Process
           /\ s.pc = "open" /\ s.file = f /\ s.value = value /\ ~s.exclusive
           /\ s.then = next
           /\ f = "job" => s.job = value
           /\ f # "job" => s.job = t.job
           /\ s.command = t.command /\ s.result = t.result /\ s.digest = t.digest
<1> DEFINE job == IF f = "job" THEN value ELSE t.job
<1>1. s = [t EXCEPT !.pc = "open", !.file = f, !.value = value, !.exclusive = FALSE,
                    !.then = next, !.job = job]
  BY DEF Saving
<1>2. job \in Receipt \cup {Absent}
  BY DEF Process
<1>3. "open" \in Steps
  BY DEF Steps
<1>4. HIDE DEF job
<1>5. PICK u : u = [t EXCEPT !.pc = "open", !.file = f, !.value = value]
  OBVIOUS
<1>6. /\ u \in Process /\ u.pc = "open" /\ u.file = f /\ u.value = value
      /\ u.command = t.command /\ u.result = t.result /\ u.digest = t.digest
  BY <1>3, <1>5 DEF Process
<1>7. s = [u EXCEPT !.exclusive = FALSE, !.then = next, !.job = job]
  BY <1>1, <1>5 DEF Process
<1>8. /\ s \in Process
      /\ s.pc = "open" /\ s.file = f /\ s.value = value /\ ~s.exclusive /\ s.then = next
      /\ s.job = job /\ s.command = t.command /\ s.result = t.result /\ s.digest = t.digest
  BY <1>2, <1>6, <1>7 DEF Process
<1>9. QED
  BY <1>8 DEF job

(* One that moves to its next step with its file open for writing, or closed. *)
Handled(s, step, h) == [s EXCEPT !.pc = step, !.handle = h]

(* Everything else about the process stays.                                  *)
LEMMA HandledFacts ==
    ASSUME NEW s \in Process, NEW step \in Steps, NEW h \in Handles,
           NEW t, t = Handled(s, step, h)
    PROVE  /\ t \in Process /\ t.pc = step /\ t.handle = h
           /\ t.command = s.command /\ t.job = s.job /\ t.result = s.result
           /\ t.file = s.file /\ t.value = s.value /\ t.exclusive = s.exclusive
           /\ t.then = s.then /\ t.digest = s.digest
BY DEF Process, Handled

LEMMA CreatingFacts ==
    ASSUME NEW t \in Process, NEW f \in Files, NEW value \in Any, NEW next \in Steps,
           f = "job" => value \in Receipt,
           NEW c, c = Creating(t, f, value, next)
    PROVE  /\ c \in Process
           /\ c.pc = "create" /\ c.file = f /\ c.value = value /\ c.exclusive
           /\ c.then = next
           /\ f = "job" => c.job = value
           /\ f # "job" => c.job = t.job
           /\ c.command = t.command /\ c.result = t.result
<1>1. PICK s : s = Saving(t, f, value, next)
  OBVIOUS
<1>2. /\ s \in Process
      /\ s.file = f /\ s.value = value /\ s.then = next
      /\ f = "job" => s.job = value
      /\ f # "job" => s.job = t.job
      /\ s.command = t.command /\ s.result = t.result
  BY <1>1, SavingFacts
<1>3. c = [s EXCEPT !.pc = "create", !.exclusive = TRUE]
  BY <1>1 DEF Creating
<1>4. "create" \in Steps
  BY DEF Steps
<1>5. QED
  BY <1>2, <1>3, <1>4 DEF Process

(* A new status keeps the id.                                                *)
LEMMA StatusFacts ==
    ASSUME NEW p, proc[p].job \in Receipt, NEW status \in Statuses
    PROVE  /\ WithStatus(p, status) \in Receipt
           /\ WithStatus(p, status).id = proc[p].job.id
           /\ WithStatus(p, status).status = status
           /\ HasId(WithStatus(p, status)) <=> HasId(proc[p].job)
BY ContentsTold DEF WithStatus, Receipt, HasId

--------------------------------------------------------------------------------
(* Steps that touch no file                                                  *)

(* What a process p may have in memory next, for the invariant to hold.      *)
Fits(p, t) ==
    /\ t \in Process /\ ControlOf(t) /\ ~Writes(t)
    /\ Submits(t) => Submits(proc[p]) /\ (HasId(proc[p].job) => HasId(t.job))
    /\ HasId(t.job) => HasId(proc[p].job) \/ HasId(disk["job"]) \/ Submits(proc[p])
    /\ ~overlapped /\ (t.pc = "judge" \/ Nears(t, "download")) => disk["result"] = outcome
    /\ DeliveredOK(t.job)

(* The provider may meanwhile have taken a job of p's.                       *)
Taken(p) ==
    /\ queue' \in [DOMAIN queue' -> QueueStates \cup {"expired"}]
    /\ DOMAIN queue \subseteq DOMAIN queue'
    /\ DOMAIN queue' \subseteq DOMAIN queue \cup {p}
    /\ p \in DOMAIN queue' => Claims(p)

LEMMA MoveKeeps ==
    ASSUME IInv, NEW p \in Procs, NEW t, Fits(p, t), proc' = [proc EXCEPT ![p] = t],
           UNCHANGED <<disk, temp, outcome, overlapped>>, Taken(p),
           HasId(t.job) => t.job.id \in DOMAIN queue'
    PROVE  IInv'
<1> USE DEF IInv
<1>1. /\ proc \in [Procs -> Process] /\ t \in Process
      /\ proc' \in [Procs -> Process] /\ proc'[p] = t
      /\ \A q \in Procs : q # p => proc'[q] = proc[q]
      /\ disk' = disk /\ temp' = temp /\ outcome' = outcome /\ overlapped' = overlapped
  BY DEF Shape, Fits
<1>2. Shape'
  BY <1>1 DEF Shape, Taken
<1>3. ContentsOK'
  BY <1>1 DEF ContentsOK
<1>4. Control'
  <2>1. \A u : ControlOf(u)' <=> ControlOf(u)
    BY <1>1 DEF ControlOf
  <2>2. \A q \in Procs : ControlOf(proc'[q])
    BY <1>1 DEF Control, Fits
  <2>3. QED
    BY <1>1, <2>2 DEF Control, ControlOf
<1>5. \A q \in Procs : Claims(q)' => Claims(q)
  BY <1>1 DEF Claims, Taken, Fits
<1>6. Claimed'
  BY <1>1, <1>5 DEF Claimed
<1>7. IdsKnown'
  BY <1>1 DEF IdsKnown, Known, Taken
<1>8. Unanswered'
  <2>1. SUFFICES ASSUME NEW r \in Procs, Submits(proc'[r]), ~HasId(proc'[r].job)
                 PROVE  /\ ~HasId(disk["job"]) /\ ~HasId(temp["job"])
                        /\ \A q \in Procs : ~HasId(proc'[q].job)
    BY <1>1 DEF Unanswered, Submits, HasId
  <2>2. Submits(proc[r]) /\ ~HasId(proc[r].job)
    BY <1>1, <2>1 DEF Fits
  <2>3. /\ ~HasId(disk["job"]) /\ ~HasId(temp["job"])
        /\ \A q \in Procs : ~HasId(proc[q].job)
    BY <2>2 DEF Unanswered
  <2>4. HasId(t.job) => p = r
    BY <2>2, <2>3 DEF Fits, Claimed, Claims
  <2>5. ~HasId(t.job)
    BY <1>1, <2>1, <2>4
  <2>6. QED
    BY <1>1, <2>3, <2>5
<1>9. WritersOK'
  <2>1. \A q \in Procs : Writes(proc'[q]) => q # p /\ proc'[q] = proc[q]
    BY <1>1 DEF Fits
  <2>2. SUFFICES ASSUME NEW q \in Procs PROVE WriterOf(q)'
    BY DEF WritersOK
  <2>3. WriterOf(q)
    BY DEF WritersOK
  <2>4. CASE Writes(proc'[q])
    BY <1>1, <2>1, <2>3, <2>4 DEF WriterOf, Writes
  <2>5. CASE ~Writes(proc'[q])
    BY <2>5 DEF WriterOf, Writes
  <2>6. QED
    BY <2>4, <2>5
<1>10. ResultsSeen'
  <2>1. ~overlapped => \A q \in Procs :
            proc'[q].pc = "judge" \/ Nears(proc'[q], "download") => disk["result"] = outcome
    BY <1>1 DEF ResultsSeen, Fits
  <2>2. QED
    BY <1>1, <2>1 DEF ResultsSeen, Nears
<1>11. AllDelivered'
  BY <1>1 DEF AllDelivered, DeliveredOK, Fits
<1>12. QED
  BY <1>2, <1>3, <1>4, <1>6, <1>7, <1>8, <1>9, <1>10, <1>11

LEMMA NobodyTakes ==
    ASSUME IInv, NEW p \in Procs, queue' = queue
    PROVE  Taken(p)
BY DEF IInv, Shape, Taken, Claims

(* The usual case: the provider's jobs stay as they are, and the only ids are *)
(* those already known.                                                      *)
LEMMA QuietKeeps ==
    ASSUME IInv, NEW p \in Procs, NEW t, Fits(p, t), proc' = [proc EXCEPT ![p] = t],
           UNCHANGED <<disk, temp, queue, outcome, overlapped>>,
           HasId(t.job) => t.job.id \in DOMAIN queue
    PROVE  IInv'
BY MoveKeeps, NobodyTakes

LEMMA EndKeeps ==
    ASSUME IInv, NEW p \in Procs, End(p), UNCHANGED <<disk, temp, outcome, overlapped>>, Taken(p)
    PROVE  IInv'
<1>1. PICK t : t = [NotStarted EXCEPT !.pc = "ended"]
  OBVIOUS
<1>2. t \in Process /\ t.pc = "ended" /\ t.job = Absent
  BY <1>1, EndedFacts
<1>3. ~HasId(t.job) /\ ~Delivered(t.job)
  BY <1>2 DEF HasId, Delivered
<1>4. Fits(p, t)
  BY <1>2, <1>3 DEF Fits, ControlOf, Saves, Nears, Submits, Writes, DeliveredOK
<1>5. proc' = [proc EXCEPT ![p] = t]
  BY <1>1 DEF End
<1>6. QED
  BY <1>3, <1>4, <1>5, MoveKeeps

(* Only the step and what Start, ReadReceipt or ReadResult reads changes.     *)
LEMMA StartKeeps ==
    ASSUME IInv, NEW p \in Procs, NEW command \in Commands, Start(p, command)
    PROVE  IInv'
<1> USE DEF IInv
<1>1. PICK digest \in Digests :
          proc' = [proc EXCEPT ![p].command = command,
                               ![p].digest = IF command = "upload" THEN digest ELSE @,
                               ![p].pc = IF command \in {"submit", "upload"} THEN "check" ELSE "read"]
  BY DEF Start
<1> DEFINE digests == IF command = "upload" THEN digest ELSE proc[p].digest
           step == IF command \in {"submit", "upload"} THEN "check" ELSE "read"
<1>2. proc \in [Procs -> Process] /\ proc[p] \in Process
  BY DEF Shape
<1>3. PICK t : t = [proc[p] EXCEPT !.command = command, !.digest = digests, !.pc = step]
  OBVIOUS
<1>4. proc' = [proc EXCEPT ![p] = t]
  BY <1>1, <1>2, <1>3
<1>5. digests \in Digests \cup {Absent} /\ step \in Steps
  BY <1>2 DEF Process, Steps
<1>6. /\ command = "upload" => digests \in Digests
      /\ step \in {"check", "read"} /\ (step = "read" <=> command \notin {"submit", "upload"})
  OBVIOUS
<1>7. HIDE DEF digests, step
<1>8. /\ t \in Process /\ t.command = command /\ t.digest = digests /\ t.pc = step
      /\ t.job = proc[p].job
  BY <1>2, <1>3, <1>5 DEF Process
<1>9. ControlOf(t) /\ ~Writes(t) /\ ~Submits(t) /\ ~Nears(t, "download") /\ t.pc # "judge"
  BY <1>6, <1>8 DEF ControlOf, Saves, Nears, Writes, Submits
<1>10. Fits(p, t) /\ (HasId(t.job) => t.job.id \in DOMAIN queue)
  BY <1>8, <1>9 DEF Fits, AllDelivered, IdsKnown, Known
<1>11. QED
  BY <1>4, <1>10, QuietKeeps DEF Start

(* A process with nothing to save moves on to another such step.             *)
LEMMA GoKeeps ==
    ASSUME IInv, NEW p \in Procs, NEW step \in {"download", "upload"}, Go(p, step),
           UNCHANGED <<disk, temp, queue, outcome, overlapped>>,
           step = "download" => proc[p].pc = "judge" /\ proc[p].result # "error",
           step = "upload" => proc[p].pc = "check" /\ proc[p].command = "upload"
    PROVE  IInv'
<1> USE DEF IInv
<1>1. /\ proc \in [Procs -> Process] /\ proc[p] \in Process /\ step \in Steps
      /\ ControlOf(proc[p])
  BY DEF Shape, Steps, Control
<1>2. PICK t : t = [proc[p] EXCEPT !.pc = step]
  OBVIOUS
<1>3. proc' = [proc EXCEPT ![p] = t]
  BY <1>1, <1>2 DEF Go
<1>4. /\ t \in Process /\ t.pc = step /\ t.command = proc[p].command /\ t.job = proc[p].job
      /\ t.result = proc[p].result /\ t.digest = proc[p].digest
  BY <1>1, <1>2 DEF Process
<1>5. ControlOf(t)
  <2>1. CASE step = "download"
    BY <1>1, <1>4, <2>1 DEF ControlOf, Saves, Nears
  <2>2. CASE step = "upload"
    BY <1>1, <1>4, <2>2 DEF ControlOf, Saves, Nears
  <2>3. QED
    BY <2>1, <2>2
<1>6. ~overlapped /\ (t.pc = "judge" \/ Nears(t, "download")) => disk["result"] = outcome
  BY <1>4 DEF Nears, Saves, ResultsSeen
<1>7. Fits(p, t) /\ (HasId(t.job) => t.job.id \in DOMAIN queue)
  BY <1>4, <1>5, <1>6 DEF Fits, Writes, Submits, AllDelivered, IdsKnown, Known
<1>8. QED
  BY <1>3, <1>7, QuietKeeps

(* What Saving, and whatever is changed along with it, makes of a process.    *)
SavesNext(t, p, f, value, next) ==
    /\ t \in Process
    /\ t.pc = "open" /\ t.file = f /\ t.value = value /\ ~t.exclusive /\ t.then = next
    /\ f = "job" => t.job = value
    /\ f # "job" => t.job = proc[p].job
    /\ t.command = proc[p].command

(* A process goes on to save a receipt, the result or what was made.         *)
LEMMA SavingKeeps ==
    ASSUME IInv, NEW p \in Procs, NEW f \in {"job", "result", "asset"}, NEW value \in Any,
           NEW next \in {"fetch", "judge", "download", "ended"},
           NEW t, SavesNext(t, p, f, value, next), proc' = [proc EXCEPT ![p] = t],
           UNCHANGED <<disk, temp, outcome, overlapped>>, Taken(p),
           f = "job" =>
               /\ value \in Receipt /\ DeliveredOK(value)
               /\ HasId(value) => value.id \in DOMAIN queue'
               /\ HasId(proc[p].job) => HasId(value)
               /\ HasId(value) => HasId(proc[p].job) \/ Submits(proc[p]),
           f = "result" => value = outcome, next = "judge" => f = "result",
           proc[p].command # "upload",
           proc[p].command = "submit" => Submits(proc[p]) /\ f = "job" /\ next = "ended",
           proc[p].command # "submit" => HasId(proc[p].job),
           next \in {"judge", "download"} => t.result = outcome,
           next = "download" => outcome # "error" /\ (~overlapped => disk["result"] = outcome)
    PROVE  IInv'
<1> USE DEF IInv, SavesNext
<1>1. HasId(proc[p].job) => proc[p].job.id \in DOMAIN queue'
  BY DEF IdsKnown, Known, Taken
<1>2. HasId(t.job) => t.job.id \in DOMAIN queue'
  BY <1>1
<1>3. ControlOf(t)
  <2>1. f # "asset" => value \in Contents[f]
    <3>1. outcome \in Contents["result"]
      BY ContentsTold DEF Shape
    <3>2. QED
      BY <3>1, ContentsTold
  <2>2. proc[p].command # "submit" => HasId(t.job)
    OBVIOUS
  <2>3. QED
    BY <2>1, <2>2 DEF ControlOf, Nears
<1>4. Fits(p, t)
  <2>1. DeliveredOK(t.job)
    BY DEF AllDelivered
  <2>2. Submits(t) => Submits(proc[p]) /\ (HasId(proc[p].job) => HasId(t.job))
    BY DEF Submits
  <2>3. HasId(t.job) => HasId(proc[p].job) \/ Submits(proc[p])
    OBVIOUS
  <2>4. ~overlapped /\ (t.pc = "judge" \/ Nears(t, "download")) => disk["result"] = outcome
    BY DEF Nears
  <2>5. QED
    BY <1>3, <2>1, <2>2, <2>3, <2>4 DEF Fits, Writes
<1>5. QED
  BY <1>2, <1>4, MoveKeeps

LEMMA SavingNext ==
    ASSUME IInv, NEW p \in Procs, NEW f \in {"job", "result", "asset"}, NEW value \in Any,
           NEW next \in {"fetch", "judge", "download", "ended"}, f = "job" => value \in Receipt,
           NEW t, t = Saving(proc[p], f, value, next)
    PROVE  SavesNext(t, p, f, value, next) /\ t.result = proc[p].result
<1>1. proc[p] \in Process /\ f \in Files /\ next \in Steps
  BY DEF IInv, Shape, Files, Steps
<1>2. QED
  BY <1>1, SavingFacts DEF SavesNext

(* A receipt with a new status, and no other, is not yet of a delivery.       *)
LEMMA StatusKnown ==
    ASSUME IInv, NEW p \in Procs, proc[p].job \in Receipt, NEW status \in Statuses,
           NEW value, value = WithStatus(p, status)
    PROVE  /\ value \in Receipt /\ value \in Any
           /\ value.id = proc[p].job.id /\ value.status = status
           /\ HasId(value) <=> HasId(proc[p].job)
           /\ HasId(value) => value.id \in DOMAIN queue
           /\ status \notin {"downloaded", "result_saved"} => DeliveredOK(value)
<1>1. /\ value \in Receipt /\ value.id = proc[p].job.id /\ value.status = status
      /\ HasId(value) <=> HasId(proc[p].job)
  BY StatusFacts
<1>2. HasId(value) => value.id \in DOMAIN queue
  BY <1>1 DEF IInv, IdsKnown, Known
<1>3. QED
  BY <1>1, <1>2 DEF Any, DeliveredOK, Delivered

(* submit's receipt before the call.                                         *)
LEMMA SubmitterHasReceipt ==
    ASSUME IInv, NEW p \in Procs, Submits(proc[p])
    PROVE  proc[p].job \in Receipt
<1>1. ControlOf(proc[p])
  BY DEF IInv, Control
<1>2. CASE proc[p].pc = "call"
  BY <1>1, <1>2, PendingFacts DEF ControlOf
<1>3. CASE proc[p].pc # "call"
  BY <1>1, <1>3, ContentsTold DEF ControlOf, Submits, Saves
<1>4. QED
  BY <1>2, <1>3

LEMMA RaiseKeeps ==
    ASSUME IInv, NEW p \in Procs, Raise(p), UNCHANGED <<disk, temp, outcome, overlapped>>,
           Taken(p)
    PROVE  IInv'
<1> USE DEF IInv
<1>1. CASE End(p)
  BY <1>1, EndKeeps
<1>2. CASE ~End(p)
  <2>1. PICK value : value = WithStatus(p, "submission_unknown")
    OBVIOUS
  <2>2. PICK s : s = Saving(proc[p], "job", value, "ended")
    OBVIOUS
  <2>3. PICK t : t = [s EXCEPT !.handle = "none"]
    OBVIOUS
  <2>4. Submits(proc[p])
    BY <1>2 DEF Raise, Submits
  <2>5. proc' = [proc EXCEPT ![p] = t]
    BY <1>2, <2>1, <2>2, <2>3 DEF Raise
  <2>6. /\ value \in Receipt /\ value \in Any /\ DeliveredOK(value)
        /\ HasId(value) <=> HasId(proc[p].job)
        /\ HasId(value) => value.id \in DOMAIN queue
    BY <2>1, <2>4, SubmitterHasReceipt, StatusKnown DEF Statuses
  <2>7. SavesNext(s, p, "job", value, "ended")
    BY <2>2, <2>6, SavingNext
  <2>8. SavesNext(t, p, "job", value, "ended")
    BY <2>3, <2>7 DEF SavesNext, Process, Handles
  <2>9. QED
    BY <2>4, <2>5, <2>6, <2>8, SavingKeeps DEF Submits, Taken
<1>3. QED
  BY <1>1, <1>2

--------------------------------------------------------------------------------
(* The steps of submit, status, result and upload                            *)

(* What the invariant says of a process that has read an id.                  *)
LEMMA NamedFacts ==
    ASSUME IInv, NEW p \in Procs, HasId(proc[p].job)
    PROVE  proc[p].job \in Receipt /\ proc[p].job.id \in DOMAIN queue
<1>1. proc[p] \in Process
  BY DEF IInv, Shape
<1>2. QED
  BY <1>1 DEF IInv, IdsKnown, Known, HasId, Process

LEMMA CreatingKeeps ==
    ASSUME IInv, NEW p \in Procs, NEW f \in Files, NEW value \in Any, NEW next \in Steps,
           NEW t, t = Creating(proc[p], f, value, next), proc' = [proc EXCEPT ![p] = t],
           UNCHANGED <<disk, temp, queue, outcome, overlapped>>,
           \/ /\ f = "job" /\ value = Pending /\ next = "call" /\ proc[p].command = "submit"
           \/ /\ f = "upload" /\ value \in Digests /\ next = "ended"
              /\ proc[p].command = "upload"
    PROVE  IInv'
<1> USE DEF IInv
<1>1. proc[p] \in Process /\ (f = "job" => value \in Receipt)
  BY PendingFacts DEF Shape
<1>2. /\ t \in Process
      /\ t.pc = "create" /\ t.file = f /\ t.value = value /\ t.exclusive /\ t.then = next
      /\ f = "job" => t.job = value
      /\ f # "job" => t.job = proc[p].job
      /\ t.command = proc[p].command
  BY <1>1, CreatingFacts
<1>3. ControlOf(t) /\ ~Nears(t, "download")
  <2>1. value \in Contents[f]
    BY <1>1, ContentsTold
  <2>2. QED
    BY <1>2, <2>1 DEF ControlOf, Nears, Saves
<1>4. HasId(t.job) => t.job = proc[p].job
  BY <1>2, PendingFacts
<1>5. DeliveredOK(t.job)
  BY <1>2, PendingFacts DEF AllDelivered, DeliveredOK
<1>6. Fits(p, t)
  BY <1>2, <1>3, <1>4, <1>5 DEF Fits, Writes, Submits
<1>7. QED
  BY <1>4, <1>6, NamedFacts, QuietKeeps

LEMMA CheckReceiptKeeps ==
    ASSUME IInv, NEW p \in Procs, CheckReceipt(p)
    PROVE  IInv'
<1>1. CASE disk["job"] = Absent
  <2>1. PICK t : t = Creating(proc[p], "job", Pending, "call")
    OBVIOUS
  <2>2. proc' = [proc EXCEPT ![p] = t]
    BY <1>1, <2>1 DEF CheckReceipt
  <2>3. "job" \in Files /\ Pending \in Any /\ "call" \in Steps
    BY PendingFacts DEF Files, Any, Steps
  <2>4. QED
    BY <2>1, <2>2, <2>3, CreatingKeeps DEF CheckReceipt
<1>2. CASE disk["job"] # Absent
  BY <1>2, EndKeeps, NobodyTakes DEF CheckReceipt
<1>3. QED
  BY <1>1, <1>2

LEMMA UploadKeeps ==
    ASSUME IInv, NEW p \in Procs, Upload(p)
    PROVE  IInv'
<1>1. CASE End(p)
  BY <1>1, EndKeeps, NobodyTakes DEF Upload
<1>2. CASE ~End(p)
  <2>1. PICK t : t = Creating(proc[p], "upload", proc[p].digest, "ended")
    OBVIOUS
  <2>2. proc' = [proc EXCEPT ![p] = t]
    BY <1>2, <2>1 DEF Upload
  <2>3. proc[p].command = "upload" /\ proc[p].digest \in Digests
    BY DEF IInv, Control, ControlOf, Upload, At
  <2>4. "upload" \in Files /\ proc[p].digest \in Any /\ "ended" \in Steps
    BY <2>3 DEF Files, Any, Steps
  <2>5. QED
    BY <2>1, <2>2, <2>3, <2>4, CreatingKeeps DEF Upload
<1>3. QED
  BY <1>1, <1>2

LEMMA CallFacts ==
    ASSUME IInv, NEW p \in Procs, At(p, "call"),
           queue' \in {queue, [j \in DOMAIN queue \cup {p} |->
                                   IF j = p THEN "IN_QUEUE" ELSE queue[j]]}
    PROVE  Submits(proc[p]) /\ Taken(p) /\ ~HasId(proc[p].job)
<1>1. proc[p].command = "submit" /\ proc[p].job = Pending
  BY DEF IInv, Control, ControlOf, At
<1>2. Submits(proc[p])
  BY <1>1 DEF Submits, At
<1>3. /\ queue' \in [DOMAIN queue' -> QueueStates \cup {"expired"}]
      /\ DOMAIN queue \subseteq DOMAIN queue' /\ DOMAIN queue' \subseteq DOMAIN queue \cup {p}
  BY DEF IInv, Shape, QueueStates
<1>4. QED
  BY <1>1, <1>2, <1>3, PendingFacts DEF Taken, Claims

LEMMA CallSubmitKeeps ==
    ASSUME IInv, NEW p \in Procs, CallSubmit(p)
    PROVE  IInv'
<1>1. PICK value : value = [status |-> "submitted", id |-> p]
  OBVIOUS
<1>2. PICK t : t = Saving(proc[p], "job", value, "ended")
  OBVIOUS
<1>3. proc' = [proc EXCEPT ![p] = t] /\ UNCHANGED <<disk, temp, outcome, overlapped>>
  BY <1>1, <1>2 DEF CallSubmit
<1>4. Submits(proc[p]) /\ Taken(p)
  BY CallFacts DEF CallSubmit
<1>5. p \in DOMAIN queue'
  BY DEF CallSubmit
<1>6. value \in Receipt /\ value.id = p /\ value.status = "submitted" /\ HasId(value)
  <2>1. value.id = p /\ value.status = "submitted" /\ value.status \in Statuses
    BY <1>1 DEF Statuses
  <2>2. value \in Receipt
    BY <1>1, <2>1 DEF Receipt
  <2>3. HasId(value)
    BY <2>1, <2>2, ContentsTold, FalJobAssumption DEF HasId, NoId
  <2> QED BY <2>1, <2>2, <2>3
<1>7. DeliveredOK(value) /\ value \in Any
  BY <1>6 DEF DeliveredOK, Delivered, Any
<1>8. SavesNext(t, p, "job", value, "ended")
  BY <1>2, <1>6, <1>7, SavingNext
<1>9. QED
  BY <1>3, <1>4, <1>5, <1>6, <1>7, <1>8, SavingKeeps DEF Submits

LEMMA CallFailsKeeps ==
    ASSUME IInv, NEW p \in Procs, CallFails(p)
    PROVE  IInv'
BY CallFacts, RaiseKeeps DEF CallFails

LEMMA ReadReceiptKeeps ==
    ASSUME IInv, NEW p \in Procs, ReadReceipt(p)
    PROVE  IInv'
<1>1. CASE ~HasId(disk["job"])
  BY <1>1, EndKeeps, NobodyTakes DEF ReadReceipt
<1>2. CASE HasId(disk["job"])
  <2> USE DEF IInv
  <2> DEFINE step == IF proc[p].command = "result" /\ disk["result"] # Absent
                     THEN "readResult" ELSE "query"
  <2>1. /\ proc \in [Procs -> Process] /\ proc[p] \in Process
        /\ proc[p].command \notin {"submit", "upload"}
    BY DEF Shape, Control, ControlOf, ReadReceipt, At
  <2>2. PICK t : t = [proc[p] EXCEPT !.job = disk["job"], !.pc = step]
    OBVIOUS
  <2>3. proc' = [proc EXCEPT ![p] = t]
    BY <1>2, <2>1, <2>2 DEF ReadReceipt
  <2>4. disk["job"] \in Receipt
    <3>1. "job" \in Files
      BY DEF Files
    <3>2. QED
      BY <1>2, <3>1, ContentsTold DEF ContentsOK, HasId
  <2>5. step \in {"readResult", "query"}
    OBVIOUS
  <2>6. HIDE DEF step
  <2>7. /\ t \in Process /\ t.pc = step /\ t.job = disk["job"]
        /\ t.command = proc[p].command
    BY <2>1, <2>2, <2>4, <2>5 DEF Process, Steps
  <2>8. ControlOf(t) /\ ~Nears(t, "download")
    BY <1>2, <2>1, <2>5, <2>7 DEF ControlOf, Nears, Saves
  <2>9. HasId(t.job) /\ t.job.id \in DOMAIN queue /\ DeliveredOK(t.job)
    BY <1>2, <2>7 DEF IdsKnown, Known, AllDelivered
  <2>10. Fits(p, t)
    BY <1>2, <2>1, <2>5, <2>7, <2>8, <2>9 DEF Fits, Writes, Submits
  <2>11. QED
    BY <2>3, <2>9, <2>10, QuietKeeps DEF ReadReceipt
<1>3. QED
  BY <1>1, <1>2

LEMMA QueryKeeps ==
    ASSUME IInv, NEW p \in Procs, Query(p)
    PROVE  IInv'
<1>1. /\ proc[p].command \notin {"submit", "upload"} /\ HasId(proc[p].job)
      /\ proc[p].job \in Receipt /\ proc[p].job.id \in DOMAIN queue
  BY NamedFacts DEF IInv, Control, ControlOf, Query, At
<1>2. PICK status \in {queue[proc[p].job.id], "UNKNOWN"} :
          proc' = [proc EXCEPT ![p] = Saving(@, "job", WithStatus(p, status),
                    IF proc[p].command = "result" /\ status = "COMPLETED" THEN "fetch" ELSE "ended")]
  BY DEF Query
<1>3. status \in Statuses /\ status \notin {"downloaded", "result_saved"}
  BY <1>1, <1>2 DEF IInv, Shape, Query, QueueStates, Statuses
<1>4. PICK next : next = IF proc[p].command = "result" /\ status = "COMPLETED"
                         THEN "fetch" ELSE "ended"
  OBVIOUS
<1>5. PICK value : value = WithStatus(p, status)
  OBVIOUS
<1>6. PICK t : t = Saving(proc[p], "job", value, next)
  OBVIOUS
<1>7. proc' = [proc EXCEPT ![p] = t] /\ UNCHANGED <<disk, temp, queue, outcome, overlapped>>
  BY <1>2, <1>4, <1>5, <1>6 DEF Query
<1>8. next \in {"fetch", "judge", "download", "ended"} /\ next \notin {"judge", "download"}
  BY <1>4
<1>9. /\ value \in Receipt /\ value \in Any /\ HasId(value) /\ value.id \in DOMAIN queue
      /\ DeliveredOK(value)
  BY <1>1, <1>3, <1>5, StatusKnown
<1>10. SavesNext(t, p, "job", value, next)
  BY <1>6, <1>8, <1>9, SavingNext
<1>11. Taken(p) /\ queue' = queue
  BY <1>7, NobodyTakes
<1>12. QED
  BY <1>1, <1>7, <1>8, <1>9, <1>10, <1>11, SavingKeeps

LEMMA ReadResultKeeps ==
    ASSUME IInv, NEW p \in Procs, ReadResult(p)
    PROVE  IInv'
<1>1. CASE disk["result"] \notin Results
  BY <1>1, EndKeeps, NobodyTakes DEF ReadResult
<1>2. CASE disk["result"] \in Results
  <2> USE DEF IInv
  <2>1. /\ proc \in [Procs -> Process] /\ proc[p] \in Process
        /\ proc[p].command \notin {"submit", "upload"} /\ HasId(proc[p].job)
    BY DEF Shape, Control, ControlOf, ReadResult, At
  <2>2. PICK t : t = [proc[p] EXCEPT !.result = disk["result"], !.pc = "judge"]
    OBVIOUS
  <2>3. proc' = [proc EXCEPT ![p] = t]
    BY <1>2, <2>1, <2>2 DEF ReadResult
  <2>4. disk["result"] = outcome
    BY <1>2, ContentsTold DEF ResultsSeen
  <2>5. /\ t \in Process /\ t.pc = "judge" /\ t.result = outcome /\ t.job = proc[p].job
        /\ t.command = proc[p].command
    BY <1>2, <2>1, <2>2, <2>4 DEF Process, Steps
  <2>6. ControlOf(t)
    BY <2>1, <2>5 DEF ControlOf, Nears, Saves
  <2>7. Fits(p, t)
    BY <2>1, <2>4, <2>5, <2>6 DEF Fits, Writes, Submits, AllDelivered
  <2>8. QED
    BY <2>1, <2>3, <2>5, <2>7, NamedFacts, QuietKeeps DEF ReadResult
<1>3. QED
  BY <1>1, <1>2

LEMMA FetchResultKeeps ==
    ASSUME IInv, NEW p \in Procs, FetchResult(p)
    PROVE  IInv'
<1>1. proc[p].command \notin {"submit", "upload"} /\ HasId(proc[p].job)
  BY DEF IInv, Control, ControlOf, FetchResult, At
<1>2. outcome \in Results /\ outcome \in Any
  BY DEF IInv, Shape, Any
<1>3. PICK s : s = Saving(proc[p], "result", outcome, "judge")
  OBVIOUS
<1>4. PICK t : t = [s EXCEPT !.result = outcome]
  OBVIOUS
<1>5. proc' = [proc EXCEPT ![p] = t] /\ UNCHANGED <<disk, temp, queue, outcome, overlapped>>
  BY <1>3, <1>4 DEF FetchResult
<1>6. SavesNext(s, p, "result", outcome, "judge")
  BY <1>2, <1>3, SavingNext
<1>7. SavesNext(t, p, "result", outcome, "judge") /\ t.result = outcome
  BY <1>2, <1>4, <1>6 DEF SavesNext, Process, Handles
<1>8. QED
  BY <1>1, <1>2, <1>5, <1>7, NobodyTakes, SavingKeeps

LEMMA JudgeKeeps ==
    ASSUME IInv, NEW p \in Procs, Judge(p)
    PROVE  IInv'
<1>1. CASE proc[p].result # "error"
  BY <1>1, GoKeeps DEF Judge, At
<1>2. CASE proc[p].result = "error"
  <2>1. /\ proc[p].command \notin {"submit", "upload"} /\ HasId(proc[p].job)
        /\ proc[p].job \in Receipt
    BY NamedFacts DEF IInv, Control, ControlOf, Judge, At
  <2>2. PICK value : value = WithStatus(p, "provider_error")
    OBVIOUS
  <2>3. PICK t : t = Saving(proc[p], "job", value, "ended")
    OBVIOUS
  <2>4. proc' = [proc EXCEPT ![p] = t] /\ UNCHANGED <<disk, temp, queue, outcome, overlapped>>
    BY <1>2, <2>2, <2>3 DEF Judge
  <2>5. /\ value \in Receipt /\ value \in Any /\ HasId(value) /\ value.id \in DOMAIN queue
        /\ DeliveredOK(value)
    BY <2>1, <2>2, StatusKnown DEF Statuses
  <2>6. SavesNext(t, p, "job", value, "ended")
    BY <2>3, <2>5, SavingNext
  <2>7. QED
    BY <2>1, <2>4, <2>5, <2>6, NobodyTakes, SavingKeeps
<1>3. QED
  BY <1>1, <1>2

LEMMA DownloadKeeps ==
    ASSUME IInv, NEW p \in Procs, Download(p)
    PROVE  IInv'
<1>1. /\ proc[p].command \notin {"submit", "upload"} /\ HasId(proc[p].job)
      /\ proc[p].job \in Receipt
      /\ proc[p].result = outcome /\ outcome # "error"
      /\ ~overlapped => disk["result"] = outcome
  BY NamedFacts DEF IInv, Control, ControlOf, Nears, ResultsSeen, Download, At
<1>2. ASSUME NEW status \in {"result_saved", "downloaded"},
             status = "downloaded" <=> outcome = "media",
             outcome = "media" => disk["asset"] # Absent,
             proc' = [proc EXCEPT ![p] = Saving(@, "job", WithStatus(p, status), "ended")]
      PROVE  IInv'
  <2>1. PICK value : value = WithStatus(p, status)
    OBVIOUS
  <2>2. PICK t : t = Saving(proc[p], "job", value, "ended")
    OBVIOUS
  <2>3. proc' = [proc EXCEPT ![p] = t] /\ UNCHANGED <<disk, temp, queue, outcome, overlapped>>
    BY <1>2, <2>1, <2>2 DEF Download
  <2>4. status \in Statuses
    BY DEF Statuses
  <2>5. /\ value \in Receipt /\ value \in Any /\ HasId(value) /\ value.id \in DOMAIN queue
        /\ value.status = status
    BY <1>1, <2>1, <2>4, StatusKnown
  <2>6. DeliveredOK(value)
    BY <1>1, <1>2, <2>5 DEF DeliveredOK
  <2>7. SavesNext(t, p, "job", value, "ended")
    BY <2>2, <2>5, SavingNext
  <2>8. QED
    BY <1>1, <2>3, <2>5, <2>6, <2>7, NobodyTakes, SavingKeeps
<1>3. CASE proc[p].result # "media"
  BY <1>1, <1>2, <1>3 DEF Download
<1>4. CASE proc[p].result = "media" /\ disk["asset"] # Absent
  BY <1>1, <1>2, <1>4 DEF Download
<1>5. CASE proc[p].result = "media" /\ disk["asset"] = Absent
  <2>1. PICK t : t = Saving(proc[p], "asset", Absent, "download")
    OBVIOUS
  <2>2. proc' = [proc EXCEPT ![p] = t] /\ UNCHANGED <<disk, temp, queue, outcome, overlapped>>
    BY <1>5, <2>1 DEF Download
  <2>3. Absent \in Any
    BY DEF Any
  <2>4. SavesNext(t, p, "asset", Absent, "download") /\ t.result = outcome
    BY <1>1, <2>1, <2>3, SavingNext
  <2>5. QED
    BY <1>1, <2>2, <2>3, <2>4, NobodyTakes, SavingKeeps
<1>6. QED
  BY <1>3, <1>4, <1>5

LEMMA ProviderAdvancesKeeps ==
    ASSUME IInv, NEW j, ProviderAdvances(j)
    PROVE  IInv'
<1> USE DEF IInv, ProviderAdvances
<1>1. NextQueueState[queue[j]] \in QueueStates \cup {"expired"}
  BY DEF NextQueueState, QueueStates
<1>2. /\ queue' \in [DOMAIN queue' -> QueueStates \cup {"expired"}]
      /\ DOMAIN queue' = DOMAIN queue
  BY <1>1 DEF Shape
<1>3. Shape' /\ ContentsOK'
  BY <1>2 DEF Shape, ContentsOK
<1>4. Control'
  BY DEF Control, ControlOf
<1>5. Claimed' /\ IdsKnown' /\ Unanswered'
  BY <1>2 DEF Claimed, Claims, IdsKnown, Known, Unanswered
<1>6. WritersOK' /\ ResultsSeen' /\ AllDelivered'
  BY DEF WritersOK, WriterOf, ResultsSeen, AllDelivered, DeliveredOK
<1>7. QED
  BY <1>3, <1>4, <1>5, <1>6

--------------------------------------------------------------------------------
(* Steps that touch files                                                    *)

(* With no receipt there, nobody has one in memory, or a claim.               *)
LEMMA NoReceipt ==
    ASSUME IInv, disk["job"] = Absent
    PROVE  /\ \A q \in Procs : ~Claims(q) /\ ~HasId(proc[q].job)
           /\ ~HasId(temp["job"])
<1>1. \A q \in Procs : ~Claims(q)
  BY DEF IInv, Claimed
<1>2. DOMAIN queue = {}
  BY <1>1 DEF IInv, Shape, Claims
<1>3. QED
  BY <1>1, <1>2 DEF IInv, IdsKnown, Known

(* Alike but for where its open file is.                                     *)
Alike(u, t) ==
    /\ u.pc = t.pc /\ u.command = t.command /\ u.job = t.job /\ u.result = t.result
    /\ u.digest = t.digest /\ u.file = t.file /\ u.value = t.value
    /\ u.exclusive = t.exclusive /\ u.then = t.then

(* What files may hold after a step of p.                                    *)
FilesFit(p) ==
    /\ disk' \in [Files -> Any] /\ temp' \in [Files -> Any] /\ ContentsOK'
    /\ \A f \in Files : disk[f] # Absent => disk'[f] # Absent
    /\ {disk'["job"], temp'["job"]} \subseteq
           {disk["job"], temp["job"], proc[p].job, Absent, Torn}
    /\ {disk'["result"], temp'["result"]} \subseteq {Absent, Torn, outcome}
    /\ ~overlapped' /\ disk["result"] = outcome => disk'["result"] = outcome

LEMMA FilesKeep ==
    ASSUME IInv, NEW p \in Procs, FilesFit(p), UNCHANGED <<queue, outcome>>,
           overlapped' \in BOOLEAN, overlapped => overlapped',
           proc' \in [Procs -> Process], \A q \in Procs : q # p => Alike(proc'[q], proc[q]),
           ControlOf(proc'[p]), proc'[p].job = proc[p].job,
           \/ Submits(proc'[p]) => Submits(proc[p])
           \/ disk["job"] = Absent /\ disk'["job"] # Absent,
           ~overlapped' /\ (proc'[p].pc = "judge" \/ Nears(proc'[p], "download")) =>
               disk'["result"] = outcome,
           WritersOK'
    PROVE  IInv'
<1> USE DEF IInv, FilesFit
<1>1. Shape'
  BY DEF Shape
<1>2. Control'
  <2>1. \A q \in Procs : ControlOf(proc'[q])
    <3>1. SUFFICES ASSUME NEW q \in Procs, q # p PROVE ControlOf(proc'[q])
      OBVIOUS
    <3>2. ControlOf(proc[q]) /\ Alike(proc'[q], proc[q])
      BY <3>1 DEF Control
    <3>3. QED
      BY <3>2 DEF ControlOf, Alike, Nears
  <2>2. QED
    BY <2>1 DEF Control, ControlOf
<1>3. \A q \in Procs : q # p => (Submits(proc'[q]) <=> Submits(proc[q]))
  BY DEF Alike, Submits
<1>4. \A q \in Procs : proc'[q].job = proc[q].job
  BY DEF Alike
<1>5. \A q \in Procs : Claims(q)' <=> q \in DOMAIN queue \/ Submits(proc'[q])
  BY DEF Claims, Submits
<1>6. Claimed' /\ Unanswered'
  <2>1. CASE Submits(proc'[p]) => Submits(proc[p])
    <3>1. \A q \in Procs : Claims(q)' => Claims(q)
      BY <1>3, <1>5, <2>1 DEF Claims
    <3>2. Claimed'
      BY <3>1 DEF Claimed, Files
    <3>3. Unanswered'
      BY <1>3, <1>4, <2>1 DEF Unanswered, Submits, HasId
    <3>4. QED
      BY <3>2, <3>3
  <2>2. CASE disk["job"] = Absent /\ disk'["job"] # Absent
    <3>1. /\ \A q \in Procs : ~Claims(q) /\ ~HasId(proc[q].job)
          /\ ~HasId(temp["job"]) /\ ~HasId(disk["job"])
      BY <2>2, NoReceipt DEF HasId
    <3>2. \A q \in Procs : Claims(q)' => q = p
      BY <1>3, <1>5, <3>1 DEF Claims
    <3>3. Claimed'
      BY <2>2, <3>2 DEF Claimed
    <3>4. ~HasId(disk'["job"]) /\ ~HasId(temp'["job"])
      BY <3>1 DEF HasId
    <3>5. Unanswered'
      BY <1>4, <3>1, <3>4 DEF Unanswered, HasId
    <3>6. QED
      BY <3>3, <3>5
  <2>3. QED
    BY <2>1, <2>2
<1>7. IdsKnown'
  BY <1>4 DEF IdsKnown, Known, HasId
<1>8. AllDelivered'
  <2>1. \A x : DeliveredOK(x) => DeliveredOK(x)'
    BY DEF DeliveredOK, Files
  <2>2. QED
    BY <1>4, <2>1 DEF AllDelivered, DeliveredOK, Delivered
<1>9. ResultsSeen'
  BY DEF ResultsSeen, Alike, Nears
<1>10. QED
  BY <1>1, <1>2, <1>6, <1>7, <1>8, <1>9

LEMMA OpenTempKeeps ==
    ASSUME IInv, NEW p \in Procs, OpenTemp(p)
    PROVE  IInv'
<1> USE DEF IInv
<1> DEFINE f == proc[p].file
<1>1. /\ proc \in [Procs -> Process] /\ f \in Files /\ proc[p].pc = "open"
      /\ disk \in [Files -> Any] /\ temp \in [Files -> Any] /\ ControlOf(proc[p])
      /\ overlapped \in BOOLEAN
  BY DEF Shape, Process, OpenTemp, At, Control
<1>2. PICK t : t = Handled(proc[p], "write", "temp")
  OBVIOUS
<1>3. /\ proc' = [proc EXCEPT ![p] = t] /\ temp' = [temp EXCEPT ![f] = Torn]
      /\ disk' = disk /\ queue' = queue /\ outcome' = outcome
      /\ overlapped' = (overlapped \/ Writers(f) # {})
  BY <1>1, <1>2 DEF OpenTemp, Handled
<1>4. HIDE DEF f
<1>5. /\ t \in Process /\ t.pc = "write" /\ t.handle = "temp"
      /\ t.command = proc[p].command /\ t.job = proc[p].job /\ t.result = proc[p].result
      /\ t.file = f /\ t.value = proc[p].value /\ t.exclusive = proc[p].exclusive
      /\ t.then = proc[p].then /\ t.digest = proc[p].digest
  <2>1. proc[p] \in Process /\ "write" \in Steps /\ "temp" \in Handles
    BY <1>1 DEF Steps, Handles
  <2>2. f = proc[p].file
    BY DEF f
  <2>3. /\ t \in Process /\ t.pc = "write" /\ t.handle = "temp"
        /\ t.command = proc[p].command /\ t.job = proc[p].job /\ t.result = proc[p].result
        /\ t.file = proc[p].file /\ t.value = proc[p].value /\ t.exclusive = proc[p].exclusive
        /\ t.then = proc[p].then /\ t.digest = proc[p].digest
    BY <1>2, <2>1, HandledFacts
  <2> QED BY <2>2, <2>3
<1>6. /\ proc' \in [Procs -> Process] /\ proc'[p] = t
      /\ \A q \in Procs : q # p => proc'[q] = proc[q]
      /\ overlapped' \in BOOLEAN /\ (overlapped => overlapped')
  BY <1>1, <1>3, <1>5
<1>7. ~t.exclusive /\ f # "upload"
  BY <1>1, <1>5 DEF ControlOf, Saves, f
<1>8. ControlOf(t)
  BY <1>1, <1>5, <1>7 DEF ControlOf, Nears, Saves, f
<1>9. FilesFit(p)
  <2>1. ContentsOK'
    BY <1>1, <1>3 DEF ContentsOK
  <2>2. QED
    BY <1>1, <1>3, <2>1 DEF FilesFit, Any, ResultsSeen
<1>10. WritersOK'
  <2>1. ~overlapped' => \A q \in Procs : Writes(proc[q]) => proc[q].file # f
    BY <1>3 DEF Writers, Writes
  <2>2. WriterOf(p)'
    BY <1>1, <1>3, <1>5, <1>6, <1>7, <2>1 DEF WriterOf, Writes
  <2>3. ASSUME NEW q \in Procs, q # p PROVE WriterOf(q)'
    <3>1. WriterOf(q) /\ proc'[q] = proc[q] /\ proc[q].file \in Files
      BY <1>1, <1>6, <2>3 DEF WritersOK, Process
    <3>2. ~overlapped' /\ Writes(proc[q]) => temp'[proc[q].file] = temp[proc[q].file]
      BY <1>1, <1>3, <2>1, <3>1
    <3>3. QED
      BY <1>3, <1>5, <1>6, <2>1, <2>3, <3>1, <3>2 DEF WriterOf, Writes
  <2>4. QED
    BY <2>2, <2>3 DEF WritersOK
<1>11. Submits(proc'[p]) => Submits(proc[p])
  BY <1>1, <1>5, <1>6 DEF Submits
<1>12. ~overlapped' /\ (proc'[p].pc = "judge" \/ Nears(proc'[p], "download")) =>
           disk'["result"] = outcome
  BY <1>1, <1>3, <1>5, <1>6 DEF Nears, Saves, ResultsSeen
<1>13. QED
  BY <1>3, <1>5, <1>6, <1>8, <1>9, <1>10, <1>11, <1>12, FilesKeep DEF Alike

(* Mode "x" finds nothing there, so nobody else has been this far.            *)
LEMMA CreateExclusivelyKeeps ==
    ASSUME IInv, NEW p \in Procs, CreateExclusively(p)
    PROVE  IInv'
<1> USE DEF IInv
<1> DEFINE f == proc[p].file
<1>1. /\ proc \in [Procs -> Process] /\ f \in Files /\ proc[p].pc = "create"
      /\ disk \in [Files -> Any] /\ temp \in [Files -> Any] /\ ControlOf(proc[p])
      /\ overlapped \in BOOLEAN
  BY DEF Shape, Process, CreateExclusively, At, Control
<1>2. PICK t : t = Handled(proc[p], "write", "disk")
  OBVIOUS
<1>3. /\ proc' = [proc EXCEPT ![p] = t] /\ disk' = [disk EXCEPT ![f] = Torn]
      /\ temp' = temp /\ queue' = queue /\ outcome' = outcome /\ overlapped' = overlapped
      /\ disk[f] = Absent
  BY <1>1, <1>2 DEF CreateExclusively, Handled
<1>4. HIDE DEF f
<1>5. /\ t \in Process /\ t.pc = "write" /\ t.handle = "disk"
      /\ t.command = proc[p].command /\ t.job = proc[p].job /\ t.result = proc[p].result
      /\ t.file = f /\ t.value = proc[p].value /\ t.exclusive = proc[p].exclusive
      /\ t.then = proc[p].then /\ t.digest = proc[p].digest
  <2>1. proc[p] \in Process /\ "write" \in Steps /\ "disk" \in Handles
    BY <1>1 DEF Steps, Handles
  <2>2. f = proc[p].file
    BY DEF f
  <2>3. /\ t \in Process /\ t.pc = "write" /\ t.handle = "disk"
        /\ t.command = proc[p].command /\ t.job = proc[p].job /\ t.result = proc[p].result
        /\ t.file = proc[p].file /\ t.value = proc[p].value /\ t.exclusive = proc[p].exclusive
        /\ t.then = proc[p].then /\ t.digest = proc[p].digest
    BY <1>2, <2>1, HandledFacts
  <2> QED BY <2>2, <2>3
<1>6. /\ proc' \in [Procs -> Process] /\ proc'[p] = t
      /\ \A q \in Procs : q # p => proc'[q] = proc[q]
  BY <1>1, <1>3, <1>5
<1>7. /\ t.exclusive
      /\ f = "job" \/ (f = "upload" /\ t.command = "upload")
  BY <1>1, <1>5 DEF ControlOf, Saves, f
<1>8. ControlOf(t)
  BY <1>1, <1>5, <1>7 DEF ControlOf, Nears, Saves, f
<1>9. disk'[f] = Torn /\ Torn # Absent /\ \A g \in Files : g # f => disk'[g] = disk[g]
  BY <1>1, <1>3, ContentsTold
<1>10. FilesFit(p)
  <2>1. ContentsOK'
    BY <1>1, <1>3 DEF ContentsOK
  <2>2. \A g \in Files : disk[g] # Absent => disk'[g] # Absent
    BY <1>9
  <2>3. disk'["result"] = disk["result"]
    BY <1>7, <1>9 DEF Files
  <2>4. disk'["job"] \in {disk["job"], Torn}
    BY <1>9 DEF Files
  <2>5. disk' \in [Files -> Any] /\ temp' \in [Files -> Any]
    BY <1>1, <1>3 DEF Any
  <2>6. QED
    BY <1>3, <2>1, <2>2, <2>3, <2>4, <2>5 DEF FilesFit, ResultsSeen
<1>11. \A q \in Procs : Writes(proc[q]) => proc[q].file # f
  <2>1. SUFFICES ASSUME NEW q \in Procs, Writes(proc[q]), proc[q].file = f PROVE FALSE
    OBVIOUS
  <2>2. ControlOf(proc[q]) /\ WriterOf(q)
    BY DEF Control, WritersOK
  <2>3. CASE f = "job"
    <3>1. ~Claims(q) /\ ~HasId(proc[q].job)
      BY <1>3, <2>3, NoReceipt
    <3>2. QED
      BY <2>1, <2>2, <2>3, <3>1 DEF ControlOf, Claims, Submits, Writes, Saves
  <2>4. CASE f = "upload"
    BY <1>3, <2>1, <2>2, <2>4 DEF ControlOf, WriterOf, Writes, Saves
  <2>5. QED
    BY <1>7, <2>3, <2>4
<1>12. WritersOK'
  <2>1. WriterOf(p)'
    BY <1>3, <1>5, <1>6, <1>7, <1>9, <1>11 DEF WriterOf, Writes
  <2>2. ASSUME NEW q \in Procs, q # p PROVE WriterOf(q)'
    <3>1. WriterOf(q) /\ proc'[q] = proc[q]
      BY <1>6, <2>2 DEF WritersOK
    <3>2. disk["upload"] # Absent => disk'["upload"] # Absent
      BY <1>9 DEF Files
    <3>3. QED
      BY <1>3, <1>5, <1>6, <1>11, <2>2, <3>1, <3>2 DEF WriterOf, Writes
  <2>3. QED
    BY <2>1, <2>2 DEF WritersOK
<1>13. \/ Submits(proc'[p]) => Submits(proc[p])
       \/ disk["job"] = Absent /\ disk'["job"] # Absent
  BY <1>3, <1>5, <1>6, <1>7, <1>9 DEF Submits
<1>14. ~Nears(proc'[p], "download") /\ proc'[p].pc # "judge"
  BY <1>5, <1>6, <1>7, <1>8 DEF ControlOf, Nears, Saves
<1>15. QED
  BY <1>1, <1>3, <1>5, <1>6, <1>8, <1>10, <1>12, <1>13, <1>14, FilesKeep DEF Alike

LEMMA WriteKeeps ==
    ASSUME IInv, NEW p \in Procs, Write(p)
    PROVE  IInv'
<1> USE DEF IInv
<1> DEFINE f == proc[p].file
           step == IF proc[p].exclusive THEN proc[p].then ELSE "replace"
<1>1. /\ proc \in [Procs -> Process] /\ f \in Files /\ proc[p].pc = "write"
      /\ disk \in [Files -> Any] /\ temp \in [Files -> Any] /\ ControlOf(proc[p])
      /\ WriterOf(p) /\ step \in Steps
  BY DEF Shape, Process, Write, At, Control, WritersOK, Steps
<1>2. PICK data \in Written(p) :
          CASE proc[p].handle = "disk" ->
                  /\ \E d \in Over(disk[f], data) : disk' = [disk EXCEPT ![f] = d]
                  /\ UNCHANGED temp
            [] proc[p].handle = "temp" ->
                  /\ \E d \in Over(temp[f], data) : temp' = [temp EXCEPT ![f] = d]
                  /\ UNCHANGED disk
            [] OTHER -> UNCHANGED <<disk, temp>>
  BY DEF Write
<1>3. PICK t : t = [proc[p] EXCEPT !.handle = "none", !.pc = step]
  OBVIOUS
<1>4. /\ proc' = [proc EXCEPT ![p] = t] /\ queue' = queue /\ outcome' = outcome
      /\ overlapped' = overlapped
  BY <1>1, <1>3 DEF Write
<1>5. /\ proc[p].exclusive => step = proc[p].then
      /\ ~proc[p].exclusive => step = "replace"
  OBVIOUS
<1>6. f # "asset" => data = proc[p].value
  BY DEF Written
<1>7. data \in Contents[f]
  BY <1>1, ContentsTold DEF Written, ControlOf, Saves
<1>8. HIDE DEF f, step
<1>9. /\ t \in Process /\ t.pc = step /\ t.handle = "none"
      /\ t.command = proc[p].command /\ t.job = proc[p].job /\ t.result = proc[p].result
      /\ t.file = f /\ t.value = proc[p].value /\ t.exclusive = proc[p].exclusive
      /\ t.then = proc[p].then /\ t.digest = proc[p].digest
  <2>1. proc[p] \in Process /\ "none" \in Handles
    BY <1>1 DEF Handles
  <2>2. t = Handled(proc[p], step, "none")
    BY <1>3, <2>1 DEF Process, Handled
  <2>3. f = proc[p].file
    BY DEF f
  <2>4. /\ t \in Process /\ t.pc = step /\ t.handle = "none"
        /\ t.command = proc[p].command /\ t.job = proc[p].job /\ t.result = proc[p].result
        /\ t.file = proc[p].file /\ t.value = proc[p].value /\ t.exclusive = proc[p].exclusive
        /\ t.then = proc[p].then /\ t.digest = proc[p].digest
    BY <1>1, <2>1, <2>2, HandledFacts
  <2> QED BY <2>3, <2>4
<1>10. /\ proc' \in [Procs -> Process] /\ proc'[p] = t
       /\ \A q \in Procs : q # p => proc'[q] = proc[q]
  BY <1>1, <1>4, <1>9
<1>11. /\ proc[p].exclusive =>
              \/ f = "job" /\ t.command = "submit" /\ step = "call" /\ t.job = Pending
              \/ f = "upload" /\ t.command = "upload" /\ step = "ended"
       /\ ~proc[p].exclusive => f # "upload" /\ t.command # "upload"
  BY <1>1, <1>5, <1>9 DEF ControlOf, Saves, f
<1>12. ControlOf(t)
  <2>1. CASE proc[p].exclusive
    BY <1>5, <1>9, <1>11, <2>1 DEF ControlOf, Nears, Saves
  <2>2. CASE ~proc[p].exclusive
    BY <1>1, <1>5, <1>9, <2>2 DEF ControlOf, Nears, Saves, f
  <2>3. QED
    BY <2>1, <2>2
<1>13. PICK d \in {data, Torn} :
           \/ disk' = [disk EXCEPT ![f] = d] /\ temp' = temp /\ proc[p].handle = "disk"
           \/ /\ temp' = [temp EXCEPT ![f] = d] /\ disk' = disk /\ proc[p].handle = "temp"
              /\ temp[f] = Torn => d = data
           \/ temp' = temp /\ disk' = disk /\ proc[p].handle \notin {"disk", "temp"}
  BY <1>2 DEF Over
<1>14. d \in Contents[f] \cup {Torn} /\ d # Absent /\ d \in Any
  BY <1>1, <1>7, ContentsTold DEF Any
<1>15. /\ disk' \in [Files -> Any] /\ temp' \in [Files -> Any]
       /\ disk'[f] \in {disk[f], d} /\ temp'[f] \in {temp[f], d}
       /\ \A g \in Files : g # f => disk'[g] = disk[g] /\ temp'[g] = temp[g]
  BY <1>1, <1>13, <1>14
<1>16. ~overlapped /\ ~proc[p].exclusive =>
           /\ disk' = disk /\ temp'[f] = data
           /\ \A q \in Procs : Writes(proc[q]) /\ proc[q].file = f => q = p
  BY <1>1, <1>13 DEF WriterOf, Writes, f
<1>17. FilesFit(p)
  <2>1. ContentsOK'
    BY <1>1, <1>14, <1>15 DEF ContentsOK
  <2>2. \A g \in Files : disk[g] # Absent => disk'[g] # Absent
    BY <1>1, <1>14, <1>15
  <2>3. f = "job" => d \in {proc[p].job, Torn}
    BY <1>1, <1>6 DEF ControlOf, Saves, f
  <2>4. {disk'["job"], temp'["job"]} \subseteq
            {disk["job"], temp["job"], proc[p].job, Absent, Torn}
    BY <1>15, <2>3 DEF Files
  <2>5. f = "result" => d \in {outcome, Torn}
    BY <1>1, <1>6 DEF ControlOf, Saves, f
  <2>6. {disk'["result"], temp'["result"]} \subseteq {Absent, Torn, outcome}
    BY <1>15, <2>5 DEF Files, ResultsSeen
  <2>7. ~overlapped => disk'["result"] = disk["result"]
    BY <1>11, <1>15, <1>16 DEF Files
  <2>8. QED
    BY <1>4, <1>15, <2>1, <2>2, <2>4, <2>6, <2>7 DEF FilesFit
<1>18. WritersOK'
  <2>1. disk["upload"] # Absent => disk'["upload"] # Absent
    BY <1>17 DEF FilesFit, Files
  <2>2. WriterOf(p)'
    <3>1. t.pc # "write"
      BY <1>5, <1>9, <1>11
    <3>2. t.pc = "replace" => ~proc[p].exclusive
      BY <1>9, <1>11
    <3>3. ~overlapped /\ t.pc = "replace" =>
              \A q \in Procs : Writes(proc'[q]) /\ proc'[q].file = f => q = p
      BY <1>10, <1>16, <3>2
    <3>4. QED
      BY <1>4, <1>6, <1>9, <1>10, <1>16, <3>1, <3>2, <3>3 DEF WriterOf, Writes
  <2>3. ASSUME NEW q \in Procs, q # p PROVE WriterOf(q)'
    <3>1. WriterOf(q) /\ proc'[q] = proc[q] /\ proc[q].file \in Files
      BY <1>1, <1>10, <2>3 DEF WritersOK, Process
    <3>2. ~overlapped /\ Writes(proc[q]) => proc[q].file # f
      BY <1>1, <2>3, <3>1 DEF WriterOf, Writes, f
    <3>3. Writes(t) => Writes(proc[p])
      BY <1>1 DEF Writes
    <3>4. QED
      BY <1>4, <1>9, <1>10, <1>15, <2>1, <2>3, <3>1, <3>2, <3>3 DEF WriterOf, Writes
  <2>4. QED
    BY <2>2, <2>3 DEF WritersOK
<1>19. Submits(proc'[p]) => Submits(proc[p])
  BY <1>1, <1>9, <1>10 DEF Submits
<1>20. ~overlapped' /\ (proc'[p].pc = "judge" \/ Nears(proc'[p], "download")) =>
           disk'["result"] = outcome
  <2>1. CASE proc[p].exclusive
    BY <1>5, <1>9, <1>10, <1>11, <2>1 DEF Nears, Saves
  <2>2. CASE ~proc[p].exclusive
    BY <1>1, <1>4, <1>5, <1>9, <1>10, <1>16, <2>2 DEF Nears, Saves, ResultsSeen
  <2>3. QED
    BY <2>1, <2>2
<1>21. QED
  BY <1>4, <1>9, <1>10, <1>12, <1>17, <1>18, <1>19, <1>20, FilesKeep DEF Alike, Shape

LEMMA MovedFacts ==
    ASSUME NEW u \in Process, NEW f
    PROVE  /\ Moved(u, f) \in Process /\ Alike(Moved(u, f), u)
           /\ u.file # f => Moved(u, f) = u
<1>1. CASE u.file # f
  BY <1>1 DEF Moved, Alike
<1>2. CASE u.file = f
  <2>1. PICK handle : handle = CASE u.handle = "temp" -> "disk"
                                 [] u.handle = "disk" -> "gone"
                                 [] OTHER -> u.handle
    OBVIOUS
  <2>2. handle \in Handles
    BY <2>1 DEF Process, Handles
  <2>3. Moved(u, f) = [u EXCEPT !.handle = handle]
    BY <1>2, <2>1 DEF Moved
  <2>4. QED
    BY <1>2, <2>2, <2>3 DEF Process, Alike
<1>3. QED
  BY <1>1, <1>2

(* What a process moves into place, when nobody else was writing it.          *)
LEMMA ReplaceFacts ==
    ASSUME IInv, NEW p \in Procs, Replace(p)
    PROVE  /\ ~proc[p].exclusive
           /\ proc[p].file \in {"job", "result", "asset"}
           /\ ~overlapped /\ proc[p].file # "asset" => temp[proc[p].file] = proc[p].value
           /\ proc[p].file = "job" => proc[p].value = proc[p].job
           /\ proc[p].file = "result" => proc[p].value = outcome
           /\ proc[p].command # "upload"
           /\ proc[p].command = "submit" => proc[p].then = "ended"
           /\ proc[p].command # "submit" =>
                  HasId(proc[p].job) /\ proc[p].then \in {"fetch", "judge", "download", "ended"}
<1>1. /\ ControlOf(proc[p]) /\ WriterOf(p) /\ proc[p].pc = "replace"
      /\ proc[p].file \in Files
  BY DEF IInv, Control, WritersOK, Replace, At, Shape, Process
<1>2. QED
  BY <1>1 DEF ControlOf, WriterOf, Saves, Files

LEMMA ReplaceKeeps ==
    ASSUME IInv, NEW p \in Procs, Replace(p)
    PROVE  IInv'
<1> USE DEF IInv
<1> DEFINE f == proc[p].file
           step == proc[p].then
<1>1. /\ proc \in [Procs -> Process] /\ f \in Files /\ proc[p].pc = "replace"
      /\ disk \in [Files -> Any] /\ temp \in [Files -> Any] /\ ControlOf(proc[p])
      /\ WriterOf(p) /\ step \in Steps /\ overlapped \in BOOLEAN
  BY DEF Shape, Process, Replace, At, Control, WritersOK
<1>2. /\ ~proc[p].exclusive /\ f \in {"job", "result", "asset"}
      /\ ~overlapped /\ f # "asset" => temp[f] = proc[p].value
      /\ f = "result" => proc[p].value = outcome
      /\ proc[p].command # "upload"
      /\ proc[p].command = "submit" => step = "ended"
      /\ proc[p].command # "submit" =>
             HasId(proc[p].job) /\ step \in {"fetch", "judge", "download", "ended"}
  BY ReplaceFacts
<1>3. PICK t : t = [proc[p] EXCEPT !.pc = step]
  OBVIOUS
<1>4. /\ proc' = [q \in Procs |-> IF q = p THEN t ELSE Moved(proc[q], f)]
      /\ disk' = [disk EXCEPT ![f] = temp[f]] /\ temp' = [temp EXCEPT ![f] = Absent]
      /\ queue' = queue /\ outcome' = outcome /\ overlapped' = overlapped
      /\ temp[f] # Absent
  BY <1>3 DEF Replace
<1>5. step = proc[p].then /\ f = proc[p].file
  OBVIOUS
<1>6. HIDE DEF f, step
<1>7. /\ t \in Process /\ t.pc = step
      /\ t.command = proc[p].command /\ t.job = proc[p].job /\ t.result = proc[p].result
      /\ t.file = f /\ t.value = proc[p].value /\ t.exclusive = proc[p].exclusive
      /\ t.then = step /\ t.digest = proc[p].digest
  BY <1>1, <1>3, <1>5 DEF Process
<1>8. /\ proc' \in [Procs -> Process] /\ proc'[p] = t
      /\ \A q \in Procs : q # p =>
             Alike(proc'[q], proc[q]) /\ (proc[q].file # f => proc'[q] = proc[q])
  <2>1. \A q \in Procs : q # p =>
            /\ proc'[q] \in Process /\ Alike(proc'[q], proc[q])
            /\ proc[q].file # f => proc'[q] = proc[q]
    BY <1>1, <1>4, MovedFacts
  <2>2. proc'[p] = t /\ DOMAIN proc' = Procs
    BY <1>4
  <2>3. proc' = [q \in Procs |-> proc'[q]]
    BY <1>4
  <2>4. QED
    BY <1>7, <2>1, <2>2, <2>3
<1>9. step \notin Saves /\ step \notin {"call", "check", "upload", "read", "write", "replace"}
  BY <1>2 DEF Saves
<1>10. ControlOf(t)
  BY <1>1, <1>2, <1>5, <1>7, <1>9 DEF ControlOf, Nears, Saves
<1>11. /\ disk'[f] = temp[f] /\ temp'[f] = Absent
       /\ \A g \in Files : g # f => disk'[g] = disk[g] /\ temp'[g] = temp[g]
  BY <1>1, <1>4
<1>12. FilesFit(p)
  <2>1. disk' \in [Files -> Any] /\ temp' \in [Files -> Any]
    BY <1>1, <1>4 DEF Any
  <2>2. ContentsOK'
    BY <1>1, <1>11 DEF ContentsOK
  <2>3. \A g \in Files : disk[g] # Absent => disk'[g] # Absent
    BY <1>4, <1>11
  <2>4. {disk'["job"], temp'["job"]} \subseteq
            {disk["job"], temp["job"], proc[p].job, Absent, Torn}
    BY <1>11 DEF Files
  <2>5. {disk'["result"], temp'["result"]} \subseteq {Absent, Torn, outcome}
    BY <1>11 DEF Files, ResultsSeen
  <2>6. ~overlapped /\ disk["result"] = outcome => disk'["result"] = outcome
    BY <1>2, <1>11 DEF Files
  <2>7. QED
    BY <1>4, <2>1, <2>2, <2>3, <2>4, <2>5, <2>6 DEF FilesFit
<1>13. WritersOK'
  <2>1. ~Writes(t)
    BY <1>7, <1>9 DEF Writes
  <2>2. WriterOf(p)'
    BY <1>8, <2>1 DEF WriterOf, Writes
  <2>3. ASSUME NEW q \in Procs, q # p PROVE WriterOf(q)'
    <3>1. WriterOf(q) /\ Alike(proc'[q], proc[q]) /\ proc[q].file \in Files
      BY <1>1, <1>8, <2>3 DEF WritersOK, Process
    <3>2. disk'["upload"] = disk["upload"]
      BY <1>2, <1>11 DEF Files
    <3>3. CASE overlapped
      BY <1>4, <3>1, <3>2, <3>3 DEF WriterOf, Alike
    <3>4. CASE ~Writes(proc[q])
      BY <3>1, <3>4 DEF WriterOf, Writes, Alike
    <3>5. CASE ~overlapped /\ Writes(proc[q])
      <4>1. proc[q].file # f
        BY <1>1, <1>5, <2>3, <3>5 DEF WriterOf, Writes
      <4>2. proc'[q] = proc[q] /\ temp'[proc[q].file] = temp[proc[q].file]
        BY <1>8, <1>11, <2>3, <3>1, <4>1
      <4>3. \A r \in Procs : Writes(proc'[r]) /\ proc'[r].file = proc[q].file => r = q
        BY <1>8, <2>1, <3>1, <3>5 DEF WriterOf, Writes, Alike
      <4>4. QED
        BY <1>4, <3>1, <3>2, <3>5, <4>2, <4>3 DEF WriterOf, Writes
    <3>6. QED
      BY <3>3, <3>4, <3>5
  <2>4. QED
    BY <2>2, <2>3 DEF WritersOK
<1>14. Submits(proc'[p]) => Submits(proc[p])
  BY <1>7, <1>8, <1>9 DEF Submits, Saves
<1>15. ~overlapped' /\ (proc'[p].pc = "judge" \/ Nears(proc'[p], "download")) =>
           disk'["result"] = outcome
  <2>1. CASE step = "judge" /\ ~overlapped
    <3>1. f = "result"
      BY <1>1, <1>5, <2>1 DEF ControlOf, Saves
    <3>2. QED
      BY <1>2, <1>11, <2>1, <3>1
  <2>2. CASE step = "download" /\ ~overlapped
    <3>1. disk["result"] = outcome
      BY <1>1, <1>5, <2>2 DEF ResultsSeen, Nears, Saves
    <3>2. QED
      BY <1>4, <1>12, <2>2, <3>1 DEF FilesFit
  <2>3. QED
    BY <1>4, <1>7, <1>8, <1>9, <2>1, <2>2 DEF Nears
<1>16. QED
  BY <1>1, <1>4, <1>7, <1>8, <1>10, <1>12, <1>13, <1>14, <1>15, FilesKeep

--------------------------------------------------------------------------------
(* The invariant, and what it says                                           *)

LEMMA InitIInv == Init => IInv
<1> SUFFICES ASSUME Init PROVE IInv
  OBVIOUS
<1> USE DEF Init
<1>1. \A p \in Procs : proc[p] = NotStarted
  OBVIOUS
<1>2. NotStarted \in Process /\ NotStarted.job = Absent /\ NotStarted.pc = "start"
  BY EndedFacts
<1>3. Shape /\ ContentsOK
  BY <1>1, <1>2 DEF Shape, ContentsOK, Any
<1>4. ~HasId(Absent) /\ ~Delivered(Absent)
  BY DEF HasId, Delivered
<1>5. ControlOf(NotStarted) /\ ~Submits(NotStarted) /\ ~Writes(NotStarted)
  BY <1>2 DEF ControlOf, Saves, Nears, Submits, Writes
<1>6. ~Nears(NotStarted, "download") /\ NotStarted.pc # "judge"
  BY <1>2 DEF Nears, Saves
<1>7. disk["job"] = Absent /\ temp["job"] = Absent
  BY DEF Files
<1>8. Control /\ Claimed /\ IdsKnown /\ Unanswered
  BY <1>1, <1>2, <1>4, <1>5, <1>7 DEF Control, Claimed, Claims, IdsKnown, Known, Unanswered
<1>9. WritersOK
  BY <1>1, <1>5 DEF WritersOK, WriterOf, Writes
<1>10. ResultsSeen
  BY <1>1, <1>6 DEF ResultsSeen, Files
<1>11. AllDelivered
  BY <1>1, <1>2, <1>4, <1>7 DEF AllDelivered, DeliveredOK
<1>12. QED
  BY <1>3, <1>8, <1>9, <1>10, <1>11 DEF IInv

LEMMA StutterKeeps == ASSUME IInv, UNCHANGED vars PROVE IInv'
<1> USE DEF IInv, vars
<1>1. Shape' /\ ContentsOK' /\ Control'
  BY DEF Shape, ContentsOK, Control, ControlOf
<1>2. Claimed' /\ IdsKnown' /\ Unanswered'
  BY DEF Claimed, Claims, IdsKnown, Known, Unanswered
<1>3. WritersOK' /\ ResultsSeen' /\ AllDelivered'
  BY DEF WritersOK, WriterOf, ResultsSeen, AllDelivered, DeliveredOK
<1>4. QED
  BY <1>1, <1>2, <1>3

LEMMA StepIInv == IInv /\ [Next]_vars => IInv'
<1> SUFFICES ASSUME IInv, [Next]_vars PROVE IInv'
  OBVIOUS
<1>1. CASE UNCHANGED vars
  BY <1>1, StutterKeeps
<1>2. ASSUME NEW p \in Procs, NEW command \in Commands, Start(p, command) PROVE IInv'
  BY <1>2, StartKeeps
<1>3. ASSUME NEW p \in Procs, Step(p) PROVE IInv'
  <2>1. CASE OpenTemp(p) \/ CreateExclusively(p)
    BY <2>1, OpenTempKeeps, CreateExclusivelyKeeps
  <2>2. CASE RefuseCreate(p) \/ QueryFails(p)
    BY <2>2, EndKeeps, NobodyTakes DEF RefuseCreate, QueryFails
  <2>3. CASE Write(p) \/ Replace(p)
    BY <2>3, WriteKeeps, ReplaceKeeps
  <2>4. CASE SaveFails(p)
    BY <2>4, RaiseKeeps, NobodyTakes DEF SaveFails
  <2>5. CASE CheckReceipt(p) \/ CallSubmit(p) \/ CallFails(p)
    BY <2>5, CheckReceiptKeeps, CallSubmitKeeps, CallFailsKeeps
  <2>6. CASE ReadReceipt(p) \/ Query(p) \/ ReadResult(p) \/ FetchResult(p)
    BY <2>6, ReadReceiptKeeps, QueryKeeps, ReadResultKeeps, FetchResultKeeps
  <2>7. CASE Judge(p) \/ Download(p) \/ Upload(p)
    BY <2>7, JudgeKeeps, DownloadKeeps, UploadKeeps
  <2>8. CASE CheckUpload(p)
    BY <2>8, GoKeeps, EndKeeps, NobodyTakes DEF CheckUpload, At
  <2>9. QED
    BY <1>3, <2>1, <2>2, <2>3, <2>4, <2>5, <2>6, <2>7, <2>8 DEF Step
<1>4. ASSUME NEW p \in Procs, Crash(p) PROVE IInv'
  BY <1>4, EndKeeps, NobodyTakes DEF Crash
<1>5. ASSUME NEW j \in Procs, ProviderAdvances(j) PROVE IInv'
  BY <1>5, ProviderAdvancesKeeps
<1>6. QED
  BY <1>1, <1>2, <1>3, <1>4, <1>5 DEF Next

(* The invariant holds whatever overlaps, crashes or fails.                   *)
THEOREM FalJobInvariance == Spec => []IInv
BY InitIInv, StepIInv, PTL DEF Spec

(* Files, memory and the provider's jobs keep their types.                    *)
THEOREM FalJobTypeCorrect == Spec => []TypeOK
<1>1. IInv => TypeOK
  <2> SUFFICES ASSUME IInv PROVE TypeOK
    OBVIOUS
  <2> USE DEF IInv
  <2>1. \A p \in Procs : proc[p] \in Process
    BY DEF Shape
  <2>2. \A t \in Process : DOMAIN t = DOMAIN NotStarted
    BY DEF Process, NotStarted
  <2>3. QED
    BY <2>1, <2>2 DEF TypeOK, Shape, ContentsOK, Process, Handles
<1>2. QED
  BY <1>1, FalJobInvariance, PTL

(* One task directory costs one generation at most (fal_job.py:68).           *)
THEOREM OneGeneration == Spec => []SubmittedOnce
<1>1. IInv => SubmittedOnce
  <2> SUFFICES ASSUME IInv PROVE SubmittedOnce
    OBVIOUS
  <2>1. \A p, q \in DOMAIN queue : p = q
    BY DEF IInv, Shape, Claimed, Claims
  <2>2. CASE DOMAIN queue = {}
    BY <2>2, FS_EmptySet DEF SubmittedOnce
  <2>3. CASE DOMAIN queue # {}
    <3>1. PICK p : DOMAIN queue = {p}
      BY <2>1, <2>3
    <3>2. QED
      BY <3>1, FS_Singleton DEF SubmittedOnce
  <2>4. QED
    BY <2>2, <2>3
<1>2. QED
  BY <1>1, FalJobInvariance, PTL

(* What the receipt calls delivered is there.                                *)
THEOREM DeliveredHeld == Spec => []DeliveredIsThere
<1>1. IInv => DeliveredIsThere
  BY ContentsTold DEF IInv, AllDelivered, DeliveredOK, Delivered, DeliveredIsThere
<1>2. QED
  BY <1>1, FalJobInvariance, PTL

(* Every id anywhere is that of the one job the provider has.                 *)
LEMMA OneId ==
    ASSUME IInv, NEW x, NEW y, Known(x), Known(y), HasId(x), HasId(y)
    PROVE  x.id = y.id
BY DEF IInv, Shape, Known, Claimed, Claims

LEMMA StepKeepsNamed ==
    ASSUME IInv, Next, ~overlapped', HasId(disk["job"])
    PROVE  HasId(disk'["job"]) /\ disk'["job"].id = disk["job"].id
<1> USE DEF IInv
<1>1. CASE disk'["job"] = disk["job"]
  BY <1>1
<1>2. ASSUME NEW p \in Procs, CreateExclusively(p)
      PROVE  disk'["job"] = disk["job"]
  <2>1. proc[p].file # "job"
    BY <1>2 DEF CreateExclusively, HasId
  <2>2. QED
    BY <1>2, <2>1 DEF CreateExclusively, Shape, Files
<1>3. ASSUME NEW p \in Procs, Write(p)
      PROVE  disk'["job"] = disk["job"]
  <2>1. /\ proc[p].pc = "write" /\ ControlOf(proc[p]) /\ WriterOf(p)
        /\ disk \in [Files -> Any] /\ "job" \in Files /\ ~overlapped
    BY <1>3 DEF Write, At, Control, WritersOK, Shape, Files
  <2>2. CASE proc[p].file = "job" /\ proc[p].exclusive
    <3>1. Submits(proc[p]) /\ ~HasId(proc[p].job)
      BY <2>1, <2>2, PendingFacts DEF ControlOf, Saves, Submits
    <3>2. QED
      BY <3>1 DEF Unanswered
  <2>3. CASE proc[p].file = "job" /\ ~proc[p].exclusive
    <3>1. proc[p].handle = "temp"
      BY <2>1, <2>3 DEF WriterOf
    <3>2. QED
      BY <1>3, <3>1 DEF Write
  <2>4. CASE proc[p].file # "job"
    BY <1>3, <2>1, <2>4 DEF Write
  <2>5. QED
    BY <2>2, <2>3, <2>4
<1>4. ASSUME NEW p \in Procs, Replace(p)
      PROVE  HasId(disk'["job"]) /\ disk'["job"].id = disk["job"].id
  <2>1. disk \in [Files -> Any] /\ "job" \in Files /\ ~overlapped
    BY <1>4 DEF Replace, Shape, Files
  <2>2. CASE proc[p].file # "job"
    BY <1>4, <2>1, <2>2 DEF Replace
  <2>3. CASE proc[p].file = "job"
    <3>1. disk'["job"] = proc[p].job
      BY <1>4, <2>1, <2>3, ReplaceFacts DEF Replace
    <3>2. HasId(proc[p].job)
      <4>1. CASE proc[p].command = "submit"
        <5>1. Submits(proc[p])
          BY <1>4, <4>1 DEF Submits, Replace, At
        <5>2. QED
          BY <5>1 DEF Unanswered
      <4>2. CASE proc[p].command # "submit"
        BY <1>4, <4>2, ReplaceFacts
      <4>3. QED
        BY <4>1, <4>2
    <3>3. QED
      BY <3>1, <3>2, OneId DEF IdsKnown
  <2>4. QED
    BY <2>2, <2>3
<1>5. ASSUME disk' # disk
      PROVE  \E p \in Procs : CreateExclusively(p) \/ Write(p) \/ Replace(p)
  BY <1>5 DEF Next, Step, Start, OpenTemp, RefuseCreate, SaveFails, CheckReceipt, CallSubmit,
              CallFails, ReadReceipt, Query, QueryFails, ReadResult, FetchResult, Judge,
              Download, CheckUpload, Upload, Crash, ProviderAdvances
<1>6. QED
  BY <1>1, <1>2, <1>3, <1>4, <1>5

(* An id that is on disk stays there through crashes and failed writes, so    *)
(* long as no two processes save one file at once.                           *)
THEOREM NamedForGood == Spec => NamedJobKept
<1>1. IInv /\ [Next]_vars =>
          [~overlapped' /\ HasId(disk["job"]) =>
               HasId(disk'["job"]) /\ disk'["job"].id = disk["job"].id]_vars
  BY StepKeepsNamed
<1>2. QED
  BY <1>1, FalJobInvariance, PTL DEF Spec, NamedJobKept

================================================================================
