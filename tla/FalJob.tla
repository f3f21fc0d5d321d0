--------------------------------- MODULE FalJob ---------------------------------
(****************************************************************************)
(* The queue client for paid generations                                     *)
(* (src/.agents/skills/fal-ai-generation/scripts/fal_job.py), as processes    *)
(* that may overlap, crash and be run again over one task directory.         *)
(*                                                                           *)
(* A file is saved by writing <name>.tmp and moving it over <name>.  The      *)
(* temporary name is shared: the module follows where an opened file has      *)
(* been moved to, since its writer goes on writing it there.                 *)
(****************************************************************************)
EXTENDS Naturals, FiniteSets

CONSTANTS Procs,     \* runs of the command line, in the order they start
          Commands,  \* what they may be asked: submit, status, result, upload
          Results,   \* what the provider may make: "error", "text" or "media"
          Digests,   \* of the files that may be uploaded
          Absent,    \* no file of the name
          Torn       \* opened for writing, and not yet or never written

NoId == 0

Files == {"job", "result", "asset", "upload"}
QueueStates == {"IN_QUEUE", "IN_PROGRESS", "COMPLETED"}
Statuses == {"submission_pending", "submitted", "submission_unknown", "provider_error",
             "downloaded", "result_saved", "UNKNOWN"} \cup QueueStates
Receipt == [status: Statuses, id: Procs \cup {NoId}]
Contents == [job |-> Receipt, result |-> Results, asset |-> {"whole", "part"}, upload |-> Digests]

ASSUME FalJobAssumption ==
    /\ Procs \subseteq Nat \ {0}
    /\ Commands \subseteq {"submit", "status", "result", "upload"}
    /\ Results \subseteq {"error", "text", "media"}
    /\ Absent # Torn
    /\ \A f \in Files : {Absent, Torn} \cap Contents[f] = {}

VARIABLES disk,       \* [Files -> what is under the file's own name]
          temp,       \* [Files -> what is under its temporary name]
          queue,      \* the provider's jobs, named by the process that submitted them
          outcome,    \* what the provider makes of them
          proc,       \* each process: where it is and what it has in memory
          overlapped  \* history: two processes have saved one file at once

vars == <<disk, temp, queue, outcome, proc, overlapped>>

Steps == {"start", "check", "create", "open", "write", "replace", "call", "read", "query",
          "readResult", "fetch", "judge", "download", "upload", "ended"}

(* `handle` is where the file a process has open for writing is now.         *)
NotStarted ==
    [pc |-> "start", command |-> "none", job |-> Absent, result |-> Absent, digest |-> Absent,
     file |-> "job", value |-> Absent, exclusive |-> FALSE, then |-> "ended", handle |-> "none"]

TypeOK ==
    /\ \A f \in Files : {disk[f], temp[f]} \subseteq Contents[f] \cup {Absent, Torn}
    /\ DOMAIN queue \subseteq Procs
    /\ \A j \in DOMAIN queue : queue[j] \in QueueStates \cup {"expired"}
    /\ outcome \in Results
    /\ overlapped \in BOOLEAN
    /\ \A p \in Procs :
          /\ DOMAIN proc[p] = DOMAIN NotStarted
          /\ proc[p].pc \in Steps /\ proc[p].command \in Commands \cup {"none"}
          /\ proc[p].job \in Receipt \cup {Absent} /\ proc[p].result \in Results \cup {Absent}
          /\ proc[p].file \in Files /\ proc[p].handle \in {"none", "disk", "temp", "gone"}

Init ==
    /\ disk = [f \in Files |-> Absent]
    /\ temp = [f \in Files |-> Absent]
    /\ queue = [p \in {} |-> "IN_QUEUE"]
    /\ outcome \in Results
    /\ proc = [p \in Procs |-> NotStarted]
    /\ overlapped = FALSE

--------------------------------------------------------------------------------
At(p, step) == proc[p].pc = step

Go(p, step) == proc' = [proc EXCEPT ![p].pc = step]

End(p) == proc' = [proc EXCEPT ![p] = [NotStarted EXCEPT !.pc = "ended"]]

(* The process about to save `value` as f and then go on at `next`.          *)
Saving(t, f, value, next) ==
    [t EXCEPT !.pc = "open", !.file = f, !.value = value, !.exclusive = FALSE, !.then = next,
              !.job = IF f = "job" THEN value ELSE @]

Creating(t, f, value, next) ==
    [Saving(t, f, value, next) EXCEPT !.pc = "create", !.exclusive = TRUE]

(* Fault: the receipt is written anew.                                       *)
StatusAlone(p, status) == [status |-> status]

WithStatus(p, status) == [proc[p].job EXCEPT !.status = status]

(* Leaving submit's try block by an error: its handler saves what is known,  *)
(* once.  Anything else that fails ends the process.                         *)
Raise(p) ==
    LET guarded == /\ proc[p].command = "submit"
                   /\ \/ proc[p].pc = "call"
                      \/ proc[p].pc \in {"open", "write", "replace"} /\ ~proc[p].exclusive
                   /\ proc[p].job.status # "submission_unknown"
    IN  IF guarded
        THEN proc' = [proc EXCEPT ![p] = [Saving(@, "job", WithStatus(p, "submission_unknown"), "ended")
                                              EXCEPT !.handle = "none"]]
        ELSE End(p)

--------------------------------------------------------------------------------
(* save_json, and a download, which goes through <name>.part                 *)

Writers(f) == {p \in Procs : proc[p].file = f /\ proc[p].pc \in {"write", "replace"}}

(* Fault: the file is written where it is.                                   *)
OpenInPlace(p) ==
    /\ At(p, "open")
    /\ disk' = [disk EXCEPT ![proc[p].file] = Torn]
    /\ overlapped' = (overlapped \/ Writers(proc[p].file) # {})
    /\ proc' = [proc EXCEPT ![p].pc = "write", ![p].handle = "disk", ![p].exclusive = TRUE]
    /\ UNCHANGED <<temp, queue, outcome>>

OpenTemp(p) ==
    LET f == proc[p].file IN
    /\ At(p, "open")
    /\ temp' = [temp EXCEPT ![f] = Torn]
    /\ overlapped' = (overlapped \/ Writers(f) # {})
    /\ proc' = [proc EXCEPT ![p].pc = "write", ![p].handle = "temp"]
    /\ UNCHANGED <<disk, queue, outcome>>

(* Fault: the file is opened for writing whether it is there or not.         *)
CreateAnyway(p) ==
    /\ At(p, "create")
    /\ disk' = [disk EXCEPT ![proc[p].file] = Torn]
    /\ proc' = [proc EXCEPT ![p].pc = "write", ![p].handle = "disk"]
    /\ UNCHANGED <<temp, queue, outcome, overlapped>>

(* Mode "x".                                                                 *)
CreateExclusively(p) ==
    /\ At(p, "create")
    /\ disk[proc[p].file] = Absent
    /\ disk' = [disk EXCEPT ![proc[p].file] = Torn]
    /\ proc' = [proc EXCEPT ![p].pc = "write", ![p].handle = "disk"]
    /\ UNCHANGED <<temp, queue, outcome, overlapped>>

RefuseCreate(p) ==
    /\ At(p, "create")
    /\ disk[proc[p].file] # Absent
    /\ End(p)
    /\ UNCHANGED <<disk, temp, queue, outcome, overlapped>>

(* A connection that closes early ends the response without an error.        *)
Written(p) == IF proc[p].file = "asset" THEN {"whole", "part"} ELSE {proc[p].value}

(* Over what another process wrote to the same file: a shorter text leaves   *)
(* the tail of the longer.                                                   *)
Over(old, new) == IF old = Torn THEN {new} ELSE {new, Torn}

Write(p) ==
    LET f == proc[p].file IN
    /\ At(p, "write")
    /\ \E data \in Written(p) :
          CASE proc[p].handle = "disk" ->
                  /\ \E d \in Over(disk[f], data) : disk' = [disk EXCEPT ![f] = d]
                  /\ UNCHANGED temp
            [] proc[p].handle = "temp" ->
                  /\ \E d \in Over(temp[f], data) : temp' = [temp EXCEPT ![f] = d]
                  /\ UNCHANGED disk
            [] OTHER -> UNCHANGED <<disk, temp>>
    /\ proc' = [proc EXCEPT ![p].handle = "none",
                            ![p].pc = IF proc[p].exclusive THEN proc[p].then ELSE "replace"]
    /\ UNCHANGED <<queue, outcome, overlapped>>

(* Who has the file open goes on writing it under its new name.              *)
Moved(t, f) ==
    IF t.file # f THEN t
    ELSE [t EXCEPT !.handle = CASE @ = "temp" -> "disk" [] @ = "disk" -> "gone" [] OTHER -> @]

Replace(p) ==
    LET f == proc[p].file IN
    /\ At(p, "replace")
    /\ temp[f] # Absent
    /\ disk' = [disk EXCEPT ![f] = temp[f]]
    /\ temp' = [temp EXCEPT ![f] = Absent]
    /\ proc' = [q \in Procs |-> IF q = p THEN [proc[p] EXCEPT !.pc = proc[p].then]
                                ELSE Moved(proc[q], f)]
    /\ UNCHANGED <<queue, outcome, overlapped>>

(* Another process has moved it away, or Windows refuses to move what it has *)
(* open, or the disk is full, or the connection breaks.                      *)
SaveFails(p) ==
    /\ proc[p].pc \in {"open", "write", "replace"}
    /\ Raise(p)
    /\ UNCHANGED <<disk, temp, queue, outcome, overlapped>>

--------------------------------------------------------------------------------
(* submit                                                                    *)

Start(p, command) ==
    /\ At(p, "start")
    /\ \A q \in Procs : q < p => ~At(q, "start")
    /\ \E digest \in Digests :
          proc' = [proc EXCEPT ![p].command = command,
                               ![p].digest = IF command = "upload" THEN digest ELSE @,
                               ![p].pc = IF command \in {"submit", "upload"} THEN "check" ELSE "read"]
    /\ UNCHANGED <<disk, temp, queue, outcome, overlapped>>

Pending == [status |-> "submission_pending", id |-> NoId]

CheckReceipt(p) ==
    /\ At(p, "check") /\ proc[p].command = "submit"
    /\ IF disk["job"] = Absent
       THEN proc' = [proc EXCEPT ![p] = Creating(@, "job", Pending, "call")]
       ELSE End(p)
    /\ UNCHANGED <<disk, temp, queue, outcome, overlapped>>

(* The provider takes the job and the answer arrives.                        *)
CallSubmit(p) ==
    /\ At(p, "call")
    /\ queue' = [j \in DOMAIN queue \cup {p} |-> IF j = p THEN "IN_QUEUE" ELSE queue[j]]
    /\ proc' = [proc EXCEPT ![p] = Saving(@, "job", [status |-> "submitted", id |-> p], "ended")]
    /\ UNCHANGED <<disk, temp, outcome, overlapped>>

(* It does not, whether or not the provider has taken the job.               *)
CallFails(p) ==
    /\ At(p, "call")
    /\ queue' \in {queue, [j \in DOMAIN queue \cup {p} |-> IF j = p THEN "IN_QUEUE" ELSE queue[j]]}
    /\ Raise(p)
    /\ UNCHANGED <<disk, temp, outcome, overlapped>>

--------------------------------------------------------------------------------
(* status and result                                                         *)

HasId(content) == content \notin {Absent, Torn} /\ content.id # NoId

ReadReceipt(p) ==
    /\ At(p, "read")
    /\ IF HasId(disk["job"])
       THEN proc' = [proc EXCEPT ![p].job = disk["job"],
                                 ![p].pc = IF proc[p].command = "result" /\ disk["result"] # Absent
                                           THEN "readResult" ELSE "query"]
       ELSE End(p)
    /\ UNCHANGED <<disk, temp, queue, outcome, overlapped>>

(* The status is saved, one that the script has no name for as UNKNOWN; a job *)
(* that is complete goes on to its result.                                   *)
Query(p) ==
    /\ At(p, "query")
    /\ queue[proc[p].job.id] # "expired"
    /\ \E status \in {queue[proc[p].job.id], "UNKNOWN"} :
          proc' = [proc EXCEPT ![p] = Saving(@, "job", WithStatus(p, status),
                    IF proc[p].command = "result" /\ status = "COMPLETED" THEN "fetch" ELSE "ended")]
    /\ UNCHANGED <<disk, temp, queue, outcome, overlapped>>

(* From the file, when it was there at the start, and else the provider's.   *)
ReadResult(p) ==
    /\ At(p, "readResult")
    /\ IF disk["result"] \in Results
       THEN proc' = [proc EXCEPT ![p].result = disk["result"], ![p].pc = "judge"]
       ELSE End(p)
    /\ UNCHANGED <<disk, temp, queue, outcome, overlapped>>

FetchResult(p) ==
    /\ At(p, "fetch")
    /\ queue[proc[p].job.id] = "COMPLETED"
    /\ proc' = [proc EXCEPT ![p] = [Saving(@, "result", outcome, "judge") EXCEPT !.result = outcome]]
    /\ UNCHANGED <<disk, temp, queue, outcome, overlapped>>

(* The provider does not answer, or no longer knows the job.                 *)
QueryFails(p) ==
    /\ proc[p].pc \in {"query", "fetch"}
    /\ End(p)
    /\ UNCHANGED <<disk, temp, queue, outcome, overlapped>>

(* Fault: an error is a result like any other.                               *)
JudgeNothing(p) ==
    /\ At(p, "judge")
    /\ Go(p, "download")
    /\ UNCHANGED <<disk, temp, queue, outcome, overlapped>>

Judge(p) ==
    /\ At(p, "judge")
    /\ IF proc[p].result = "error"
       THEN proc' = [proc EXCEPT ![p] = Saving(@, "job", WithStatus(p, "provider_error"), "ended")]
       ELSE Go(p, "download")
    /\ UNCHANGED <<disk, temp, queue, outcome, overlapped>>

(* What is there already is not downloaded again; the receipt comes last.    *)
Download(p) ==
    /\ At(p, "download")
    /\ proc' = [proc EXCEPT ![p] =
           CASE proc[p].result # "media" -> Saving(@, "job", WithStatus(p, "result_saved"), "ended")
             [] proc[p].result = "media" /\ disk["asset"] # Absent ->
                    Saving(@, "job", WithStatus(p, "downloaded"), "ended")
             [] OTHER -> Saving(@, "asset", Absent, "download")]
    /\ UNCHANGED <<disk, temp, queue, outcome, overlapped>>

--------------------------------------------------------------------------------
(* upload                                                                    *)

(* A receipt of the same file is used again, that of another refused.        *)
CheckUpload(p) ==
    /\ At(p, "check") /\ proc[p].command = "upload"
    /\ IF disk["upload"] = Absent THEN Go(p, "upload") ELSE End(p)
    /\ UNCHANGED <<disk, temp, queue, outcome, overlapped>>

(* The file goes to the provider; its receipt is created last.               *)
Upload(p) ==
    /\ At(p, "upload")
    /\ \/ proc' = [proc EXCEPT ![p] = Creating(@, "upload", proc[p].digest, "ended")]
       \/ End(p)
    /\ UNCHANGED <<disk, temp, queue, outcome, overlapped>>

--------------------------------------------------------------------------------
(* The provider, and crashes                                                 *)

NextQueueState == [IN_QUEUE |-> "IN_PROGRESS", IN_PROGRESS |-> "COMPLETED", COMPLETED |-> "expired"]

ProviderAdvances(j) ==
    /\ j \in DOMAIN queue
    /\ queue[j] \in QueueStates
    /\ queue' = [queue EXCEPT ![j] = NextQueueState[@]]
    /\ UNCHANGED <<disk, temp, outcome, proc, overlapped>>

(* A process that is killed closes its files as they are.                    *)
Crash(p) ==
    /\ proc[p].pc \notin {"start", "ended"}
    /\ End(p)
    /\ UNCHANGED <<disk, temp, queue, outcome, overlapped>>

Step(p) ==
    \/ OpenTemp(p) \/ CreateExclusively(p) \/ RefuseCreate(p)
    \/ Write(p) \/ Replace(p) \/ SaveFails(p)
    \/ CheckReceipt(p) \/ CallSubmit(p) \/ CallFails(p)
    \/ ReadReceipt(p) \/ Query(p) \/ QueryFails(p)
    \/ ReadResult(p) \/ FetchResult(p) \/ Judge(p) \/ Download(p)
    \/ CheckUpload(p) \/ Upload(p)

Next ==
    \/ \E p \in Procs : \/ \E command \in Commands : Start(p, command)
                        \/ Step(p) \/ Crash(p)
    \/ \E j \in Procs : ProviderAdvances(j)

Spec == Init /\ [][Next]_vars

--------------------------------------------------------------------------------
(* fal_job.py:68: whatever overlaps, crashes or is lost on the way back, and *)
(* however often it is run again, one task directory costs one generation.   *)
SubmittedOnce == Cardinality(DOMAIN queue) <= 1

(* A job the provider has taken is never forgotten: its receipt is there, and *)
(* once it has named the job it names it after any crash or failed write, so  *)
(* long as no two processes were saving it at once.                          *)
NamedJobKept ==
    [][~overlapped' /\ HasId(disk["job"]) =>
           HasId(disk'["job"]) /\ disk'["job"].id = disk["job"].id]_vars

(* What the receipt calls delivered is: the provider's result was no error,   *)
(* it has been saved, and its media are on the disk.                         *)
DeliveredIsThere ==
    disk["job"] \in Receipt /\ disk["job"].status \in {"downloaded", "result_saved"} =>
        /\ outcome # "error"
        /\ ~overlapped => disk["result"] = outcome
        /\ disk["job"].status = "downloaded" <=> outcome = "media"
        /\ outcome = "media" => disk["asset"] # Absent

================================================================================
