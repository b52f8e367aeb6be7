------------------------------ MODULE RunStore ------------------------------
(***************************************************************************)
(* The run store of the verification API (api/store.py) with the files it  *)
(* writes (cli/persistence.py) and the routes that call it (api/server.py).*)
(*                                                                         *)
(* The server runs each request in a thread.  Creating a run holds the     *)
(* store's lock from the lookup of the idempotency key to the answer, the  *)
(* whole pipeline included; publishing takes it only for its writes.  A    *)
(* file is opened for writing, which truncates it, and then filled: two    *)
(* steps, between which it is torn.  The process may die at any step and   *)
(* is then restarted on the files it left.                                 *)
(*                                                                         *)
(* The evidence and events files are left out: no decision reads them.     *)
(***************************************************************************)
EXTENDS Naturals, Sequences

CONSTANTS
  Threads,      \* request threads
  Keys,         \* idempotency keys
  NoKey,        \* the key of a request without one
  Payloads,     \* request payloads, by fingerprint
  Publishing,   \* those that ask for publication
  Runs,         \* run ids (fresh UUIDs)
  None,         \* no binding, no run, no thread
  Torn,         \* the content of a file that was truncated and not filled
  Faults        \* the kinds of fault: "crash", "write", never both in one execution

ASSUME StoreAssumption ==
  /\ Publishing \subseteq Payloads
  /\ NoKey \notin Keys
  /\ None \notin Runs \cup Threads \cup [payload : Payloads, run : Runs]
  /\ Torn \notin {"absent", "private", "public", "valid"}
  /\ Faults \subseteq {"crash", "write"}

VARIABLES
  disk,         \* the files
  mem,          \* the store's attributes: _runs, _idempotency_records, _published_runs
  lock,         \* the thread that holds _lock
  thread,       \* where each request stands
  answered,     \* the runs requests were answered with, by key and payload
  fault         \* the kind of fault this execution meets

vars == <<disk, mem, lock, thread, answered, fault>>

----------------------------------------------------------------------------
Flag == {"private", "public"}    \* is_published in a run's metadata

(* Where a request stands; left: the files a phase has still to write.     *)
Idle == [phase |-> "idle", key |-> NoKey, payload |-> None, run |-> None,
         left |-> <<>>, open |-> FALSE]

(* get_run: from memory, else from the metadata file, which stays cached.  *)
Readable(r) == mem.runs[r] # "absent" \/ disk.meta[r] \in Flag
Missing(r) == mem.runs[r] = "absent" /\ disk.meta[r] = "absent"
RunFlag(r) == IF mem.runs[r] # "absent" THEN mem.runs[r] ELSE disk.meta[r]

(* What open("w") and json.dump make of a run's or the store's file.       *)
Put(file, r, x) ==
  IF file \in {"meta", "receipt"} THEN [disk EXCEPT ![file] = [@ EXCEPT ![r] = x]]
                                  ELSE [disk EXCEPT ![file] = x]
Content(file, r, phase) ==
  CASE file = "meta" -> IF phase = "pipeline" THEN "private" ELSE mem.runs[r]
    [] file = "receipt" -> "valid"
    [] file = "bindings" -> mem.bindings
    [] file = "published" -> mem.published

(* The thread answers, or fails, and leaves the `with` block.              *)
Release(c) ==
  /\ lock' = None
  /\ thread' = [thread EXCEPT ![c] = Idle]

(* publish_run under the lock: both flags first, then the two files.  (Two *)
(* threads may hold different dicts with the metadata of one run; a request*)
(* that misses the flag of the other's only publishes once more.)          *)
EnterPublication(c, t) ==
  /\ lock' = c
  /\ mem' = [mem EXCEPT !.runs[t.run] = "public", !.published = @ \cup {t.run}]
  /\ thread' = [thread EXCEPT
                  ![c] = [t EXCEPT !.phase = "publish", !.left = <<"meta", "published">>]]

Answer(t) == answered' = answered \cup {[key |-> t.key, payload |-> t.payload, run |-> t.run]}

----------------------------------------------------------------------------
(* create_or_get_run.                                                      *)

Bound(k) == k \in Keys /\ mem.bindings[k] # None
Unanswered(k, p) == Bound(k) => mem.bindings[k].payload = p /\ Missing(mem.bindings[k].run)

Request(k, p, r) == [Idle EXCEPT !.key = k, !.payload = p, !.run = r]

(* A request that is invalid, reuses a key with another payload, or finds  *)
(* its run unreadable or without a receipt to publish is refused at once.  *)
Refuse(c) == thread[c].phase = "idle" /\ UNCHANGED vars

(* The key's run exists: it is the answer, published first if asked for.   *)
Replay(c, k, p) ==
  /\ thread[c].phase = "idle" /\ lock = None
  /\ Bound(k) /\ mem.bindings[k].payload = p
  /\ LET r == mem.bindings[k].run
         asked == p \in Publishing /\ RunFlag(r) = "private"
     IN /\ Readable(r)
        /\ IF asked /\ disk.receipt[r] = "valid"
           THEN /\ EnterPublication(c, Request(k, p, r))
                /\ UNCHANGED answered
           ELSE /\ mem' = [mem EXCEPT !.runs[r] = RunFlag(r)]
                /\ IF asked THEN UNCHANGED answered ELSE Answer(Request(k, p, r))
                /\ UNCHANGED <<lock, thread>>
  /\ UNCHANGED disk

(* The pipeline saves what it found before it returns; a blocked or        *)
(* invalid run has no receipt.                                             *)
FaultExecuteUnlocked(c, k, p, r, files) ==
  /\ thread[c].phase = "idle"
  /\ Unanswered(k, p)
  /\ Missing(r) /\ \A d \in Threads : thread[d].run # r
  /\ thread' = [thread EXCEPT ![c] = [Request(k, p, r) EXCEPT !.phase = "pipeline", !.left = files]]
  /\ UNCHANGED <<lock, disk, mem, answered>>

FaultExecuteBindsFirst(c, k, p, r, files) ==
  /\ thread[c].phase = "idle" /\ lock = None
  /\ k \in Keys /\ Unanswered(k, p)
  /\ Missing(r) /\ \A d \in Threads : thread[d].run # r
  /\ lock' = c
  /\ mem' = [mem EXCEPT !.bindings[k] = [payload |-> p, run |-> r]]
  /\ thread' = [thread EXCEPT
                  ![c] = [Request(k, p, r) EXCEPT !.phase = "pipeline", !.left = <<"bindings">> \o files]]
  /\ UNCHANGED <<disk, answered>>

Execute(c, k, p, r, files) ==
  /\ thread[c].phase = "idle" /\ lock = None
  /\ Unanswered(k, p)
  /\ Missing(r) /\ \A d \in Threads : thread[d].run # r
  /\ lock' = c
  /\ thread' = [thread EXCEPT ![c] = [Request(k, p, r) EXCEPT !.phase = "pipeline", !.left = files]]
  /\ UNCHANGED <<disk, mem, answered>>

(* The pipeline returned: the run is in memory, and saved once more.       *)
Register(c) ==
  LET t == thread[c]
  IN /\ t.phase = "pipeline" /\ t.left = <<>>
     /\ mem' = [mem EXCEPT !.runs[t.run] = "private"]
     /\ thread' = [thread EXCEPT
                     ![c].phase = "save",
                     ![c].left = IF disk.receipt[t.run] = "absent" THEN <<"meta">>
                                                                   ELSE <<"meta", "receipt">>]
     /\ UNCHANGED <<disk, lock, answered>>

Bind(c) ==
  LET t == thread[c]
  IN /\ t.phase = "save" /\ t.left = <<>> /\ t.key # NoKey
     /\ mem' = [mem EXCEPT !.bindings[t.key] = [payload |-> t.payload, run |-> t.run]]
     /\ thread' = [thread EXCEPT ![c].phase = "bind", ![c].left = <<"bindings">>]
     /\ UNCHANGED <<disk, lock, answered>>

(* Saved and bound: answer, publish first, or refuse to publish.           *)
Conclude(c) ==
  LET t == thread[c]
  IN /\ t.left = <<>>
     /\ t.phase = "bind" \/ (t.phase = "save" /\ t.key = NoKey)
     /\ \/ /\ t.payload \in Publishing /\ disk.receipt[t.run] = "valid"
           /\ EnterPublication(c, t)
           /\ UNCHANGED answered
        \/ /\ t.payload \in Publishing /\ disk.receipt[t.run] = "absent"
           /\ Release(c)
           /\ UNCHANGED <<mem, answered>>
        \/ /\ t.payload \notin Publishing
           /\ Release(c) /\ Answer(t)
           /\ UNCHANGED mem
     /\ UNCHANGED disk

----------------------------------------------------------------------------
(* POST /v1/runs/{id}/publish: the receipt is examined before the lock.    *)
FaultReceiptNotExamined(c, r) ==
  /\ thread[c].phase = "idle"
  /\ Readable(r)
  /\ mem' = [mem EXCEPT !.runs[r] = RunFlag(r)]
  /\ thread' = [thread EXCEPT ![c] = [Idle EXCEPT !.phase = "waiting", !.run = r]]
  /\ UNCHANGED <<disk, lock, answered>>

RequestPublication(c, r) ==
  /\ thread[c].phase = "idle"
  /\ Readable(r) /\ disk.receipt[r] = "valid"
  /\ mem' = [mem EXCEPT !.runs[r] = RunFlag(r)]
  /\ thread' = [thread EXCEPT ![c] = [Idle EXCEPT !.phase = "waiting", !.run = r]]
  /\ UNCHANGED <<disk, lock, answered>>

StartPublication(c) ==
  /\ thread[c].phase = "waiting" /\ lock = None
  /\ EnterPublication(c, thread[c])
  /\ UNCHANGED <<disk, answered>>

FinishPublication(c) ==
  LET t == thread[c]
  IN /\ t.phase = "publish" /\ t.left = <<>>
     /\ Release(c)
     /\ IF t.payload = None THEN UNCHANGED answered ELSE Answer(t)
     /\ UNCHANGED <<disk, mem>>

----------------------------------------------------------------------------
(* One file of a phase.                                                    *)
Open(c) ==
  LET t == thread[c]
  IN /\ t.left # <<>> /\ ~t.open
     /\ disk' = Put(Head(t.left), t.run, Torn)
     /\ thread' = [thread EXCEPT ![c].open = TRUE]
     /\ UNCHANGED <<mem, lock, answered>>

Fill(c) ==
  LET t == thread[c]
      file == Head(t.left)
  IN /\ t.left # <<>> /\ t.open
     /\ disk' = Put(file, t.run, Content(file, t.run, t.phase))
     /\ thread' = [thread EXCEPT ![c].open = FALSE, ![c].left = Tail(t.left)]
     /\ UNCHANGED <<mem, lock, answered>>

FaultRetriesForever(c) ==
  LET t == thread[c]
  IN /\ fault = "write"
     /\ t.left # <<>>
     /\ thread' = [thread EXCEPT ![c].open = FALSE]
     /\ UNCHANGED <<lock, disk, mem, answered>>

(* Opening or filling raises.  publish_run swallows that of the metadata;  *)
(* any other ends the request.                                             *)
WriteFails(c) ==
  LET t == thread[c]
  IN /\ fault = "write"
     /\ t.left # <<>>
     /\ IF t.phase = "publish" /\ Head(t.left) = "meta"
        THEN /\ thread' = [thread EXCEPT ![c].open = FALSE, ![c].left = Tail(t.left)]
             /\ UNCHANGED lock
        ELSE Release(c)
     /\ UNCHANGED <<disk, mem, answered>>

(* The process dies; a new one runs recover_from_disk, which writes        *)
(* nothing.  A public flag counts with a valid receipt; without one it is  *)
(* dropped, and with a torn one the exception leaves it as it is.  The     *)
(* published file adds nothing: each of its runs must carry the flag too.  *)

Recovered ==
  [runs |-> [r \in Runs |->
               CASE disk.meta[r] \notin Flag -> "absent"
                 [] disk.meta[r] = "public" /\ disk.receipt[r] = "absent" -> "private"
                 [] OTHER -> disk.meta[r]],
   bindings |-> IF disk.bindings = Torn THEN [k \in Keys |-> None] ELSE disk.bindings,
   published |-> {r \in Runs : disk.meta[r] = "public" /\ disk.receipt[r] = "valid"}]

Crash ==
  /\ fault = "crash"
  /\ mem' = Recovered
  /\ lock' = None
  /\ thread' = [c \in Threads |-> Idle]
  /\ UNCHANGED <<disk, answered>>

----------------------------------------------------------------------------
Init ==
  /\ disk = [meta |-> [r \in Runs |-> "absent"], receipt |-> [r \in Runs |-> "absent"],
             bindings |-> [k \in Keys |-> None], published |-> {}]
  /\ mem = [runs |-> [r \in Runs |-> "absent"], bindings |-> [k \in Keys |-> None],
            published |-> {}]
  /\ lock = None
  /\ thread = [c \in Threads |-> Idle]
  /\ answered = {}
  /\ fault \in Faults

(* The steps of a thread that has the lock.                                *)
Continue(c) ==
  \/ Register(c)
  \/ Bind(c)
  \/ Conclude(c)
  \/ FinishPublication(c)
  \/ Open(c)
  \/ Fill(c)

Serve(c) ==
  \/ \E k \in Keys \cup {NoKey}, p \in Payloads :
       \/ Replay(c, k, p)
       \/ \E r \in Runs, files \in {<<"meta">>, <<"meta", "receipt">>} : Execute(c, k, p, r, files)
  \/ \E r \in Runs : RequestPublication(c, r)
  \/ StartPublication(c)
  \/ Refuse(c)

Next ==
  /\ \/ \E c \in Threads : Serve(c) \/ Continue(c) \/ WriteFails(c)
     \/ Crash
  /\ UNCHANGED fault

Spec == Init /\ [][Next]_vars

(* A thread that holds the lock is scheduled.                              *)
LiveSpec == Spec /\ \A c \in Threads : WF_vars(Continue(c) /\ UNCHANGED fault)

----------------------------------------------------------------------------
(* Properties.                                                             *)

(* "Durable persistence of idempotency bindings": whatever threads race and *)
(* writes fail, an idempotency key is answered with one run and accepts one *)
(* payload.  (A process that dies while it rewrites idempotency.json loses *)
(* the bindings: then a replayed key executes again.)                      *)
AnswersAgree ==
  fault = "write" => \A a, b \in answered : a.key = b.key /\ a.key # NoKey => a = b

(* "Persist run state and events to disk first": a binding never names a   *)
(* run without a metadata file, neither on disk, at any step the process   *)
(* could die at, nor in memory once the request is over.  With it a replay *)
(* never executes again.                                                   *)
BindingOnSavedRun ==
  \A k \in Keys :
    /\ disk.bindings # Torn =>
         (disk.bindings[k] # None => disk.meta[disk.bindings[k].run] # "absent")
    /\ lock = None /\ Bound(k) => disk.meta[mem.bindings[k].run] # "absent"

(* A run listed for signed-out judges has a readable receipt, although the *)
(* receipt is examined before the lock is taken and saved twice.  (A save  *)
(* that fails in between leaves a torn one: with deaths only.)             *)
PublishedReceiptValid ==
  fault = "crash" => \A r \in mem.published : disk.receipt[r] = "valid"

(* No path out of a request, a failed write included, keeps the lock.      *)
LockReleased == lock # None ~> lock = None

=============================================================================
