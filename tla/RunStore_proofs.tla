--------------------------- MODULE RunStore_proofs ---------------------------
(***************************************************************************)
(* Proofs about the run store, for any number of request threads, keys and *)
(* runs: the three invariants that its run checks.  StoreInv adds to them  *)
(* what a request knows where it stands.  The store's lock is what makes   *)
(* it inductive: a key is free until the request that holds the lock has   *)
(* saved its run, and what a binding names stays on disk for good.         *)
(***************************************************************************)
EXTENDS RunStore, SequenceTheorems, TLAPS

Saving == {"pipeline", "save"}
Locking == Saving \cup {"bind", "publish"}
Phases == Locking \cup {"idle", "waiting"}

(* The files a phase may have left to write.                               *)
SaveLeft == {<<>>, <<"meta">>, <<"meta", "receipt">>, <<"receipt">>}
BindLeft == {<<>>, <<"bindings">>}
PublishLeft == {<<>>, <<"meta", "published">>, <<"published">>}

Binding == [payload : Payloads, run : Runs]
Metadata == {"absent", Torn} \cup Flag
Receipts == {"absent", "valid", Torn}
Bindings == [Keys -> Binding \cup {None}]

Files == [meta : [Runs -> Metadata], receipt : [Runs -> Receipts],
          bindings : Bindings \cup {Torn}, published : (SUBSET Runs) \cup {Torn}]
Memory == [runs : [Runs -> {"absent"} \cup Flag], bindings : Bindings, published : SUBSET Runs]

Requested == [phase : Phases, key : Keys \cup {NoKey}, payload : Payloads \cup {None},
              run : Runs \cup {None}, left : SaveLeft \cup BindLeft \cup PublishLeft,
              open : BOOLEAN]

TypeOK ==
  /\ disk \in Files
  /\ mem \in Memory
  /\ lock \in Threads \cup {None}
  /\ thread \in [Threads -> Requested]
  /\ answered \subseteq [key : Keys \cup {NoKey}, payload : Payloads, run : Runs]

(* What a request knows where it stands: its key is free until its run is  *)
(* saved, and its own from then on.                                        *)
Standing(t) ==
  /\ t.phase \in {"idle", "waiting"} => t.left = <<>>
  /\ t.phase \in Saving => t.left \in SaveLeft
  /\ t.phase = "bind" => t.left \in BindLeft
  /\ t.phase = "publish" => t.left \in PublishLeft
  /\ t.left = <<>> => ~t.open
  /\ t.phase # "idle" => t.run \in Runs
  /\ t.phase = "waiting" => t.key = NoKey
  /\ t.phase \in Saving \cup {"bind"} => t.payload \in Payloads

KeyOf(t) ==
  t.key \in Keys =>
    /\ t.phase \in Saving => mem.bindings[t.key] = None
    /\ t.phase \in {"bind", "publish"} =>
         mem.bindings[t.key] = [payload |-> t.payload, run |-> t.run]

RunOf(t) ==
  /\ t.phase \in Locking \ {"pipeline"} => mem.runs[t.run] \in Flag
  /\ t.phase \in Saving =>
       disk.meta[t.run] # "absent" \/ t.left \in {<<"meta">>, <<"meta", "receipt">>}

LockHeld == \A c \in Threads : lock = c <=> thread[c].phase \in Locking

SavedFirst ==
  /\ \A k \in Keys : mem.bindings[k] # None => disk.meta[mem.bindings[k].run] # "absent"
  /\ disk.bindings # Torn =>
       \A k \in Keys : disk.bindings[k] # None => disk.meta[disk.bindings[k].run] # "absent"
  /\ \A r \in Runs : disk.receipt[r] # "absent" => disk.meta[r] # "absent"

AnswersBound ==
  fault = "write" =>
    \A a \in answered : a.key \in Keys =>
      mem.bindings[a.key] = [payload |-> a.payload, run |-> a.run]

(* A thread saves the run, and has its receipt open.                       *)
Resaved(r) ==
  \E d \in Threads : /\ thread[d].phase \in Saving /\ thread[d].run = r
                     /\ thread[d].left = <<"receipt">> /\ thread[d].open

ReceiptsReadable ==
  fault = "crash" =>
    /\ \A r \in mem.published :
         /\ disk.receipt[r] = "valid"
         /\ \A d \in Threads : ~(thread[d].phase \in Saving /\ thread[d].run = r)
    /\ \A c \in Threads : thread[c].phase = "waiting" =>
         disk.receipt[thread[c].run] = "valid" \/ Resaved(thread[c].run)

Threaded == \A c \in Threads : Standing(thread[c]) /\ KeyOf(thread[c]) /\ RunOf(thread[c])

StoreInv ==
  TypeOK /\ Threaded /\ LockHeld /\ SavedFirst /\ AnswersBound /\ ReceiptsReadable

-----------------------------------------------------------------------------
(* The lists of files.                                                     *)
LEMMA Lists ==
  /\ <<"meta">> # <<>> /\ <<"meta", "receipt">> # <<>> /\ <<"receipt">> # <<>>
  /\ <<"bindings">> # <<>> /\ <<"meta", "published">> # <<>> /\ <<"published">> # <<>>
  /\ Head(<<"meta">>) = "meta" /\ Tail(<<"meta">>) = <<>>
  /\ Head(<<"meta", "receipt">>) = "meta" /\ Tail(<<"meta", "receipt">>) = <<"receipt">>
  /\ Head(<<"receipt">>) = "receipt" /\ Tail(<<"receipt">>) = <<>>
  /\ Head(<<"bindings">>) = "bindings" /\ Tail(<<"bindings">>) = <<>>
  /\ Head(<<"meta", "published">>) = "meta" /\ Tail(<<"meta", "published">>) = <<"published">>
  /\ Head(<<"published">>) = "published" /\ Tail(<<"published">>) = <<>>
  /\ <<"receipt">> \notin {<<"meta">>, <<"meta", "receipt">>}
OBVIOUS

LEMMA StoreInit == Init => StoreInv
<1> SUFFICES ASSUME Init PROVE StoreInv
  OBVIOUS
<1> USE StoreAssumption DEF Init, Idle
<1>1. TypeOK
  BY DEF TypeOK, Files, Memory, Requested, Metadata, Receipts, Bindings, Phases, SaveLeft, Flag
<1>2. Threaded
  BY DEF Threaded, Standing, KeyOf, RunOf, Saving, Locking
<1>3. LockHeld
  BY DEF LockHeld, Locking, Saving
<1>4. SavedFirst /\ AnswersBound /\ ReceiptsReadable
  BY DEF SavedFirst, AnswersBound, ReceiptsReadable
<1>5. QED BY <1>1, <1>2, <1>3, <1>4 DEF StoreInv

(* A new request, and one that starts its pipeline.                        *)
LEMMA Requests ==
  ASSUME NEW k, NEW p, NEW r, NEW t, t = Request(k, p, r)
  PROVE  t = [phase |-> "idle", key |-> k, payload |-> p, run |-> r, left |-> <<>>, open |-> FALSE]
BY DEF Request, Idle

(* The step of a thread that has the lock or takes it is no concern of the *)
(* others: none of them is between taking and leaving it.                  *)
LEMMA LockStep ==
  ASSUME StoreInv, NEW c \in Threads, lock \in {c, None}, NEW t,
         thread' = [thread EXCEPT ![c] = t],
         lock' = IF t.phase \in Locking THEN c ELSE None,
         TypeOK', Standing(t), KeyOf(t)', RunOf(t)', SavedFirst', AnswersBound', ReceiptsReadable'
  PROVE  StoreInv'
<1>1. thread'[c] = t /\ \A d \in Threads \ {c} : thread'[d] = thread[d]
  BY DEF StoreInv, TypeOK, Files, Memory
<1>2. \A d \in Threads \ {c} : thread[d].phase \notin Locking
  BY StoreAssumption DEF StoreInv, LockHeld
<1>3. LockHeld'
  BY <1>1, <1>2, StoreAssumption DEF LockHeld
<1>4. ASSUME NEW d \in Threads PROVE (Standing(thread[d]) /\ KeyOf(thread[d]) /\ RunOf(thread[d]))'
  <2>1. CASE d = c
    BY <1>1, <2>1 DEF Standing, KeyOf, RunOf
  <2>2. CASE d # c
    <3>1. thread'[d] = thread[d] /\ thread[d].phase \notin Locking
      BY <1>1, <1>2, <2>2
    <3>2. Standing(thread'[d])
      BY <3>1 DEF StoreInv, Threaded
    <3>3. KeyOf(thread[d])' /\ RunOf(thread[d])'
      BY <3>1 DEF KeyOf, RunOf, Locking, Saving
    <3>4. QED BY <3>2, <3>3 DEF Standing
  <2>3. QED BY <2>1, <2>2
<1>5. Threaded'
  BY <1>4 DEF Threaded
<1>6. QED BY <1>3, <1>5 DEF StoreInv

(* A step that opens no receipt.                                           *)
LEMMA ReceiptsKept ==
  ASSUME StoreInv, UNCHANGED fault, NEW c \in Threads, NEW t,
         thread' = [thread EXCEPT ![c] = t], disk'.receipt = disk.receipt,
         fault = "crash" =>
           /\ \A r \in mem'.published \ mem.published :
                /\ disk.receipt[r] = "valid"
                /\ \A d \in Threads \ {c} : ~(thread[d].phase \in Saving /\ thread[d].run = r)
           /\ t.phase \in Saving => t.run \notin mem'.published
           /\ t.phase = "waiting" => disk.receipt[t.run] = "valid"
           /\ thread[c].phase \notin Saving \/ thread[c].left # <<"receipt">>
  PROVE  ReceiptsReadable'
<1>1. SUFFICES ASSUME fault = "crash" PROVE ReceiptsReadable'
  BY DEF ReceiptsReadable
<1>2. thread'[c] = t /\ \A d \in Threads \ {c} : thread'[d] = thread[d]
  BY DEF StoreInv, TypeOK, Files, Memory
<1>3. ASSUME NEW q, Resaved(q) PROVE Resaved(q)'
  BY <1>1, <1>2, <1>3 DEF Resaved
<1>4. ASSUME NEW r \in mem'.published
      PROVE  /\ disk'.receipt[r] = "valid"
             /\ \A d \in Threads : ~(thread'[d].phase \in Saving /\ thread'[d].run = r)
  BY <1>1, <1>2 DEF StoreInv, ReceiptsReadable
<1>5. ASSUME NEW d \in Threads, thread'[d].phase = "waiting"
      PROVE  disk'.receipt[thread'[d].run] = "valid" \/ Resaved(thread[d].run)'
  <2>1. CASE d = c
    BY <1>1, <1>2, <1>5, <2>1
  <2>2. CASE d # c
    <3>1. thread'[d] = thread[d]
      BY <1>2, <2>2
    <3>2. disk.receipt[thread[d].run] = "valid" \/ Resaved(thread[d].run)
      BY <1>1, <1>5, <3>1 DEF StoreInv, ReceiptsReadable
    <3>3. QED BY <1>3, <3>1, <3>2
  <2>3. QED BY <2>1, <2>2
<1>6. QED BY <1>4, <1>5, <1>1 DEF ReceiptsReadable

(* A request takes the lock and runs its pipeline: its key was free.       *)
LEMMA ExecuteStep ==
  ASSUME StoreInv, UNCHANGED fault, NEW c \in Threads, NEW k \in Keys \cup {NoKey},
         NEW p \in Payloads, NEW r \in Runs, NEW files \in {<<"meta">>, <<"meta", "receipt">>},
         Execute(c, k, p, r, files)
  PROVE  StoreInv'
<1>q. PICK q : q = Request(k, p, r)
  OBVIOUS
<1>t. PICK t : t = [q EXCEPT !.phase = "pipeline", !.left = files]
  OBVIOUS
<1>0. t = [phase |-> "pipeline", key |-> k, payload |-> p, run |-> r, left |-> files, open |-> FALSE]
  <2>1. q = [phase |-> "idle", key |-> k, payload |-> p, run |-> r, left |-> <<>>, open |-> FALSE]
    BY <1>q, Requests
  <2>2. QED BY <2>1, <1>t
<1>1. /\ thread' = [thread EXCEPT ![c] = t] /\ thread[c].phase = "idle"
      /\ lock = None /\ lock' = c /\ UNCHANGED <<disk, mem, answered>>
  BY <1>q, <1>t DEF Execute
<1>2. disk.meta[r] = "absent" /\ \A d \in Threads : thread[d].run # r
  BY DEF Execute, Missing
<1>3. TypeOK'
  BY <1>0, <1>1 DEF StoreInv, TypeOK, Files, Memory, Requested, Phases, Locking, Saving, SaveLeft
<1>4. k \in Keys => mem.bindings[k] = None
  BY <1>2 DEF Execute, Unanswered, Bound, Missing, StoreInv, SavedFirst
<1>5. Standing(t) /\ KeyOf(t)' /\ RunOf(t)'
  BY <1>0, <1>1, <1>4, Lists DEF Standing, KeyOf, RunOf, Saving, Locking, SaveLeft
<1>6. SavedFirst' /\ AnswersBound'
  BY <1>1 DEF StoreInv, SavedFirst, AnswersBound
<1>7. ReceiptsReadable'
  <2>1. fault = "crash" => r \notin mem.published
    BY <1>2 DEF StoreInv, ReceiptsReadable, SavedFirst, TypeOK, Files, Memory
  <2>2. QED BY <1>0, <1>1, <2>1, ReceiptsKept DEF Saving
<1>8. lock' = IF t.phase \in Locking THEN c ELSE None
  BY <1>0, <1>1 DEF Locking, Saving
<1>9. QED BY <1>1, <1>3, <1>5, <1>6, <1>7, <1>8, LockStep

(* A thread that may publish the run begins to: the key, if any, is its own.*)
LEMMA EnterPublicationStep ==
  ASSUME StoreInv, UNCHANGED <<fault, disk, answered>>, NEW c \in Threads, lock \in {c, None},
         NEW q \in Requested, q.run \in Runs, ~q.open,
         q.key \in Keys => mem.bindings[q.key] = [payload |-> q.payload, run |-> q.run],
         fault = "crash" => disk.receipt[q.run] = "valid",
         thread[c].left = <<>>,
         EnterPublication(c, q)
  PROVE  StoreInv'
<1>t. PICK t : t = [q EXCEPT !.phase = "publish", !.left = <<"meta", "published">>]
  OBVIOUS
<1>1. /\ t.phase = "publish" /\ t.key = q.key /\ t.payload = q.payload /\ t.run = q.run
      /\ t.left = <<"meta", "published">> /\ t.open = q.open /\ t \in Requested
  BY <1>t DEF Requested, Phases, Locking, PublishLeft
<1>2. thread' = [thread EXCEPT ![c] = t] /\ lock' = c
  BY <1>t DEF EnterPublication
<1>3. /\ mem'.bindings = mem.bindings /\ mem'.published = mem.published \cup {q.run}
      /\ mem'.runs = [mem.runs EXCEPT ![q.run] = "public"]
      /\ mem' \in Memory
  BY DEF EnterPublication, StoreInv, TypeOK, Files, Memory, Flag
<1>4. TypeOK'
  BY <1>1, <1>2, <1>3 DEF StoreInv, TypeOK, Files, Memory
<1>5. Standing(t) /\ KeyOf(t)' /\ RunOf(t)'
  BY <1>1, <1>3, Lists DEF Standing, KeyOf, RunOf, Saving, Locking, PublishLeft, Flag, StoreInv, TypeOK, Files, Memory
<1>6. SavedFirst' /\ AnswersBound'
  BY <1>3 DEF StoreInv, SavedFirst, AnswersBound
<1>7. ReceiptsReadable'
  <2>1. \A d \in Threads \ {c} : thread[d].phase \notin Saving
    BY StoreAssumption DEF StoreInv, LockHeld, Locking
  <2>2. QED BY <1>1, <1>2, <1>3, <2>1, Lists, ReceiptsKept DEF Saving
<1>8. lock' = IF t.phase \in Locking THEN c ELSE None
  BY <1>1, <1>2 DEF Locking
<1>9. QED BY <1>2, <1>4, <1>5, <1>6, <1>7, <1>8, LockStep

(* A run's metadata is in memory or on disk: what is read is one of the two*)
(* flags.                                                                  *)
LEMMA ReadableFlag ==
  ASSUME TypeOK, NEW r \in Runs, Readable(r)
  PROVE  RunFlag(r) \in Flag
BY DEF TypeOK, Files, Memory, Readable, RunFlag

(* Reading a run caches it, and touches nothing else of memory.            *)
LEMMA CacheRun ==
  ASSUME StoreInv, NEW r \in Runs, Readable(r),
         mem' = [mem EXCEPT !.runs[r] = RunFlag(r)]
  PROVE  /\ mem'.bindings = mem.bindings /\ mem'.published = mem.published
         /\ \A q \in Runs : mem.runs[q] \in Flag => mem'.runs[q] \in Flag
         /\ mem' \in Memory
<1>1. RunFlag(r) \in Flag
  BY ReadableFlag DEF StoreInv
<1>2. QED BY <1>1 DEF StoreInv, TypeOK, Files, Memory

LEMMA ReplayStep ==
  ASSUME StoreInv, UNCHANGED fault, NEW c \in Threads, NEW k \in Keys \cup {NoKey},
         NEW p \in Payloads, Replay(c, k, p)
  PROVE  StoreInv'
<1> DEFINE r == mem.bindings[k].run
<1>1. /\ thread[c].phase = "idle" /\ lock = None /\ k \in Keys /\ disk' = disk
      /\ mem.bindings[k] = [payload |-> p, run |-> r] /\ r \in Runs /\ Readable(r)
  BY DEF Replay, Bound, StoreInv, TypeOK, Files, Memory, Bindings, Binding
<1>q. PICK q : q = Request(k, p, r)
  OBVIOUS
<1>2. q = [phase |-> "idle", key |-> k, payload |-> p, run |-> r, left |-> <<>>, open |-> FALSE]
  BY <1>q, Requests
<1>3. q \in Requested
  BY <1>1, <1>2 DEF Requested, Phases, SaveLeft
<1>4. CASE disk.receipt[r] = "valid" /\ EnterPublication(c, q) /\ UNCHANGED answered
  <2>1. thread[c].left = <<>>
    BY <1>1 DEF StoreInv, Threaded, Standing
  <2>2. QED BY <1>1, <1>2, <1>3, <1>4, <2>1, EnterPublicationStep
<1>5. CASE /\ mem' = [mem EXCEPT !.runs[r] = RunFlag(r)]
           /\ UNCHANGED answered \/ Answer(q)
           /\ UNCHANGED <<lock, thread>>
  <2>1. /\ mem'.bindings = mem.bindings /\ mem'.published = mem.published
        /\ \A x \in Runs : mem.runs[x] \in Flag => mem'.runs[x] \in Flag
        /\ mem' \in Memory
    BY <1>1, <1>5, CacheRun
  <2>2. answered' = answered \/ answered' = answered \cup {[key |-> k, payload |-> p, run |-> r]}
    BY <1>2, <1>5 DEF Answer
  <2>3. TypeOK'
    BY <1>1, <1>5, <2>1, <2>2 DEF StoreInv, TypeOK, Files, Memory
  <2>4. Threaded' /\ LockHeld'
    BY <1>1, <1>5, <2>1 DEF StoreInv, Threaded, Standing, KeyOf, RunOf, LockHeld, Locking, Saving
  <2>5. SavedFirst' /\ ReceiptsReadable'
    BY <1>1, <1>5, <2>1, SMTT(30) DEF StoreInv, SavedFirst, ReceiptsReadable, Resaved
  <2>6. AnswersBound'
    BY <1>1, <2>1, <2>2 DEF StoreInv, AnswersBound
  <2>7. QED BY <2>3, <2>4, <2>5, <2>6 DEF StoreInv
<1>6. QED BY <1>1, <1>q, <1>4, <1>5 DEF Replay

LEMMA RegisterStep ==
  ASSUME StoreInv, UNCHANGED fault, NEW c \in Threads, Register(c)
  PROVE  StoreInv'
<1> DEFINE r == thread[c].run
<1>1. /\ thread[c].phase = "pipeline" /\ thread[c].left = <<>> /\ thread[c] \in Requested
      /\ UNCHANGED <<disk, lock, answered>> /\ lock = c /\ r \in Runs /\ ~thread[c].open
      /\ thread[c].payload \in Payloads /\ disk.meta[r] # "absent"
  BY Lists DEF Register, StoreInv, TypeOK, Files, Memory, Threaded, Standing, RunOf, LockHeld, Locking, Saving
<1>t. PICK t : t = [thread[c] EXCEPT !.phase = "save",
                      !.left = IF disk.receipt[r] = "absent" THEN <<"meta">> ELSE <<"meta", "receipt">>]
  OBVIOUS
<1>2. /\ t.phase = "save" /\ t.left \in {<<"meta">>, <<"meta", "receipt">>} /\ t.key = thread[c].key
      /\ t.payload = thread[c].payload /\ t.run = r /\ ~t.open /\ t \in Requested
  BY <1>1, <1>t DEF Requested, Phases, Locking, Saving, SaveLeft
<1>3. thread' = [thread EXCEPT ![c] = t]
  BY <1>t DEF Register, StoreInv, TypeOK, Files, Memory, Requested
<1>4. /\ mem'.bindings = mem.bindings /\ mem'.published = mem.published
      /\ mem'.runs = [mem.runs EXCEPT ![r] = "private"]
      /\ mem' \in Memory
  BY <1>1 DEF Register, StoreInv, TypeOK, Files, Memory, Flag
<1>5. TypeOK'
  BY <1>1, <1>2, <1>3, <1>4 DEF StoreInv, TypeOK, Files, Memory
<1>6. Standing(t) /\ KeyOf(t)' /\ RunOf(t)'
  BY <1>1, <1>2, <1>4, Lists, ZenonT(60)
     DEF Standing, KeyOf, RunOf, Saving, Locking, SaveLeft, Flag, StoreInv, TypeOK, Files, Memory, Threaded
<1>7. SavedFirst' /\ AnswersBound'
  BY <1>1, <1>4 DEF StoreInv, SavedFirst, AnswersBound
<1>8. ReceiptsReadable'
  <2>1. fault = "crash" => r \notin mem.published
    BY <1>1 DEF StoreInv, ReceiptsReadable, Saving
  <2>2. QED BY <1>1, <1>2, <1>3, <1>4, <2>1, Lists, ReceiptsKept
<1>9. QED BY <1>1, <1>2, <1>3, <1>5, <1>6, <1>7, <1>8, LockStep DEF Locking, Saving

(* The key was free until now, the run's metadata is saved.                *)
LEMMA BindStep ==
  ASSUME StoreInv, UNCHANGED fault, NEW c \in Threads, Bind(c)
  PROVE  StoreInv'
<1> DEFINE r == thread[c].run
           k == thread[c].key
           b == [payload |-> thread[c].payload, run |-> r]
<1>1. /\ thread[c].phase = "save" /\ thread[c].left = <<>> /\ thread[c] \in Requested
      /\ UNCHANGED <<disk, lock, answered>> /\ lock = c /\ r \in Runs /\ ~thread[c].open
      /\ thread[c].payload \in Payloads /\ disk.meta[r] # "absent" /\ k \in Keys
      /\ mem.bindings[k] = None /\ mem.runs[r] \in Flag
  BY Lists DEF Bind, StoreInv, TypeOK, Files, Memory, Threaded, Standing, KeyOf, RunOf, LockHeld, Locking, Saving, Requested
<1>t. PICK t : t = [thread[c] EXCEPT !.phase = "bind", !.left = <<"bindings">>]
  OBVIOUS
<1>2. /\ t.phase = "bind" /\ t.left = <<"bindings">> /\ t.key = k
      /\ t.payload = thread[c].payload /\ t.run = r /\ ~t.open /\ t \in Requested
  BY <1>1, <1>t DEF Requested, Phases, Locking, BindLeft
<1>3. thread' = [thread EXCEPT ![c] = t]
  BY <1>t DEF Bind, StoreInv, TypeOK, Files, Memory, Requested
<1>4. /\ mem'.runs = mem.runs /\ mem'.published = mem.published
      /\ mem'.bindings = [mem.bindings EXCEPT ![k] = b]
      /\ mem' \in Memory
  BY <1>1 DEF Bind, StoreInv, TypeOK, Files, Memory, Bindings, Binding
<1>5. TypeOK'
  BY <1>1, <1>2, <1>3, <1>4 DEF StoreInv, TypeOK, Files, Memory
<1>6. Standing(t) /\ KeyOf(t)' /\ RunOf(t)'
  BY <1>1, <1>2, <1>4, Lists
     DEF Standing, KeyOf, RunOf, Saving, Locking, BindLeft, StoreInv, TypeOK, Files, Memory, Bindings
<1>7. SavedFirst'
  BY <1>1, <1>4 DEF StoreInv, SavedFirst, TypeOK, Files, Memory, Bindings
<1>8. AnswersBound'
  <2>1. SUFFICES ASSUME fault = "write", NEW a \in answered, a.key \in Keys
                 PROVE  mem'.bindings[a.key] = [payload |-> a.payload, run |-> a.run]
    BY <1>1 DEF AnswersBound
  <2>2. mem.bindings[a.key] = [payload |-> a.payload, run |-> a.run]
    BY <2>1 DEF StoreInv, AnswersBound
  <2>3. [payload |-> a.payload, run |-> a.run] \in Binding
    BY <2>1 DEF StoreInv, TypeOK, Files, Memory, Binding
  <2>4. a.key # k
    BY <1>1, <2>2, <2>3, StoreAssumption DEF Binding
  <2>5. QED BY <1>4, <2>1, <2>2, <2>4 DEF StoreInv, TypeOK, Files, Memory, Bindings
<1>9. ReceiptsReadable'
  BY <1>1, <1>2, <1>3, <1>4, Lists, ReceiptsKept DEF Saving
<1>10. QED BY <1>1, <1>2, <1>3, <1>5, <1>6, <1>7, <1>8, <1>9, LockStep DEF Locking

LEMMA ReleaseStep ==
  ASSUME StoreInv, UNCHANGED <<fault, disk, mem>>, NEW c \in Threads, lock = c, Release(c),
         answered' = answered \/ (Answer(thread[c]) /\ thread[c].phase \in Locking \ Saving
                                  /\ thread[c].payload \in Payloads)
                             \/ (Answer(thread[c]) /\ thread[c].key = NoKey
                                  /\ thread[c].run \in Runs /\ thread[c].payload \in Payloads),
         fault = "crash" => thread[c].left # <<"receipt">>
  PROVE  StoreInv'
<1>t. PICK t : t = Idle
  OBVIOUS
<1>1. thread' = [thread EXCEPT ![c] = t] /\ lock' = None
  BY <1>t DEF Release
<1>2. t.phase = "idle" /\ t.key = NoKey /\ t.left = <<>> /\ ~t.open /\ t \in Requested
  BY <1>t DEF Idle, Requested, Phases, SaveLeft
<1>3. TypeOK'
  BY <1>1, <1>2 DEF StoreInv, TypeOK, Files, Memory, Requested, Threaded, Standing, Locking, Saving, Answer
<1>4. Standing(t) /\ KeyOf(t)' /\ RunOf(t)'
  BY <1>2 DEF Standing, KeyOf, RunOf, Saving, Locking
<1>5. SavedFirst'
  BY DEF StoreInv, SavedFirst
<1>6. AnswersBound'
  BY StoreAssumption DEF StoreInv, AnswersBound, Answer, Threaded, KeyOf, Locking, Saving
<1>7. ReceiptsReadable'
  BY <1>1, <1>2, ReceiptsKept DEF Saving
<1>8. QED BY <1>1, <1>2, <1>3, <1>4, <1>5, <1>6, <1>7, LockStep DEF Locking, Saving

LEMMA ConcludeStep ==
  ASSUME StoreInv, UNCHANGED fault, NEW c \in Threads, Conclude(c)
  PROVE  StoreInv'
<1>1. /\ thread[c].left = <<>> /\ disk' = disk /\ thread[c] \in Requested /\ lock = c
      /\ thread[c].phase = "bind" \/ (thread[c].phase = "save" /\ thread[c].key = NoKey)
      /\ thread[c].run \in Runs /\ ~thread[c].open /\ thread[c].payload \in Payloads
  BY DEF Conclude, StoreInv, TypeOK, Files, Memory, Threaded, Standing, LockHeld, Locking, Saving
<1>2. CASE disk.receipt[thread[c].run] = "valid" /\ EnterPublication(c, thread[c]) /\ UNCHANGED answered
  <2>1. thread[c].key \in Keys =>
          mem.bindings[thread[c].key] = [payload |-> thread[c].payload, run |-> thread[c].run]
    BY <1>1, StoreAssumption DEF StoreInv, Threaded, KeyOf
  <2>2. QED BY <1>1, <1>2, <2>1, EnterPublicationStep
<1>3. CASE Release(c) /\ UNCHANGED mem /\ (UNCHANGED answered \/ Answer(thread[c]))
  BY <1>1, <1>3, Lists, ReleaseStep DEF Locking, Saving
<1>4. QED BY <1>1, <1>2, <1>3 DEF Conclude

LEMMA FinishPublicationStep ==
  ASSUME StoreInv, UNCHANGED fault, NEW c \in Threads, FinishPublication(c)
  PROVE  StoreInv'
<1>1. /\ thread[c].left = <<>> /\ thread[c].phase = "publish" /\ Release(c) /\ UNCHANGED <<disk, mem>>
      /\ UNCHANGED answered \/ (thread[c].payload # None /\ Answer(thread[c]))
  BY DEF FinishPublication
<1>2. lock = c /\ thread[c] \in Requested
  BY <1>1 DEF StoreInv, LockHeld, TypeOK, Files, Memory, Locking
<1>3. QED BY <1>1, <1>2, Lists, ReleaseStep DEF Locking, Saving, Requested

(* Publishing an existing run: its receipt was readable when asked.        *)
LEMMA RequestPublicationStep ==
  ASSUME StoreInv, UNCHANGED fault, NEW c \in Threads, NEW r \in Runs, RequestPublication(c, r)
  PROVE  StoreInv'
<1>t. PICK t : t = [Idle EXCEPT !.phase = "waiting", !.run = r]
  OBVIOUS
<1>1. /\ t.phase = "waiting" /\ t.key = NoKey /\ t.run = r /\ t.left = <<>> /\ ~t.open
      /\ t \in Requested
  BY <1>t DEF Idle, Requested, Phases, SaveLeft
<1>2. /\ thread' = [thread EXCEPT ![c] = t] /\ thread[c].phase = "idle"
      /\ UNCHANGED <<disk, lock, answered>> /\ disk.receipt[r] = "valid"
  BY <1>t DEF RequestPublication
<1>3. /\ mem'.bindings = mem.bindings /\ mem'.published = mem.published
      /\ \A x \in Runs : mem.runs[x] \in Flag => mem'.runs[x] \in Flag
      /\ mem' \in Memory
  BY CacheRun DEF RequestPublication
<1>4. TypeOK'
  BY <1>1, <1>2, <1>3 DEF StoreInv, TypeOK, Files, Memory
<1>5. thread'[c] = t /\ \A d \in Threads \ {c} : thread'[d] = thread[d]
  BY <1>2 DEF StoreInv, TypeOK, Files, Memory
<1>6. LockHeld'
  BY <1>1, <1>2, <1>5 DEF StoreInv, LockHeld, Locking, Saving
<1>7. ASSUME NEW d \in Threads PROVE (Standing(thread[d]) /\ KeyOf(thread[d]) /\ RunOf(thread[d]))'
  <2>1. CASE d = c
    BY <1>1, <1>5, <2>1 DEF Standing, KeyOf, RunOf, Locking, Saving
  <2>2. CASE d # c
    BY <1>2, <1>3, <1>5, <2>2 DEF StoreInv, Threaded, Standing, KeyOf, RunOf, Locking, Saving
  <2>3. QED BY <2>1, <2>2
<1>8. SavedFirst' /\ AnswersBound'
  BY <1>2, <1>3 DEF StoreInv, SavedFirst, AnswersBound
<1>9. ReceiptsReadable'
  BY <1>1, <1>2, <1>3, ReceiptsKept DEF Saving
<1>10. Threaded'
  BY <1>7 DEF Threaded
<1>11. QED BY <1>4, <1>6, <1>8, <1>9, <1>10 DEF StoreInv

(* Nobody saves the run any more when the lock is free.                    *)
LEMMA StartPublicationStep ==
  ASSUME StoreInv, UNCHANGED fault, NEW c \in Threads, StartPublication(c)
  PROVE  StoreInv'
<1>1. /\ thread[c].phase = "waiting" /\ lock = None /\ EnterPublication(c, thread[c])
      /\ UNCHANGED <<disk, answered>>
  BY DEF StartPublication
<1>2. /\ thread[c] \in Requested /\ thread[c].run \in Runs /\ ~thread[c].open
      /\ thread[c].left = <<>> /\ thread[c].key = NoKey
  BY <1>1 DEF StoreInv, TypeOK, Files, Memory, Threaded, Standing
<1>3. ~Resaved(thread[c].run)
  BY <1>1, StoreAssumption DEF StoreInv, LockHeld, Resaved, Locking
<1>4. fault = "crash" => disk.receipt[thread[c].run] = "valid"
  BY <1>1, <1>3 DEF StoreInv, ReceiptsReadable
<1>5. QED BY <1>1, <1>2, <1>4, StoreAssumption, EnterPublicationStep

-----------------------------------------------------------------------------
(* What writing one file does to the disk; a metadata file stays there.    *)
LEMMA PutFile ==
  ASSUME StoreInv, NEW r \in Runs, NEW x, NEW file \in {"meta", "receipt", "bindings", "published"},
         disk' = Put(file, r, x),
         file = "meta" => x \in Metadata \ {"absent"},
         file = "receipt" => x \in Receipts,
         file = "bindings" => x \in Bindings \cup {Torn},
         file = "published" => x \in (SUBSET Runs) \cup {Torn}
  PROVE  /\ disk' \in Files
         /\ disk'.receipt = IF file = "receipt" THEN [disk.receipt EXCEPT ![r] = x] ELSE disk.receipt
         /\ disk'.bindings = IF file = "bindings" THEN x ELSE disk.bindings
         /\ \A q \in Runs : disk.meta[q] # "absent" => disk'.meta[q] # "absent"
         /\ file = "meta" => disk'.meta[r] # "absent"
<1>1. CASE file = "meta"
  <2>1. disk' = [disk EXCEPT !.meta = [disk.meta EXCEPT ![r] = x]]
    BY <1>1 DEF Put, StoreInv, TypeOK, Files, Memory
  <2>2. [disk.meta EXCEPT ![r] = x] \in [Runs -> Metadata]
    BY <1>1 DEF StoreInv, TypeOK, Files, Memory
  <2>3. QED BY <1>1, <2>1, <2>2 DEF StoreInv, TypeOK, Files, Memory
<1>2. CASE file = "receipt"
  <2>1. disk' = [disk EXCEPT !.receipt = [disk.receipt EXCEPT ![r] = x]]
    BY <1>2 DEF Put, StoreInv, TypeOK, Files, Memory
  <2>2. [disk.receipt EXCEPT ![r] = x] \in [Runs -> Receipts]
    BY <1>2 DEF StoreInv, TypeOK, Files, Memory
  <2>3. QED BY <1>2, <2>1, <2>2 DEF StoreInv, TypeOK, Files, Memory
<1>3. CASE file = "bindings"
  BY <1>3 DEF Put, StoreInv, TypeOK, Files, Memory
<1>4. CASE file = "published"
  BY <1>4 DEF Put, StoreInv, TypeOK, Files, Memory
<1>5. QED BY <1>1, <1>2, <1>3, <1>4

(* A thread with files left has the lock, and the file is one of its phase.*)
LEMMA Writing ==
  ASSUME StoreInv, NEW c \in Threads, thread[c].left # <<>>
  PROVE  /\ lock = c /\ thread[c] \in Requested /\ thread[c].run \in Runs
         /\ thread[c].phase \in Locking
         /\ Head(thread[c].left) \in {"meta", "receipt", "bindings", "published"}
         /\ Head(thread[c].left) = "receipt" =>
              /\ thread[c].phase \in Saving /\ thread[c].left = <<"receipt">>
              /\ disk.meta[thread[c].run] # "absent"
         /\ thread[c].left = <<"receipt">> => Head(thread[c].left) = "receipt"
         /\ Head(thread[c].left) = "meta" =>
              thread[c].phase = "pipeline" \/ mem.runs[thread[c].run] \in Flag
<1>1. thread[c].phase \in Locking /\ thread[c] \in Requested
  BY DEF StoreInv, TypeOK, Files, Memory, Threaded, Standing, Requested, Phases
<1>2. thread[c].left \in SaveLeft \cup BindLeft \cup PublishLeft
  BY <1>1 DEF Requested
<1>3. QED
  BY <1>1, <1>2, Lists DEF StoreInv, Threaded, Standing, RunOf, LockHeld, Locking, Saving,
     SaveLeft, BindLeft, PublishLeft

(* A run's metadata file, once opened, is there for good.                  *)
LEMMA OpenStep ==
  ASSUME StoreInv, UNCHANGED fault, NEW c \in Threads, Open(c)
  PROVE  StoreInv'
<1> DEFINE r == thread[c].run
           file == Head(thread[c].left)
<1>1. /\ thread[c].left # <<>> /\ UNCHANGED <<mem, lock, answered>> /\ lock = c
      /\ thread[c] \in Requested /\ r \in Runs /\ thread[c].phase \in Locking
      /\ disk' = Put(file, r, Torn)
  BY Writing DEF Open
<1>t. PICK t : t = [thread[c] EXCEPT !.open = TRUE]
  OBVIOUS
<1>2. /\ t.phase = thread[c].phase /\ t.left = thread[c].left /\ t.key = thread[c].key
      /\ t.payload = thread[c].payload /\ t.run = r /\ t.open /\ t \in Requested
  BY <1>1, <1>t DEF Requested
<1>3. thread' = [thread EXCEPT ![c] = t]
  BY <1>1, <1>t DEF Open, StoreInv, TypeOK, Files, Memory, Requested
<1>4. /\ disk' \in Files
      /\ file # "receipt" => disk'.receipt = disk.receipt
      /\ file = "receipt" => disk'.receipt = [disk.receipt EXCEPT ![r] = Torn]
      /\ disk'.bindings \in {Torn, disk.bindings}
      /\ \A q \in Runs : disk.meta[q] # "absent" => disk'.meta[q] # "absent"
  <2>1. file \in {"meta", "receipt", "bindings", "published"}
    BY <1>1, Writing
  <2>2. /\ Torn \in Metadata \ {"absent"} /\ Torn \in Receipts
        /\ Torn \in Bindings \cup {Torn} /\ Torn \in (SUBSET Runs) \cup {Torn}
    BY StoreAssumption DEF Metadata, Receipts
  <2> HIDE DEF file, r
  <2>3. /\ disk' \in Files
        /\ disk'.receipt = IF file = "receipt" THEN [disk.receipt EXCEPT ![r] = Torn] ELSE disk.receipt
        /\ disk'.bindings = IF file = "bindings" THEN Torn ELSE disk.bindings
        /\ \A q \in Runs : disk.meta[q] # "absent" => disk'.meta[q] # "absent"
        /\ file = "meta" => disk'.meta[r] # "absent"
    BY <1>1, <2>1, <2>2, PutFile
  <2>4. QED BY <2>3
<1>5. TypeOK'
  BY <1>1, <1>2, <1>3, <1>4 DEF StoreInv, TypeOK, Files, Memory
<1>6. Standing(t) /\ KeyOf(t)' /\ RunOf(t)'
  BY <1>1, <1>2, <1>4 DEF StoreInv, Threaded, Standing, KeyOf, RunOf, Saving, Locking
<1>7. SavedFirst'
  <2>1. \A q \in Runs : disk'.receipt[q] # "absent" => disk'.meta[q] # "absent"
    BY <1>1, <1>4, Writing DEF StoreInv, SavedFirst, TypeOK, Files, Memory
  <2>2. QED BY <1>1, <1>4, <2>1, ZenonT(60) DEF StoreInv, SavedFirst, TypeOK, Files, Memory, Bindings, Binding
<1>8. AnswersBound'
  BY <1>1 DEF StoreInv, AnswersBound
<1>9. ReceiptsReadable'
  <2>0. SUFFICES ASSUME fault = "crash" PROVE ReceiptsReadable'
    BY DEF ReceiptsReadable
  <2>1. thread[c].phase \in Saving => r \notin mem.published
    BY <2>0, <1>1 DEF StoreInv, ReceiptsReadable
  <2>2. CASE file # "receipt"
    <3>1. thread[c].left # <<"receipt">>
      BY <1>1, <2>2, Writing
    <3>2. QED BY <1>1, <1>2, <1>3, <1>4, <2>1, <2>2, <3>1, ReceiptsKept DEF Locking, Saving
  <2>3. CASE file = "receipt"
    <3>1. thread'[c] = t /\ \A d \in Threads \ {c} : thread'[d] = thread[d]
      BY <1>3 DEF StoreInv, TypeOK, Files, Memory
    <3>2. thread[c].phase \in Saving /\ thread[c].left = <<"receipt">>
      BY <1>1, <2>3, Writing
    <3>3. Resaved(r)'
      BY <1>2, <3>1, <3>2 DEF Resaved
    <3>4. ASSUME NEW q, Resaved(q) PROVE Resaved(q)'
      BY <1>2, <3>1, <3>4 DEF Resaved
    <3>5. ASSUME NEW q \in mem'.published
          PROVE  /\ disk'.receipt[q] = "valid"
                 /\ \A d \in Threads : ~(thread'[d].phase \in Saving /\ thread'[d].run = q)
      BY <1>1, <1>2, <1>4, <2>0, <2>1, <2>3, <3>1, <3>2 DEF StoreInv, ReceiptsReadable, TypeOK, Files, Memory
    <3>6. ASSUME NEW d \in Threads, thread'[d].phase = "waiting"
          PROVE  disk'.receipt[thread'[d].run] = "valid" \/ Resaved(thread[d].run)'
      <4>1. thread'[d] = thread[d]
        BY <1>2, <3>1, <3>2, <3>6 DEF Saving
      <4>2. thread[d].run \in Runs /\ (disk.receipt[thread[d].run] = "valid" \/ Resaved(thread[d].run))
        BY <2>0, <3>6, <4>1 DEF StoreInv, ReceiptsReadable, Threaded, Standing
      <4>3. CASE thread[d].run = r
        BY <1>2, <3>1, <3>3, <4>1, <4>3
      <4>4. CASE thread[d].run # r
        BY <1>4, <2>3, <3>4, <4>1, <4>2, <4>4 DEF StoreInv, TypeOK, Files, Memory
      <4>5. QED BY <4>3, <4>4
    <3>7. \A d \in Threads : thread'[d].phase = "waiting" => thread'[d] = thread[d]
      BY <1>2, <3>1, <3>2 DEF Saving
    <3>8. QED BY <3>5, <3>6, <3>7 DEF ReceiptsReadable
  <2>4. QED BY <2>2, <2>3
<1>10. QED BY <1>1, <1>2, <1>3, <1>5, <1>6, <1>7, <1>8, <1>9, LockStep

LEMMA FillStep ==
  ASSUME StoreInv, UNCHANGED fault, NEW c \in Threads, Fill(c)
  PROVE  StoreInv'
<1> DEFINE r == thread[c].run
           file == Head(thread[c].left)
           content == Content(file, r, thread[c].phase)
<1>1. /\ thread[c].left # <<>> /\ UNCHANGED <<mem, lock, answered>> /\ lock = c
      /\ thread[c] \in Requested /\ r \in Runs /\ thread[c].phase \in Locking
      /\ disk' = Put(file, r, content)
  BY Writing DEF Fill
<1>t. PICK t : t = [thread[c] EXCEPT !.open = FALSE, !.left = Tail(thread[c].left)]
  OBVIOUS
<1>l. /\ Tail(thread[c].left) \in SaveLeft \cup BindLeft \cup PublishLeft
      /\ thread[c].left \in SaveLeft => Tail(thread[c].left) \in {<<>>, <<"receipt">>}
      /\ thread[c].left \in BindLeft => Tail(thread[c].left) \in BindLeft
      /\ thread[c].left \in PublishLeft => Tail(thread[c].left) \in PublishLeft
      /\ file = "receipt" => Tail(thread[c].left) = <<>>
  BY <1>1, Lists DEF Requested, SaveLeft, BindLeft, PublishLeft
<1>2. /\ t.phase = thread[c].phase /\ t.left = Tail(thread[c].left) /\ t.key = thread[c].key
      /\ t.payload = thread[c].payload /\ t.run = r /\ ~t.open /\ t \in Requested
  BY <1>1, <1>t, <1>l DEF Requested
<1>3. thread' = [thread EXCEPT ![c] = t]
  BY <1>1, <1>t DEF Fill, StoreInv, TypeOK, Files, Memory, Requested
<1>4. /\ file = "meta" => content \in Flag
      /\ file = "receipt" => content = "valid"
      /\ file = "bindings" => content = mem.bindings
      /\ file = "published" => content = mem.published
  BY <1>1, Writing DEF Content, Flag
<1> HIDE DEF content
<1>5. /\ disk' \in Files
      /\ file # "receipt" => disk'.receipt = disk.receipt
      /\ file = "receipt" => disk'.receipt = [disk.receipt EXCEPT ![r] = "valid"]
      /\ disk'.bindings \in {mem.bindings, disk.bindings}
      /\ \A q \in Runs : disk.meta[q] # "absent" => disk'.meta[q] # "absent"
      /\ file = "meta" => disk'.meta[r] # "absent"
  <2>1. file \in {"meta", "receipt", "bindings", "published"}
    BY <1>1, Writing
  <2>2. Flag \subseteq Metadata \ {"absent"} /\ "valid" \in Receipts
    BY DEF Flag, Metadata, Receipts
  <2>3. mem.bindings \in Bindings \cup {Torn} /\ mem.published \in (SUBSET Runs) \cup {Torn}
    BY DEF StoreInv, TypeOK, Files, Memory
  <2> HIDE DEF file, r
  <2>4. /\ disk' \in Files
        /\ disk'.receipt = IF file = "receipt" THEN [disk.receipt EXCEPT ![r] = content] ELSE disk.receipt
        /\ disk'.bindings = IF file = "bindings" THEN content ELSE disk.bindings
        /\ \A q \in Runs : disk.meta[q] # "absent" => disk'.meta[q] # "absent"
        /\ file = "meta" => disk'.meta[r] # "absent"
    BY <1>1, <1>4, <2>1, <2>2, <2>3, PutFile
  <2>5. QED BY <1>4, <2>4
<1>6. TypeOK'
  BY <1>1, <1>2, <1>3, <1>5 DEF StoreInv, TypeOK, Files, Memory
<1>7. disk'.meta[r] # "absent" \/ thread[c].phase \notin Saving
  BY <1>1, <1>5, Lists DEF StoreInv, Threaded, RunOf
<1>8. Standing(t) /\ KeyOf(t)' /\ RunOf(t)'
  BY <1>1, <1>2, <1>l, <1>7
     DEF StoreInv, Threaded, Standing, KeyOf, RunOf, Saving, Locking, SaveLeft
<1>9. SavedFirst'
  <2>1. \A q \in Runs : disk'.receipt[q] # "absent" => disk'.meta[q] # "absent"
    BY <1>1, <1>5, Writing DEF StoreInv, SavedFirst, TypeOK, Files, Memory
  <2>2. \A k \in Keys : mem.bindings[k] # None => disk'.meta[mem.bindings[k].run] # "absent"
    BY <1>5 DEF StoreInv, SavedFirst, TypeOK, Files, Memory, Bindings, Binding
  <2>3. disk.bindings # Torn =>
          \A k \in Keys : disk.bindings[k] # None => disk'.meta[disk.bindings[k].run] # "absent"
    BY <1>5 DEF StoreInv, SavedFirst, TypeOK, Files, Memory, Bindings, Binding
  <2>4. QED BY <1>1, <1>5, <2>1, <2>2, <2>3 DEF SavedFirst
<1>10. AnswersBound'
  BY <1>1 DEF StoreInv, AnswersBound
<1>11. ReceiptsReadable'
  <2>0. SUFFICES ASSUME fault = "crash" PROVE ReceiptsReadable'
    BY DEF ReceiptsReadable
  <2>1. thread[c].phase \in Saving => r \notin mem.published
    BY <2>0, <1>1 DEF StoreInv, ReceiptsReadable
  <2>2. CASE file # "receipt"
    <3>1. thread[c].left # <<"receipt">>
      BY <1>1, <2>2, Writing
    <3>2. QED BY <1>1, <1>2, <1>3, <1>5, <2>1, <2>2, <3>1, ReceiptsKept DEF Locking, Saving
  <2>3. CASE file = "receipt"
    <3>1. thread'[c] = t /\ \A d \in Threads \ {c} : thread'[d] = thread[d]
      BY <1>3 DEF StoreInv, TypeOK, Files, Memory
    <3>2. thread[c].phase \in Saving
      BY <1>1, <2>3, Writing
    <3>3. \A d \in Threads \ {c} : thread[d].phase \notin Saving
      BY <1>1 DEF StoreInv, LockHeld, Locking
    <3>4. ASSUME NEW q \in mem'.published
          PROVE  /\ disk'.receipt[q] = "valid"
                 /\ \A d \in Threads : ~(thread'[d].phase \in Saving /\ thread'[d].run = q)
      BY <1>1, <1>2, <1>5, <2>0, <2>1, <2>3, <3>1, <3>2 DEF StoreInv, ReceiptsReadable, TypeOK, Files, Memory
    <3>5. ASSUME NEW d \in Threads, thread'[d].phase = "waiting"
          PROVE  disk'.receipt[thread'[d].run] = "valid"
      <4>1. thread'[d] = thread[d]
        BY <1>2, <3>1, <3>2, <3>5 DEF Saving
      <4>2. thread[d].run \in Runs /\ (disk.receipt[thread[d].run] = "valid" \/ Resaved(thread[d].run))
        BY <2>0, <3>5, <4>1 DEF StoreInv, ReceiptsReadable, Threaded, Standing
      <4>3. Resaved(thread[d].run) => thread[d].run = r
        BY <3>3 DEF Resaved
      <4>4. QED BY <1>5, <2>3, <4>1, <4>2, <4>3 DEF StoreInv, TypeOK, Files, Memory
    <3>6. QED BY <3>4, <3>5 DEF ReceiptsReadable
  <2>4. QED BY <2>2, <2>3
<1>12. QED BY <1>1, <1>2, <1>3, <1>6, <1>8, <1>9, <1>10, <1>11, LockStep

(* Only the metadata of a publication may fail without ending the request. *)
LEMMA WriteFailsStep ==
  ASSUME StoreInv, UNCHANGED fault, NEW c \in Threads, WriteFails(c)
  PROVE  StoreInv'
<1>1. /\ thread[c].left # <<>> /\ fault = "write" /\ UNCHANGED <<disk, mem, answered>> /\ lock = c
      /\ thread[c] \in Requested /\ thread[c].run \in Runs /\ thread[c].phase \in Locking
  BY Writing DEF WriteFails
<1>2. CASE Release(c)
  BY <1>1, <1>2, ReleaseStep
<1>3. CASE /\ thread[c].phase = "publish" /\ Head(thread[c].left) = "meta" /\ UNCHANGED lock
           /\ thread' = [thread EXCEPT ![c].open = FALSE, ![c].left = Tail(thread[c].left)]
  <2>t. PICK t : t = [thread[c] EXCEPT !.open = FALSE, !.left = Tail(thread[c].left)]
    OBVIOUS
  <2>1. Tail(thread[c].left) \in PublishLeft
    BY <1>1, <1>3, Lists DEF StoreInv, Threaded, Standing, PublishLeft
  <2>2. /\ t.phase = thread[c].phase /\ t.left = Tail(thread[c].left) /\ t.key = thread[c].key
        /\ t.payload = thread[c].payload /\ t.run = thread[c].run /\ ~t.open /\ t \in Requested
    BY <1>1, <2>t, <2>1 DEF Requested
  <2>3. thread' = [thread EXCEPT ![c] = t]
    BY <1>1, <1>3, <2>t DEF StoreInv, TypeOK, Files, Memory, Requested
  <2>4. TypeOK'
    BY <1>1, <1>3, <2>2, <2>3 DEF StoreInv, TypeOK, Files, Memory
  <2>5. Standing(t) /\ KeyOf(t)' /\ RunOf(t)'
    BY <1>1, <1>3, <2>1, <2>2 DEF StoreInv, Threaded, Standing, KeyOf, RunOf, Saving, Locking
  <2>6. SavedFirst' /\ AnswersBound' /\ ReceiptsReadable'
    BY <1>1 DEF StoreInv, SavedFirst, AnswersBound, ReceiptsReadable
  <2>7. QED BY <1>1, <1>3, <2>2, <2>3, <2>4, <2>5, <2>6, LockStep
<1>4. QED BY <1>2, <1>3 DEF WriteFails

(* What a new process reads from the disk.                                 *)
LEMMA CrashStep ==
  ASSUME StoreInv, UNCHANGED fault, Crash
  PROVE  StoreInv'
<1>1. /\ fault = "crash" /\ mem' = Recovered /\ lock' = None /\ UNCHANGED <<disk, answered>>
      /\ thread' = [c \in Threads |-> Idle]
  BY DEF Crash
<1>2. /\ mem'.bindings = IF disk.bindings = Torn THEN [k \in Keys |-> None] ELSE disk.bindings
      /\ mem'.published = {r \in Runs : disk.meta[r] = "public" /\ disk.receipt[r] = "valid"}
      /\ mem' \in Memory
  <2>1. mem'.runs \in [Runs -> {"absent"} \cup Flag]
    BY <1>1 DEF Recovered, Flag
  <2>2. QED BY <1>1, <2>1 DEF Recovered, StoreInv, TypeOK, Files, Memory, Bindings
<1>3. \A c \in Threads : /\ thread'[c].phase = "idle" /\ thread'[c].left = <<>> /\ ~thread'[c].open
                         /\ thread'[c].key = NoKey
  BY <1>1 DEF Idle
<1>4. TypeOK'
  <2>1. Idle \in Requested
    BY DEF Idle, Requested, Phases, SaveLeft
  <2>2. QED BY <1>1, <1>2, <2>1 DEF StoreInv, TypeOK, Files, Memory
<1>5. Threaded'
  BY <1>3, StoreAssumption DEF Threaded, Standing, KeyOf, RunOf, Locking, Saving
<1>6. LockHeld'
  BY <1>1, <1>3, StoreAssumption DEF LockHeld, Locking, Saving
<1>7. SavedFirst'
  BY <1>1, <1>2 DEF StoreInv, SavedFirst
<1>8. AnswersBound' /\ ReceiptsReadable'
  BY <1>1, <1>2, <1>3 DEF AnswersBound, ReceiptsReadable, Saving
<1>9. QED BY <1>4, <1>5, <1>6, <1>7, <1>8 DEF StoreInv

-----------------------------------------------------------------------------
LEMMA StoreStep == StoreInv /\ [Next]_vars => StoreInv'
<1> SUFFICES ASSUME StoreInv, [Next]_vars PROVE StoreInv'
  OBVIOUS
<1>1. CASE UNCHANGED vars
  BY <1>1, ZenonT(60) DEF vars, StoreInv, TypeOK, Files, Memory, Threaded, Standing, KeyOf, RunOf, LockHeld, SavedFirst,
     AnswersBound, ReceiptsReadable, Resaved
<1>2. ASSUME NEW c \in Threads, UNCHANGED fault, Serve(c) PROVE StoreInv'
  <2>1. ASSUME NEW k \in Keys \cup {NoKey}, NEW p \in Payloads, Replay(c, k, p) PROVE StoreInv'
    BY <1>2, <2>1, ReplayStep
  <2>2. ASSUME NEW k \in Keys \cup {NoKey}, NEW p \in Payloads, NEW r \in Runs,
               NEW files \in {<<"meta">>, <<"meta", "receipt">>}, Execute(c, k, p, r, files)
        PROVE  StoreInv'
    BY <1>2, <2>2, ExecuteStep
  <2>3. ASSUME NEW r \in Runs, RequestPublication(c, r) PROVE StoreInv'
    BY <1>2, <2>3, RequestPublicationStep
  <2>4. CASE StartPublication(c)
    BY <1>2, <2>4, StartPublicationStep
  <2>5. CASE Refuse(c)
    BY <1>1, <2>5 DEF Refuse
  <2>6. QED BY <1>2, <2>1, <2>2, <2>3, <2>4, <2>5 DEF Serve
<1>3. ASSUME NEW c \in Threads, UNCHANGED fault, Continue(c) PROVE StoreInv'
  BY <1>3, RegisterStep, BindStep, ConcludeStep, FinishPublicationStep, OpenStep, FillStep
     DEF Continue
<1>4. QED BY <1>1, <1>2, <1>3, WriteFailsStep, CrashStep DEF Next

(* What a request knows where it stands holds at every step.               *)
THEOREM StoreInvariant == Spec => []StoreInv
<1>1. Init => StoreInv
  BY StoreInit
<1>2. QED BY <1>1, StoreStep, PTL DEF Spec

(* Whatever threads race and writes fail, an idempotency key is answered   *)
(* with one run and one payload: all its answers are those of its binding, *)
(* which in a process that lives is never replaced (create_or_get_run).    *)
THEOREM KeysAnsweredOnce == Spec => []AnswersAgree
<1>1. StoreInv => AnswersAgree
  <2> SUFFICES ASSUME StoreInv, fault = "write", NEW a \in answered, NEW b \in answered,
                      a.key = b.key, a.key # NoKey
               PROVE  a = b
    BY DEF AnswersAgree
  <2>1. /\ a \in [key : Keys \cup {NoKey}, payload : Payloads, run : Runs]
        /\ b \in [key : Keys \cup {NoKey}, payload : Payloads, run : Runs]
    BY DEF StoreInv, TypeOK, Files, Memory
  <2>2. [payload |-> a.payload, run |-> a.run] = [payload |-> b.payload, run |-> b.run]
    BY <2>1 DEF StoreInv, AnswersBound
  <2>3. a.payload = b.payload /\ a.run = b.run
    BY <2>2
  <2>4. QED BY <2>1, <2>3
<1>2. QED BY <1>1, StoreInvariant, PTL

(* A binding names a run whose metadata was saved before it, on disk at any*)
(* step the process could die at (persist_run before idempotency.json).    *)
THEOREM BindingsNameSavedRuns == Spec => []BindingOnSavedRun
<1>1. StoreInv => BindingOnSavedRun
  BY DEF StoreInv, SavedFirst, BindingOnSavedRun, Bound
<1>2. QED BY <1>1, StoreInvariant, PTL

(* A run listed as published has a readable receipt, however the process   *)
(* dies: nobody saves the receipt of a published run again (publish_run).  *)
THEOREM PublishedReadable == Spec => []PublishedReceiptValid
<1>1. StoreInv => PublishedReceiptValid
  BY DEF StoreInv, ReceiptsReadable, PublishedReceiptValid
<1>2. QED BY <1>1, StoreInvariant, PTL

=============================================================================
