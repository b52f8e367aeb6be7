----------------------- MODULE LiveVerification_proofs -----------------------
(***************************************************************************)
(* Proofs about the sandbox adapter, for any callers, and about the live   *)
(* verification that calls it, for any number of sandboxes, operations and *)
(* faults.  The first invariant is the adapter's, and every step of the    *)
(* verification keeps it; the others say what the worker knows at its place*)
(* in the program.                                                         *)
(***************************************************************************)
EXTENDS LiveVerification, SequenceTheorems, FiniteSetTheorems, TLAPS

States == {"CREATED", "RUNNING", "COMPLETED", "FAILED", "DISPOSED"}
Statuses == {"SENT", "RUNNING"} \cup Terminal

Handle == [state : States, op : Nat \cup {None}, image : SUBSET Nat, checked : BOOLEAN]
Operation ==
    [sandbox : Nat, from : SUBSET Nat, keeps : BOOLEAN, status : Statuses, exit : {0, 1, None},
     told : BOOLEAN, seen : BOOLEAN, unheard : BOOLEAN,
     late : BOOLEAN]

AdapterTypeOK ==
    /\ handles \in Seq(Handle) /\ operations \in Seq(Operation)
    /\ call \in [sandbox : Nat, op : Nat] \cup {None}
    /\ live \in Seq(Nat)

Succeeded(i) == i \in DOMAIN operations /\ operations[i].status = "SUCCESS"

\* The operation is one a later command of its sandbox must build on.
Leaves(i, s) ==
    /\ operations[i].sandbox = s /\ operations[i].seen /\ operations[i].keeps
    /\ operations[i].status = "SUCCESS"

\* The command being polled is the last sent, and that of its running handle.
Placed ==
    /\ \A i \in DOMAIN operations : operations[i].sandbox <= Len(handles)
    /\ \A s \in DOMAIN handles : handles[s].op # None => handles[s].op \in DOMAIN operations
    /\ call # None =>
           /\ call.op = Len(operations) /\ call.op # 0
           /\ call.sandbox = operations[call.op].sandbox /\ ~operations[call.op].seen
           /\ call.sandbox # 0 => /\ handles[call.sandbox].state = "RUNNING"
                                  /\ handles[call.sandbox].op = call.op

Ended ==
    \A i \in DOMAIN operations :
        /\ operations[i].seen => operations[i].status \in Terminal
        /\ operations[i].status = "SENT" => ~operations[i].told
        /\ operations[i].exit = 0 => operations[i].status = "SUCCESS"

Disposed ==
    \A s \in DOMAIN handles : handles[s].checked =>
        /\ handles[s].state = "DISPOSED"
        /\ \A i \in DOMAIN operations :
               operations[i].sandbox = s /\ operations[i].status = "RUNNING" =>
                   operations[i].late /\ ~operations[i].told

\* A handle's image holds what its sandbox's commands left, and so does what a
\* command starts from.
ImagesHold ==
    \A s \in DOMAIN handles :
        /\ \A i \in handles[s].image : Succeeded(i)
        /\ \A i \in DOMAIN operations : Leaves(i, s) => i \in handles[s].image

StartsHold ==
    \A j \in DOMAIN operations :
        /\ \A i \in operations[j].from : i \in 1..(j - 1) /\ Succeeded(i)
        /\ operations[j].sandbox # 0 =>
               \A i \in 1..(j - 1) : Leaves(i, operations[j].sandbox) => i \in operations[j].from

\* What is counted as executed live is what was seen to end with an exit code.
Counted ==
    /\ \A k \in DOMAIN live : live[k] \in DOMAIN operations
    /\ \A i \in DOMAIN operations :
           (operations[i].seen /\ operations[i].exit # None) <=> (\E k \in DOMAIN live : live[k] = i)

AdapterInv ==
    AdapterTypeOK /\ Placed /\ Ended /\ Disposed /\ ImagesHold /\ StartsHold /\ Counted

\* Nothing is known to run in the sandbox, or the operation came after.
Late(o) == o.sandbox # 0 /\ handles[o.sandbox].checked => o.late /\ ~o.told

\* In a step operations may end, or be asked to, or reach the provider after all,
\* and nothing else befalls them.
OnlyEnd ==
    /\ operations' \in Seq(Operation) /\ Len(operations') = Len(operations)
    /\ DOMAIN operations' = DOMAIN operations
    /\ \A j \in DOMAIN operations :
           /\ operations'[j].sandbox = operations[j].sandbox
           /\ operations'[j].from = operations[j].from
           /\ operations'[j].keeps = operations[j].keeps
           /\ operations'[j].seen = operations[j].seen
           /\ operations'[j].told = operations[j].told
           /\ operations[j].status \in Terminal =>
                  /\ operations'[j].status = operations[j].status
                  /\ operations'[j].exit = operations[j].exit
           /\ operations'[j].status = "SENT" => operations[j].status = "SENT"
           /\ operations'[j].status = "RUNNING" =>
                  \/ operations[j].status = "RUNNING" /\ operations'[j].late = operations[j].late
                  \/ ~operations[j].told /\ Late(operations'[j])
           /\ operations'[j].exit = 0 => operations'[j].status = "SUCCESS"

-----------------------------------------------------------------------------
\* A sequence with one element replaced, and with one more.
LEMMA Replaced ==
    ASSUME NEW S, NEW q \in Seq(S), NEW i \in DOMAIN q, NEW x \in S, NEW r, r = [q EXCEPT ![i] = x]
    PROVE  /\ r \in Seq(S) /\ Len(r) = Len(q) /\ DOMAIN r = DOMAIN q /\ r[i] = x
           /\ \A j \in DOMAIN q : j # i => r[j] = q[j]
BY ExceptSeq

LEMMA Appended ==
    ASSUME NEW S, NEW q \in Seq(S), NEW x \in S, NEW r, r = Append(q, x)
    PROVE  /\ r \in Seq(S) /\ Len(r) = Len(q) + 1 /\ r[Len(q) + 1] = x
           /\ DOMAIN q = 1..Len(q) /\ DOMAIN r = 1..(Len(q) + 1)
           /\ \A j \in DOMAIN q : r[j] = q[j]
BY AppendProperties

LEMMA AdapterStart == AdapterInit => AdapterInv
BY DEF AdapterInit, AdapterInv, AdapterTypeOK, Placed, Ended, Disposed, ImagesHold, StartsHold, Counted

\* A step that sends no command and takes no result: operations may end, sandboxes be
\* disposed of when nothing runs in them, a call be given up.
LEMMA Amended ==
    ASSUME AdapterInv, OnlyEnd,
           handles' \in Seq(Handle), Len(handles') = Len(handles),
           \A s \in DOMAIN handles :
               /\ handles'[s].image = handles[s].image /\ handles'[s].op = handles[s].op
               /\ handles[s].checked => handles'[s].state = "DISPOSED"
               /\ handles'[s].checked /\ ~handles[s].checked =>
                      /\ handles'[s].state = "DISPOSED"
                      /\ \A j \in DOMAIN operations : operations'[j].status # "RUNNING",
           call' = None \/ (call' = call /\ handles' = handles),
           live' = live
    PROVE  AdapterInv'
<1> USE DEF OnlyEnd
<1>1. DOMAIN operations' = DOMAIN operations /\ DOMAIN handles' = DOMAIN handles
      /\ DOMAIN operations = 1..Len(operations) /\ DOMAIN handles = 1..Len(handles)
      /\ Len(operations) \in Nat /\ Len(handles) \in Nat
    BY DEF AdapterInv, AdapterTypeOK
<1>2. AdapterTypeOK'
    BY DEF AdapterInv, AdapterTypeOK
<1>3. Placed'
    <2>1. \A i \in DOMAIN operations : operations'[i].sandbox <= Len(handles)
        BY DEF AdapterInv, Placed
    <2>0. \A s \in DOMAIN handles : handles'[s].op # None => handles'[s].op \in DOMAIN operations
        BY DEF AdapterInv, Placed
    <2>2. CASE call' = None
        BY <1>1, <2>0, <2>1, <2>2 DEF Placed
    <2>3. CASE call' = call /\ handles' = handles /\ call # None
        <3>1. Len(operations) \in DOMAIN operations
            BY <1>1, <2>3 DEF AdapterInv, AdapterTypeOK, Placed
        <3> QED BY <1>1, <2>0, <2>1, <2>3, <3>1 DEF AdapterInv, Placed
    <2> QED BY <2>2, <2>3
<1>4. Ended'
    BY <1>1 DEF AdapterInv, Ended
<1>5. Disposed'
    <2> SUFFICES ASSUME NEW s \in DOMAIN handles, handles'[s].checked
                 PROVE  /\ handles'[s].state = "DISPOSED"
                        /\ \A i \in DOMAIN operations :
                               operations'[i].sandbox = s /\ operations'[i].status = "RUNNING" =>
                                   operations'[i].late /\ ~operations'[i].told
        BY <1>1 DEF Disposed
    <2>1. CASE handles[s].checked
        <3>1. s # 0
            BY <1>1
        <3> QED BY <2>1, <3>1 DEF AdapterInv, Disposed, Late
    <2>2. CASE ~handles[s].checked
        BY <2>2
    <2> QED BY <2>1, <2>2
<1>6. ASSUME NEW i \in DOMAIN operations
      PROVE  /\ Succeeded(i) => Succeeded(i)'
             /\ \A s : Leaves(i, s)' <=> Leaves(i, s)
    BY <1>1, <1>6 DEF AdapterInv, Ended, Succeeded, Leaves, Terminal
<1>7. ImagesHold'
    BY <1>1, <1>6 DEF AdapterInv, ImagesHold, Succeeded
<1>8. StartsHold'
    <2> SUFFICES ASSUME NEW j \in DOMAIN operations
                 PROVE  /\ \A i \in operations'[j].from : i \in 1..(j - 1) /\ Succeeded(i)'
                        /\ operations'[j].sandbox # 0 => \A i \in 1..(j - 1) :
                               Leaves(i, operations[j].sandbox)' => i \in operations'[j].from
        BY <1>1 DEF StartsHold
    <2>1. 1..(j - 1) \subseteq DOMAIN operations
        BY <1>1
    <2>2. \A i \in operations'[j].from : i \in 1..(j - 1) /\ Succeeded(i)'
        BY <1>6, <2>1 DEF AdapterInv, StartsHold
    <2>3. ASSUME NEW s, s = operations[j].sandbox, s # 0, NEW i \in 1..(j - 1), Leaves(i, s)'
          PROVE  i \in operations'[j].from
        BY <1>6, <2>1, <2>3 DEF AdapterInv, StartsHold
    <2> QED BY <2>2, <2>3 DEF Leaves
<1>9. Counted'
    BY <1>1 DEF AdapterInv, Counted, Ended
<1> QED BY <1>2, <1>3, <1>4, <1>5, <1>7, <1>8, <1>9 DEF AdapterInv

LEMMA CreateSandboxStep ==
    ASSUME AdapterInv, CreateSandbox
    PROVE  AdapterInv'
<1>1. NewHandle \in Handle /\ NewHandle.image = {} /\ ~NewHandle.checked
    BY DEF NewHandle, Handle, States
<1>2. /\ handles' \in Seq(Handle) /\ Len(handles') = Len(handles) + 1 /\ Len(handles) \in Nat
      /\ DOMAIN handles = 1..Len(handles) /\ DOMAIN handles' = 1..(Len(handles) + 1)
      /\ handles'[Len(handles) + 1] = NewHandle
      /\ \A s \in DOMAIN handles : handles'[s] = handles[s]
    BY <1>1, Appended DEF CreateSandbox, AdapterInv, AdapterTypeOK
<1>3. UNCHANGED <<operations, call, live>> /\ call = None
    BY DEF CreateSandbox
<1>4. AdapterTypeOK' /\ Ended' /\ StartsHold' /\ Counted'
    BY <1>2, <1>3 DEF AdapterInv, AdapterTypeOK, Ended, StartsHold, Counted, Succeeded, Leaves
<1>5. Placed'
    <2>1. \A i \in DOMAIN operations : operations[i].sandbox \in Nat
        <3>1. \A i \in DOMAIN operations : operations[i] \in Operation
            BY DEF AdapterInv, AdapterTypeOK
        <3> QED BY <3>1 DEF Operation
    <2>2. \A i \in DOMAIN operations : operations[i].sandbox <= Len(handles)
        BY DEF AdapterInv, Placed
    <2>3. \A s \in DOMAIN handles : handles[s].op # None => handles[s].op \in DOMAIN operations
        BY DEF AdapterInv, Placed
    <2>4. NewHandle.op = None
        BY DEF NewHandle
    <2> QED BY <1>2, <1>3, <2>1, <2>2, <2>3, <2>4 DEF Placed
<1>6. \A i \in DOMAIN operations : operations[i].sandbox # Len(handles) + 1
    BY <1>2 DEF AdapterInv, Placed
<1>7. Disposed'
    BY <1>1, <1>2, <1>3 DEF AdapterInv, Disposed
<1>8. ImagesHold'
    <2> SUFFICES ASSUME NEW s \in 1..(Len(handles) + 1)
                 PROVE  /\ \A i \in handles'[s].image : Succeeded(i)
                        /\ \A i \in DOMAIN operations : Leaves(i, s) => i \in handles'[s].image
        BY <1>2, <1>3 DEF ImagesHold, Succeeded, Leaves
    <2>1. CASE s = Len(handles) + 1
        BY <1>1, <1>2, <1>6, <2>1 DEF Leaves
    <2>2. CASE s # Len(handles) + 1
        BY <1>2, <2>2 DEF AdapterInv, ImagesHold
    <2> QED BY <2>1, <2>2
<1> QED BY <1>4, <1>5, <1>7, <1>8 DEF AdapterInv

\* What Mark does to a handle that is not disposed of.
LEMMA Marked ==
    ASSUME AdapterInv, NEW s \in 0..Len(handles), NEW state \in States, NEW op \in Nat \cup {None},
           Mark(s, state, op)
    PROVE  /\ handles' \in Seq(Handle) /\ Len(handles') = Len(handles)
           /\ DOMAIN handles' = DOMAIN handles /\ DOMAIN handles = 1..Len(handles)
           /\ \A t \in DOMAIN handles :
                  /\ handles'[t].image = handles[t].image
                  /\ handles'[t].checked = handles[t].checked
                  /\ t # s => handles'[t] = handles[t]
           /\ s # 0 => handles'[s].state = state /\ handles'[s].op = op
<1>0. DOMAIN handles = 1..Len(handles) /\ Len(handles) \in Nat
    BY DEF AdapterInv, AdapterTypeOK
<1>1. CASE s = 0
    BY <1>0, <1>1 DEF Mark, AdapterInv, AdapterTypeOK
<1>2. CASE s # 0
    <2>0. s \in DOMAIN handles /\ handles[s] \in Handle
        BY <1>0, <1>2 DEF AdapterInv, AdapterTypeOK
    <2>1. PICK h : h = [handles[s] EXCEPT !.state = state, !.op = op]
        OBVIOUS
    <2>2. /\ h \in Handle /\ h.state = state /\ h.op = op
          /\ h.image = handles[s].image /\ h.checked = handles[s].checked
        BY <2>0, <2>1 DEF Handle
    <2>3. handles' = [handles EXCEPT ![s] = h]
        BY <1>2, <2>0, <2>1 DEF Mark, Handle, AdapterInv, AdapterTypeOK
    <2>4. /\ handles' \in Seq(Handle) /\ Len(handles') = Len(handles)
          /\ DOMAIN handles' = DOMAIN handles /\ handles'[s] = h
          /\ \A t \in DOMAIN handles : t # s => handles'[t] = handles[t]
        BY <2>0, <2>2, <2>3, Replaced DEF AdapterInv, AdapterTypeOK
    <2> QED BY <1>0, <2>2, <2>4
<1> QED BY <1>1, <1>2

\* A command that arrives starts from its handle's image.
LEMMA Sent ==
    ASSUME AdapterInv, NEW s \in 0..Len(handles), NEW keeps \in BOOLEAN, NEW told \in BOOLEAN,
           Send(s, keeps, told)
    PROVE  LET n == Len(operations) + 1 IN
           /\ operations' \in Seq(Operation) /\ Len(operations') = n /\ n \in Nat \ {0}
           /\ DOMAIN operations' = 1..n /\ DOMAIN operations = 1..(n - 1)
           /\ \A i \in DOMAIN operations : operations'[i] = operations[i] /\ i # n
           /\ operations'[n].sandbox = s /\ operations'[n].keeps = keeps
           /\ operations'[n].from = IF s = 0 THEN {} ELSE handles[s].image
           /\ operations'[n].status = (IF told THEN "RUNNING" ELSE "SENT")
           /\ operations'[n].exit = None /\ operations'[n].told = told
           /\ ~operations'[n].seen /\ ~operations'[n].unheard
<1> DEFINE image == IF s = 0 THEN {} ELSE handles[s].image
           o == NewOperation(s, image, keeps, told)
<1>1. image \in SUBSET Nat /\ s \in Nat
    <2>1. s # 0 => handles[s] \in Handle
        BY DEF AdapterInv, AdapterTypeOK
    <2> QED BY <2>1 DEF Handle
<1> HIDE DEF image
<1>2. /\ o \in Operation /\ o.sandbox = s /\ o.keeps = keeps /\ o.from = image
      /\ o.status = (IF told THEN "RUNNING" ELSE "SENT")
      /\ o.exit = None /\ o.told = told /\ ~o.seen /\ ~o.unheard
    BY <1>1 DEF NewOperation, Operation, Statuses
<1>3. operations' = Append(operations, o) /\ operations \in Seq(Operation)
    BY DEF Send, image, AdapterInv, AdapterTypeOK
<1> HIDE DEF o
<1>4. /\ operations' \in Seq(Operation) /\ Len(operations') = Len(operations) + 1
      /\ operations'[Len(operations) + 1] = o
      /\ DOMAIN operations = 1..Len(operations) /\ DOMAIN operations' = 1..(Len(operations) + 1)
      /\ \A i \in DOMAIN operations : operations'[i] = operations[i]
    BY <1>2, <1>3, Appended
<1> QED BY <1>2, <1>3, <1>4 DEF image

\* It changes nothing for the commands before it: what it builds on is what
\* they have left by now.
LEMMA SendStep ==
    ASSUME AdapterInv, NEW s \in 0..Len(handles), NEW keeps \in BOOLEAN, NEW told \in BOOLEAN,
           MayExecute(s), Send(s, keeps, told),
           NEW op \in Nat \cup {None}, op # None => op \in 1..(Len(operations) + 1),
           Mark(s, "RUNNING", op), live' = live,
           \/ call' = None
           \/ op = Len(operations) + 1 /\ call' = [sandbox |-> s, op |-> op]
    PROVE  AdapterInv'
<1>n. PICK n : n = Len(operations) + 1
    OBVIOUS
<1>1. /\ operations' \in Seq(Operation) /\ Len(operations') = n /\ n \in Nat \ {0}
      /\ DOMAIN operations' = 1..n /\ DOMAIN operations = 1..(n - 1)
      /\ \A i \in DOMAIN operations : operations'[i] = operations[i] /\ i # n
      /\ operations'[n].sandbox = s /\ operations'[n].told = told
      /\ operations'[n].status = (IF told THEN "RUNNING" ELSE "SENT")
      /\ operations'[n].exit = None /\ ~operations'[n].seen
      /\ operations'[n].from = IF s = 0 THEN {} ELSE handles[s].image
    BY <1>n, Sent
<1>2. /\ handles' \in Seq(Handle) /\ Len(handles') = Len(handles)
      /\ DOMAIN handles' = DOMAIN handles /\ DOMAIN handles = 1..Len(handles)
      /\ \A t \in DOMAIN handles :
             /\ handles'[t].image = handles[t].image
             /\ handles'[t].checked = handles[t].checked
             /\ t # s => handles'[t] = handles[t]
      /\ s # 0 => handles'[s].state = "RUNNING" /\ handles'[s].op = op
    BY Marked DEF States
<1>3. s \in Nat /\ (s # 0 => s \in DOMAIN handles /\ ~handles[s].checked)
    <2>1. \A t \in DOMAIN handles : handles[t].checked => handles[t].state = "DISPOSED"
        BY DEF AdapterInv, Disposed
    <2> QED BY <1>2, <2>1 DEF MayExecute, AdapterInv, AdapterTypeOK
<1>4. AdapterTypeOK'
    BY <1>n, <1>1, <1>2, <1>3 DEF AdapterInv, AdapterTypeOK
<1>5. Placed'
    <2>1. \A i \in 1..n : operations'[i].sandbox <= Len(handles)
        BY <1>1 DEF AdapterInv, Placed
    <2>0. \A t \in DOMAIN handles : handles'[t].op # None => handles'[t].op \in 1..n
        BY <1>n, <1>1, <1>2 DEF AdapterInv, Placed
    <2>2. CASE call' = None
        BY <1>1, <1>2, <2>0, <2>1, <2>2 DEF Placed
    <2>3. CASE op = n /\ call' = [sandbox |-> s, op |-> op]
        BY <1>1, <1>2, <2>0, <2>1, <2>3 DEF Placed
    <2> QED BY <1>n, <2>2, <2>3
<1>6. Ended'
    <2>1. 0 # None /\ operations'[n].status \in {"RUNNING", "SENT"}
        BY <1>1, AdapterBounds
    <2>2. /\ operations'[n].seen => operations'[n].status \in Terminal
          /\ operations'[n].status = "SENT" => ~operations'[n].told
          /\ operations'[n].exit = 0 => operations'[n].status = "SUCCESS"
        BY <1>1, <2>1
    <2>3. \A i \in DOMAIN operations : operations'[i] = operations[i]
        BY <1>1
    <2>4. DOMAIN operations' = DOMAIN operations \cup {n}
        BY <1>1
    <2>5. Ended
        BY DEF AdapterInv
    <2> QED BY <2>2, <2>3, <2>4, <2>5 DEF Ended
<1>7. Disposed'
    <2>1. \A t \in DOMAIN handles' :
             handles'[t].checked => t \in DOMAIN handles /\ t # s /\ handles[t].checked
                                    /\ handles'[t].state = handles[t].state
        BY <1>2, <1>3
    <2>2. /\ \A i \in DOMAIN operations : operations'[i] = operations[i]
          /\ DOMAIN operations' = DOMAIN operations \cup {n} /\ operations'[n].sandbox = s
        BY <1>1
    <2>3. Disposed
        BY DEF AdapterInv
    <2> QED BY <2>1, <2>2, <2>3 DEF Disposed
<1>8. \A i \in DOMAIN operations : (Succeeded(i) => Succeeded(i)') /\ \A t : Leaves(i, t)' <=> Leaves(i, t)
    BY <1>1 DEF Succeeded, Leaves
<1>9. \A t : ~Leaves(n, t)'
    BY <1>1 DEF Leaves
<1>10. ImagesHold'
    <2>1. \A t \in DOMAIN handles : \A i \in handles[t].image : Succeeded(i) /\ i \in DOMAIN operations
        BY DEF AdapterInv, ImagesHold, Succeeded
    <2>2. \A t \in DOMAIN handles : \A i \in handles'[t].image : Succeeded(i)'
        BY <1>2, <1>8, <2>1
    <2>3. \A t \in DOMAIN handles : \A i \in DOMAIN operations' : Leaves(i, t)' => i \in DOMAIN operations
        BY <1>1, <1>9
    <2>4. \A t \in DOMAIN handles : \A i \in DOMAIN operations' : Leaves(i, t)' => i \in handles'[t].image
        BY <1>2, <1>8, <2>3 DEF AdapterInv, ImagesHold
    <2> QED BY <1>2, <2>2, <2>4 DEF ImagesHold
<1>11. StartsHold'
    <2> SUFFICES ASSUME NEW j \in 1..n
                 PROVE  /\ \A i \in operations'[j].from : i \in 1..(j - 1) /\ Succeeded(i)'
                        /\ \A t : t = operations'[j].sandbox /\ t # 0 =>
                             \A i \in 1..(j - 1) : Leaves(i, t)' => i \in operations'[j].from
        BY <1>1 DEF StartsHold
    <2>1. CASE j = n
        <3>1. \A i \in operations'[n].from : i \in DOMAIN operations /\ Succeeded(i)
            BY <1>1, <1>3 DEF AdapterInv, ImagesHold, Succeeded
        <3>2. s # 0 => \A i \in DOMAIN operations : Leaves(i, s) => i \in operations'[n].from
            BY <1>1, <1>3 DEF AdapterInv, ImagesHold
        <3> QED BY <1>1, <1>8, <2>1, <3>1, <3>2
    <2>2. CASE j # n
        <3>1. j \in DOMAIN operations /\ operations'[j] = operations[j]
              /\ 1..(j - 1) \subseteq DOMAIN operations
            BY <1>1, <2>2
        <3> QED BY <1>8, <3>1 DEF AdapterInv, StartsHold
    <2> QED BY <2>1, <2>2
<1>12. Counted'
    <2>1. \A k \in DOMAIN live : live[k] \in DOMAIN operations /\ live[k] # n
        BY <1>1 DEF AdapterInv, Counted
    <2>2. ~operations'[n].seen /\ ~\E k \in DOMAIN live : live[k] = n
        BY <1>1, <2>1
    <2> QED BY <1>1, <2>1, <2>2 DEF AdapterInv, Counted
<1> QED BY <1>4, <1>5, <1>6, <1>7, <1>10, <1>11, <1>12 DEF AdapterInv

LEMMA ExecuteStep ==
    ASSUME AdapterInv, NEW s \in 0..Len(handles), NEW keeps \in BOOLEAN, Execute(s, keeps)
    PROVE  AdapterInv'
<1>0. Len(operations) + 1 \in Nat \cup {None} /\ Len(operations) + 1 \in 1..(Len(operations) + 1)
    BY DEF AdapterInv, AdapterTypeOK
<1>1. LastOp(s) \in Nat \cup {None}
    <2>1. s # 0 => handles[s] \in Handle
        BY DEF AdapterInv, AdapterTypeOK
    <2> QED BY <2>1 DEF LastOp, Handle
<1>l. /\ LastOp(s) # None => LastOp(s) \in 1..(Len(operations) + 1)
      /\ s # 0 => LastOp(s) = handles[s].op
    <2>1. s # 0 => s \in DOMAIN handles
        BY DEF AdapterInv, AdapterTypeOK
    <2> QED BY <1>0, <2>1 DEF LastOp, AdapterInv, Placed, AdapterTypeOK
<1>2. CASE Spawn(s, keeps)
    BY <1>0, <1>2, SendStep DEF Spawn
<1>3. CASE SpawnFails(s, keeps)
    BY <1>1, <1>l, <1>3, SendStep DEF SpawnFails, MayExecute
<1> QED BY <1>2, <1>3 DEF Execute

\* An operation ends, by itself or because it is told to, or begins after all.
LEMMA EndsOperation ==
    ASSUME AdapterInv, NEW i \in DOMAIN operations, NEW o \in Operation,
           operations' = [operations EXCEPT ![i] = o],
           /\ o.sandbox = operations[i].sandbox /\ o.from = operations[i].from
           /\ o.keeps = operations[i].keeps /\ o.seen = operations[i].seen
           /\ o.told = operations[i].told,
           operations[i].status \in Terminal =>
               o.status = operations[i].status /\ o.exit = operations[i].exit,
           o.status = "SENT" => operations[i].status = "SENT",
           o.status = "RUNNING" => \/ operations[i].status = "RUNNING" /\ o.late = operations[i].late
                                   \/ ~operations[i].told /\ Late(o),
           o.exit = 0 => o.status = "SUCCESS"
    PROVE  /\ OnlyEnd /\ operations'[i] = o
           /\ \A j \in DOMAIN operations : j # i => operations'[j] = operations[j]
<1>1. /\ operations' \in Seq(Operation) /\ Len(operations') = Len(operations)
      /\ DOMAIN operations' = DOMAIN operations /\ operations'[i] = o
      /\ \A j \in DOMAIN operations : j # i => operations'[j] = operations[j]
    BY Replaced DEF AdapterInv, AdapterTypeOK
<1>2. \A j \in DOMAIN operations : operations[j].exit = 0 => operations[j].status = "SUCCESS"
    BY DEF AdapterInv, Ended
<1> QED BY <1>1, <1>2 DEF OnlyEnd

LEMMA FinishStep ==
    ASSUME AdapterInv, NEW i \in DOMAIN operations, NEW end \in Ends, Finish(i, end)
    PROVE  AdapterInv' /\ OnlyEnd
<1>0. operations[i] \in Operation /\ operations[i].status = "RUNNING"
    BY DEF AdapterInv, AdapterTypeOK, Finish, Running
<1>1. PICK o : o = [operations[i] EXCEPT !.status = end[1], !.exit = end[2]]
    OBVIOUS
<1>2. end[1] \in Terminal /\ end[2] \in {0, 1, None} /\ (end[2] = 0 => end[1] = "SUCCESS")
    BY AdapterBounds DEF Terminal
<1>3. /\ o \in Operation /\ o.sandbox = operations[i].sandbox /\ o.from = operations[i].from
      /\ o.keeps = operations[i].keeps /\ o.seen = operations[i].seen
      /\ o.told = operations[i].told /\ o.status \in Terminal
      /\ (o.exit = 0 => o.status = "SUCCESS")
    BY <1>0, <1>1, <1>2 DEF Operation, Statuses
<1>4. operations' = [operations EXCEPT ![i] = o]
    BY <1>0, <1>1 DEF Finish, Operation
<1>5. UNCHANGED <<handles, call, live>> /\ handles \in Seq(Handle)
    BY DEF Finish, AdapterInv, AdapterTypeOK
<1>6. \A s \in DOMAIN handles : handles[s].checked => handles[s].state = "DISPOSED"
    BY DEF AdapterInv, Disposed
<1>7. /\ operations[i].status \notin Terminal
      /\ o.status # "SENT" /\ o.status # "RUNNING"
    BY <1>0, <1>3 DEF Terminal
<1>8. OnlyEnd
    BY <1>3, <1>4, <1>7, EndsOperation
<1> QED BY <1>5, <1>6, <1>8, Amended

\* A request that was given up reaches the provider: its name was never learned.
LEMMA DeliverStep ==
    ASSUME AdapterInv, NEW i \in DOMAIN operations, Deliver(i)
    PROVE  /\ AdapterInv' /\ OnlyEnd /\ UNCHANGED <<handles, call, answer, live>>
           /\ ~operations'[i].told
           /\ \A j \in DOMAIN operations :
                  /\ j # i => operations'[j] = operations[j]
                  /\ operations'[j].unheard = operations[j].unheard
<1>0. /\ operations[i] \in Operation /\ operations[i].status = "SENT" /\ ~operations[i].told
      /\ operations[i].exit = 0 => operations[i].status = "SUCCESS"
    BY DEF AdapterInv, AdapterTypeOK, Ended, Deliver
<1>1. PICK late \in BOOLEAN :
          late = (operations[i].sandbox # 0 /\ handles[operations[i].sandbox].checked)
    <2>1. operations[i].sandbox # 0 => handles[operations[i].sandbox].checked \in BOOLEAN
        <3>1. operations[i].sandbox # 0 => operations[i].sandbox \in DOMAIN handles
            BY <1>0 DEF AdapterInv, AdapterTypeOK, Placed, Operation
        <3>2. \A t \in DOMAIN handles : handles[t] \in Handle
            BY DEF AdapterInv, AdapterTypeOK
        <3> QED BY <3>1, <3>2 DEF Handle
    <2> QED BY <2>1
<1>2. PICK o : o = [operations[i] EXCEPT !.status = "RUNNING", !.late = late]
    OBVIOUS
<1>3. /\ o \in Operation /\ o.sandbox = operations[i].sandbox /\ o.from = operations[i].from
      /\ o.keeps = operations[i].keeps /\ o.seen = operations[i].seen
      /\ o.told = operations[i].told /\ o.status = "RUNNING" /\ o.late = late
      /\ o.exit = operations[i].exit /\ o.unheard = operations[i].unheard
    BY <1>0, <1>2 DEF Operation, Statuses
<1>4. operations' = [operations EXCEPT ![i] = o]
    BY <1>0, <1>1, <1>2 DEF Deliver, Operation
<1>5. Late(o) /\ operations[i].status \notin Terminal /\ o.exit # 0
    BY <1>0, <1>1, <1>3 DEF Late, Terminal
<1>6. /\ OnlyEnd /\ operations'[i] = o
      /\ \A j \in DOMAIN operations : j # i => operations'[j] = operations[j]
    BY <1>0, <1>3, <1>4, <1>5, EndsOperation
<1>7. UNCHANGED <<handles, call, answer, live>> /\ handles \in Seq(Handle)
    BY DEF Deliver, AdapterInv, AdapterTypeOK
<1>8. \A s \in DOMAIN handles : handles[s].checked => handles[s].state = "DISPOSED"
    BY DEF AdapterInv, Disposed
<1>9. AdapterInv'
    BY <1>6, <1>7, <1>8, Amended
<1> QED BY <1>0, <1>3, <1>6, <1>7, <1>9

\* A cancellation, confirmed or not.
LEMMA CancelledStep ==
    ASSUME AdapterInv, NEW i \in DOMAIN operations, NEW confirmed \in BOOLEAN, Cancelled(i, confirmed)
    PROVE  /\ OnlyEnd
           /\ confirmed => operations'[i].status # "RUNNING"
           /\ ~confirmed => operations'[i].unheard
           /\ \A j \in DOMAIN operations : j # i => operations'[j] = operations[j]
<1>0. operations[i] \in Operation /\ (operations[i].exit = 0 => operations[i].status = "SUCCESS")
    BY DEF AdapterInv, AdapterTypeOK, Ended
<1>t. "RUNNING" \notin Terminal
    BY DEF Terminal
<1>1. CASE operations' = [operations EXCEPT
               ![i].status = IF @ = "RUNNING" THEN "CANCELLED" ELSE @,
               ![i].unheard = ~confirmed]
    <2>1. PICK o : o = [operations[i] EXCEPT
               !.status = IF operations[i].status = "RUNNING" THEN "CANCELLED" ELSE operations[i].status,
               !.unheard = ~confirmed]
        OBVIOUS
    <2>2. /\ o \in Operation /\ o.sandbox = operations[i].sandbox /\ o.from = operations[i].from
          /\ o.keeps = operations[i].keeps /\ o.seen = operations[i].seen
          /\ o.told = operations[i].told /\ o.exit = operations[i].exit
          /\ o.status = IF operations[i].status = "RUNNING" THEN "CANCELLED" ELSE operations[i].status
          /\ o.unheard = ~confirmed
        BY <1>0, <2>1 DEF Operation, Statuses, Terminal
    <2>3. operations' = [operations EXCEPT ![i] = o]
        BY <1>0, <1>1, <2>1 DEF Operation
    <2>4. o.exit = 0 => o.status = "SUCCESS"
        BY <1>0, <2>2
    <2>5. /\ OnlyEnd /\ operations'[i] = o
          /\ \A j \in DOMAIN operations : j # i => operations'[j] = operations[j]
        BY <1>t, <2>2, <2>3, <2>4, EndsOperation
    <2> QED BY <2>2, <2>5
<1>2. CASE ~confirmed /\ operations' = [operations EXCEPT ![i].unheard = TRUE]
    <2>1. PICK o : o = [operations[i] EXCEPT !.unheard = TRUE]
        OBVIOUS
    <2>2. /\ o \in Operation /\ o.sandbox = operations[i].sandbox /\ o.from = operations[i].from
          /\ o.keeps = operations[i].keeps /\ o.seen = operations[i].seen
          /\ o.told = operations[i].told /\ o.exit = operations[i].exit
          /\ o.status = operations[i].status /\ o.late = operations[i].late
          /\ o.unheard
        BY <1>0, <2>1 DEF Operation
    <2>3. operations' = [operations EXCEPT ![i] = o]
        BY <1>0, <1>2, <2>1 DEF Operation
    <2>4. o.exit = 0 => o.status = "SUCCESS"
        BY <1>0, <2>2
    <2>5. /\ OnlyEnd /\ operations'[i] = o
          /\ \A j \in DOMAIN operations : j # i => operations'[j] = operations[j]
        BY <2>2, <2>3, <2>4, EndsOperation
    <2> QED BY <1>2, <2>2, <2>5
<1> QED BY <1>1, <1>2 DEF Cancelled

LEMMA ClientTimeoutStep ==
    ASSUME AdapterInv, ClientTimeout
    PROVE  AdapterInv'
<1>1. /\ call.op \in DOMAIN operations /\ call # None /\ call' = None /\ live' = live
      /\ call.sandbox \in 0..Len(handles)
    <2>1. call.op \in DOMAIN operations /\ call # None /\ call' = None /\ live' = live
        BY DEF ClientTimeout, Running
    <2>2. call.sandbox <= Len(handles) /\ call.sandbox \in Nat /\ Len(handles) \in Nat
        BY <2>1 DEF AdapterInv, AdapterTypeOK, Placed
    <2> QED BY <2>1, <2>2
<1>2. OnlyEnd
    BY <1>1, CancelledStep DEF ClientTimeout
<1>3. LastOp(call.sandbox) \in Nat \cup {None}
    <2>1. call.sandbox # 0 => handles[call.sandbox] \in Handle
        BY <1>1 DEF AdapterInv, AdapterTypeOK
    <2> QED BY <2>1 DEF LastOp, Handle
<1>4. /\ handles' \in Seq(Handle) /\ Len(handles') = Len(handles)
      /\ DOMAIN handles = 1..Len(handles)
      /\ \A t \in DOMAIN handles :
             /\ handles'[t].image = handles[t].image
             /\ handles'[t].checked = handles[t].checked
             /\ t # call.sandbox => handles'[t] = handles[t]
      /\ call.sandbox # 0 => handles'[call.sandbox].op = LastOp(call.sandbox)
    BY <1>1, <1>3, Marked DEF ClientTimeout, States
<1>5. \A t \in DOMAIN handles : handles[t].checked => handles'[t].state = "DISPOSED"
    BY <1>1, <1>4 DEF AdapterInv, Disposed, Placed
<1>6. \A t \in DOMAIN handles : handles'[t].op = handles[t].op
    BY <1>1, <1>4 DEF LastOp
<1> QED BY <1>1, <1>2, <1>4, <1>5, <1>6, Amended

LEMMA DisposeStep ==
    ASSUME AdapterInv, OnlyEnd, NEW s \in DOMAIN handles, NEW verify \in BOOLEAN,
           Dispose(s, verify) \/ UNCHANGED handles
    PROVE  /\ handles' \in Seq(Handle) /\ Len(handles') = Len(handles)
           /\ DOMAIN handles' = DOMAIN handles
           /\ \A t \in DOMAIN handles :
                  /\ t # s => handles'[t] = handles[t]
                  /\ handles'[t].image = handles[t].image /\ handles'[t].op = handles[t].op
                  /\ handles[t].checked => handles'[t].state = "DISPOSED"
                  /\ handles'[t].checked /\ ~handles[t].checked =>
                         /\ handles'[t].state = "DISPOSED"
                         /\ \A j \in DOMAIN operations : operations'[j].status # "RUNNING"
<1>0. /\ handles \in Seq(Handle) /\ handles[s] \in Handle
      /\ \A t \in DOMAIN handles : handles[t].checked => handles[t].state = "DISPOSED"
    BY DEF AdapterInv, AdapterTypeOK, Disposed
<1>1. CASE UNCHANGED handles
    BY <1>0, <1>1
<1>2. CASE /\ ~(verify /\ \E i \in DOMAIN operations' : operations'[i].status = "RUNNING")
           /\ handles' = [handles EXCEPT ![s].state = "DISPOSED", ![s].checked = verify]
    <2>1. PICK h : h = [handles[s] EXCEPT !.state = "DISPOSED", !.checked = verify]
        OBVIOUS
    <2>2. h \in Handle /\ h.state = "DISPOSED" /\ h.checked = verify
          /\ h.image = handles[s].image /\ h.op = handles[s].op
        BY <1>0, <2>1 DEF Handle, States
    <2>3. handles' = [handles EXCEPT ![s] = h]
        BY <1>0, <1>2, <2>1 DEF Handle
    <2>4. /\ handles' \in Seq(Handle) /\ Len(handles') = Len(handles)
          /\ DOMAIN handles' = DOMAIN handles /\ handles'[s] = h
          /\ \A t \in DOMAIN handles : t # s => handles'[t] = handles[t]
        BY <1>0, <2>2, <2>3, Replaced
    <2> QED BY <1>0, <1>2, <2>2, <2>4 DEF OnlyEnd
<1> QED BY <1>1, <1>2 DEF Dispose

LEMMA TeardownKeeps ==
    ASSUME AdapterInv, NEW s \in DOMAIN handles, NEW verify \in BOOLEAN, Teardown(s, verify)
    PROVE  AdapterInv'
<1>1. call' = None /\ live' = live
    BY DEF Teardown
<1>2. CASE TeardownRunning(s, verify)
    <2>1. OnlyEnd
        BY <1>2, CancelledStep DEF TeardownRunning, AdapterInv, Placed
    <2> QED BY <1>1, <1>2, <2>1, DisposeStep, Amended DEF TeardownRunning
<1>3. CASE TeardownRefused(s) \/ TeardownIdle(s, verify)
    <2>1. OnlyEnd
        BY <1>3 DEF TeardownRefused, TeardownIdle, OnlyEnd, AdapterInv, AdapterTypeOK, Ended
    <2> QED BY <1>1, <1>3, <2>1, DisposeStep, Amended DEF TeardownRefused, TeardownIdle
<1> QED BY <1>2, <1>3 DEF Teardown

\* The result of the last command sent: the image it leaves is that of a
\* success, and holds all that the commands of its sandbox before it left.
LEMMA PollEndedStep ==
    ASSUME AdapterInv, PollEnded
    PROVE  AdapterInv'
<1>n. PICK n : n = call.op
    OBVIOUS
<1>s. PICK s : s = call.sandbox
    OBVIOUS
<1>0. /\ n = Len(operations) /\ n \in DOMAIN operations /\ DOMAIN operations = 1..n /\ n \in Nat
      /\ s = operations[n].sandbox /\ ~operations[n].seen /\ operations[n] \in Operation
      /\ s \in 0..Len(handles) /\ DOMAIN handles = 1..Len(handles)
      /\ operations[n].status \in Terminal /\ call # None
    <2>1. call # None /\ operations[call.op].status \in Terminal
        BY DEF PollEnded
    <2>2. call \in [sandbox : Nat, op : Nat] /\ Len(operations) \in Nat /\ Len(handles) \in Nat
          /\ DOMAIN operations = 1..Len(operations) /\ DOMAIN handles = 1..Len(handles)
        BY <2>1 DEF AdapterInv, AdapterTypeOK
    <2>3. /\ n = Len(operations) /\ n # 0 /\ s = operations[n].sandbox /\ ~operations[n].seen
        BY <1>n, <1>s, <2>1 DEF AdapterInv, Placed
    <2>4. n \in DOMAIN operations /\ operations[n] \in Operation
        BY <2>2, <2>3 DEF AdapterInv, AdapterTypeOK
    <2>5. operations[n].sandbox <= Len(handles) /\ operations[n].sandbox \in Nat
        BY <2>4 DEF AdapterInv, Placed, Operation
    <2> QED BY <1>n, <1>s, <2>1, <2>2, <2>3, <2>4, <2>5
<1>1. /\ operations' \in Seq(Operation) /\ Len(operations') = n /\ DOMAIN operations' = 1..n
      /\ \A i \in 1..n : /\ operations'[i].sandbox = operations[i].sandbox
                         /\ operations'[i].from = operations[i].from
                         /\ operations'[i].keeps = operations[i].keeps
                         /\ operations'[i].status = operations[i].status
                         /\ operations'[i].exit = operations[i].exit
                         /\ operations'[i].told = operations[i].told
                         /\ operations'[i].late = operations[i].late
                         /\ i # n => operations'[i] = operations[i]
      /\ operations'[n].seen
    <2>1. PICK o : o = [operations[n] EXCEPT !.seen = TRUE]
        OBVIOUS
    <2>2. /\ o \in Operation /\ o.sandbox = operations[n].sandbox /\ o.from = operations[n].from
          /\ o.keeps = operations[n].keeps /\ o.status = operations[n].status
          /\ o.exit = operations[n].exit /\ o.seen
          /\ o.told = operations[n].told /\ o.late = operations[n].late
        BY <1>0, <2>1 DEF Operation
    <2>3. operations' = [operations EXCEPT ![n] = o]
        BY <1>n, <1>0, <2>1 DEF PollEnded, Operation
    <2>4. operations \in Seq(Operation)
        BY DEF AdapterInv, AdapterTypeOK
    <2>5. /\ operations' \in Seq(Operation) /\ Len(operations') = Len(operations)
          /\ DOMAIN operations' = DOMAIN operations /\ operations'[n] = o
          /\ \A j \in DOMAIN operations : j # n => operations'[j] = operations[j]
        BY <1>0, <2>2, <2>3, <2>4, Replaced
    <2> QED BY <1>0, <2>2, <2>5
<1>i. PICK image : image = IF operations[n].status = "SUCCESS" /\ operations[n].keeps
                           THEN operations[n].from \cup {n} ELSE handles[s].image
    OBVIOUS
<1>2. /\ handles' \in Seq(Handle) /\ Len(handles') = Len(handles) /\ DOMAIN handles' = DOMAIN handles
      /\ \A t \in DOMAIN handles : /\ t # s => handles'[t] = handles[t]
                                   /\ handles'[t].checked = handles[t].checked
                                   /\ handles'[t].op = handles[t].op
      /\ s # 0 => handles'[s].image = image
    <2>0. handles \in Seq(Handle)
        BY DEF AdapterInv, AdapterTypeOK
    <2>1. CASE s = 0
        BY <1>0, <1>s, <2>0, <2>1 DEF PollEnded
    <2>2. CASE s # 0
        <3>1. s \in DOMAIN handles /\ handles[s] \in Handle
            BY <1>0, <2>0, <2>2
        <3>2. image \in SUBSET Nat
            BY <1>0, <1>i, <3>1 DEF Handle, Operation
        <3>3. PICK state : state = IF operations[n].status = "SUCCESS" THEN "COMPLETED" ELSE "FAILED"
            OBVIOUS
        <3>4. PICK h : h = [handles[s] EXCEPT !.state = state, !.image = image]
            OBVIOUS
        <3>5. state \in States
            BY <3>3 DEF States
        <3>6. /\ h \in Handle /\ h.image = image
              /\ h.checked = handles[s].checked /\ h.op = handles[s].op
            BY <3>1, <3>2, <3>4, <3>5 DEF Handle
        <3>7. handles' = [handles EXCEPT ![s].state = state, ![s].image = image]
            BY <1>n, <1>s, <1>i, <2>2, <3>3 DEF PollEnded
        <3>8. handles' = [handles EXCEPT ![s] = h]
            BY <2>0, <3>1, <3>4, <3>7 DEF Handle
        <3> QED BY <2>0, <3>1, <3>6, <3>8, Replaced
    <2> QED BY <2>1, <2>2
<1>3. call' = None /\ live' = IF operations[n].exit # None THEN Append(live, n) ELSE live
    BY <1>n DEF PollEnded
<1>4. live' \in Seq(Nat)
    BY <1>0, <1>3, Appended DEF AdapterInv, AdapterTypeOK
<1>5. AdapterTypeOK'
    BY <1>1, <1>2, <1>3, <1>4 DEF AdapterTypeOK
<1>o. /\ DOMAIN operations' = DOMAIN operations
      /\ \A i \in DOMAIN operations : /\ operations'[i].sandbox = operations[i].sandbox
                                      /\ operations'[i].from = operations[i].from
                                      /\ operations'[i].keeps = operations[i].keeps
                                      /\ operations'[i].status = operations[i].status
                                      /\ operations'[i].exit = operations[i].exit
                                      /\ operations'[i].told = operations[i].told
                                      /\ operations'[i].late = operations[i].late
                                      /\ i # n => operations'[i].seen = operations[i].seen
      /\ n \in DOMAIN operations /\ operations[n].status \in Terminal /\ ~operations[n].seen
      /\ operations[n].sandbox = s /\ operations'[n].seen
    BY <1>0, <1>1
<1>6. Placed'
    BY <1>o, <1>2, <1>3 DEF AdapterInv, Placed
<1>7. Ended' /\ Disposed'
    <2>1. Ended'
        BY <1>o DEF AdapterInv, Ended
    <2>2. s # 0 => ~handles[s].checked
        <3>1. \A t \in DOMAIN handles : handles[t].checked => handles[t].state = "DISPOSED"
            BY DEF AdapterInv, Disposed
        <3> QED BY <1>s, <1>0, <3>1 DEF AdapterInv, Placed
    <2>3. Disposed'
        BY <1>o, <1>2, <2>2 DEF AdapterInv, Disposed
    <2> QED BY <2>1, <2>3
<1>8. \A i \in DOMAIN operations :
          (Succeeded(i) <=> Succeeded(i)') /\ (\A t : i # n => (Leaves(i, t)' <=> Leaves(i, t)))
    BY <1>o DEF Succeeded, Leaves
<1>9. ImagesHold'
    <2> SUFFICES ASSUME NEW t \in DOMAIN handles
                 PROVE  /\ \A i \in handles'[t].image : Succeeded(i)'
                        /\ \A i \in DOMAIN operations : Leaves(i, t)' => i \in handles'[t].image
        BY <1>o, <1>2 DEF ImagesHold
    <2>0. /\ \A i \in handles[t].image : Succeeded(i) /\ i \in DOMAIN operations
          /\ \A i \in DOMAIN operations : Leaves(i, t) => i \in handles[t].image
        BY DEF AdapterInv, ImagesHold, Succeeded
    <2>1. CASE t # s
        <3>1. ~Leaves(n, t)'
            BY <1>o, <2>1 DEF Leaves
        <3> QED BY <1>2, <1>8, <2>0, <2>1, <3>1
    <2>2. CASE t = s /\ ~(operations[n].status = "SUCCESS" /\ operations[n].keeps)
        <3>1. ~Leaves(n, t)'
            BY <1>o, <2>2 DEF Leaves
        <3>2. handles'[t].image = handles[t].image
            BY <1>0, <1>2, <1>i, <2>2
        <3> QED BY <1>8, <2>0, <3>1, <3>2
    <2>3. CASE t = s /\ operations[n].status = "SUCCESS" /\ operations[n].keeps
        <3>1. handles'[t].image = operations[n].from \cup {n} /\ s # 0
            BY <1>0, <1>2, <1>i, <2>3
        <3>2. \A i \in operations[n].from : i \in 1..(n - 1) /\ Succeeded(i)
            BY <1>0 DEF AdapterInv, StartsHold
        <3>3. Succeeded(n)
            BY <1>0, <2>3 DEF Succeeded
        <3>4. \A i \in 1..(n - 1) : Leaves(i, s) => i \in operations[n].from
            BY <1>0, <3>1 DEF AdapterInv, StartsHold
        <3>5. \A i \in DOMAIN operations : i \in 1..(n - 1) \/ i = n
            BY <1>0
        <3>6. 1..(n - 1) \subseteq DOMAIN operations /\ n \in DOMAIN operations
            BY <1>0
        <3>7. \A i \in handles'[t].image : Succeeded(i)'
            BY <1>8, <3>1, <3>2, <3>3, <3>6
        <3>8. \A i \in DOMAIN operations : Leaves(i, t)' => i \in handles'[t].image
            BY <1>0, <1>8, <2>3, <3>1, <3>4, <3>5
        <3> QED BY <3>7, <3>8
    <2> QED BY <2>1, <2>2, <2>3
<1>10. StartsHold'
    <2> SUFFICES ASSUME NEW j \in DOMAIN operations
                 PROVE  /\ \A i \in operations'[j].from : i \in 1..(j - 1) /\ Succeeded(i)'
                        /\ \A t : t = operations'[j].sandbox /\ t # 0 =>
                               \A i \in 1..(j - 1) : Leaves(i, t)' => i \in operations'[j].from
        BY <1>o DEF StartsHold, Leaves
    <2>1. \A i \in 1..(j - 1) : i \in DOMAIN operations /\ i # n
        BY <1>0
    <2>2. /\ \A i \in operations[j].from : i \in 1..(j - 1) /\ Succeeded(i)
          /\ operations[j].sandbox # 0 =>
                 \A i \in 1..(j - 1) : Leaves(i, operations[j].sandbox) => i \in operations[j].from
        BY DEF AdapterInv, StartsHold
    <2> QED BY <1>o, <1>8, <2>1, <2>2
<1>11. Counted'
    <2>0. /\ live \in Seq(Nat) /\ \A k \in DOMAIN live : live[k] \in DOMAIN operations
          /\ \A i \in DOMAIN operations : (operations[i].seen /\ operations[i].exit # None)
                                 <=> (\E k \in DOMAIN live : live[k] = i)
        BY DEF AdapterInv, AdapterTypeOK, Counted
    <2>1. CASE operations[n].exit = None
        BY <1>o, <1>3, <2>0, <2>1 DEF Counted
    <2>2. CASE operations[n].exit # None
        <3>1. /\ Len(live') = Len(live) + 1 /\ live'[Len(live) + 1] = n
              /\ DOMAIN live = 1..Len(live) /\ DOMAIN live' = 1..(Len(live) + 1) /\ Len(live) \in Nat
              /\ \A k \in DOMAIN live : live'[k] = live[k]
            BY <1>0, <1>3, <2>0, <2>2, Appended
        <3>2. \A k \in DOMAIN live' : live'[k] \in DOMAIN operations
            BY <1>o, <2>0, <3>1
        <3>3. \A i \in DOMAIN operations : (\E k \in DOMAIN live' : live'[k] = i)
                                  <=> (i = n \/ \E k \in DOMAIN live : live[k] = i)
            BY <3>1
        <3> QED BY <1>o, <2>0, <2>2, <3>2, <3>3 DEF Counted
    <2> QED BY <2>1, <2>2
<1> QED BY <1>5, <1>6, <1>7, <1>9, <1>10, <1>11 DEF AdapterInv

\* What a step leaves alone, and what it does not say of the adapter.
LEMMA AdapterStays ==
    ASSUME AdapterInv, UNCHANGED <<handles, operations, live>>, call' = call \/ call' = None
    PROVE  AdapterInv'
<1>1. OnlyEnd /\ handles \in Seq(Handle)
    BY DEF OnlyEnd, AdapterInv, AdapterTypeOK, Ended
<1>2. \A s \in DOMAIN handles : handles[s].checked => handles[s].state = "DISPOSED"
    BY DEF AdapterInv, Disposed
<1> QED BY <1>1, <1>2, Amended

LEMMA PollStep ==
    ASSUME AdapterInv, PollEnded \/ PollFails \/ ClientTimeout
    PROVE  AdapterInv'
<1>1. CASE PollFails
    BY <1>1, AdapterStays DEF PollFails
<1> QED BY <1>1, PollEndedStep, ClientTimeoutStep

LEMMA AdapterStep == AdapterInv /\ [AdapterNext]_adapter => AdapterInv'
<1> SUFFICES ASSUME AdapterInv, [AdapterNext]_adapter PROVE AdapterInv'
    OBVIOUS
<1>1. ASSUME NEW s \in 0..Len(handles), NEW keeps \in BOOLEAN, Execute(s, keeps) PROVE AdapterInv'
    BY <1>1, ExecuteStep
<1>2. ASSUME NEW s \in DOMAIN handles, NEW verify \in BOOLEAN, Teardown(s, verify) PROVE AdapterInv'
    BY <1>2, TeardownKeeps
<1>3. CASE Provider
    BY <1>3, FinishStep, DeliverStep DEF Provider
<1>4. CASE UNCHANGED adapter
    BY <1>4, AdapterStays DEF adapter
<1> QED BY <1>1, <1>2, <1>3, <1>4, CreateSandboxStep, PollStep DEF AdapterNext

\* What the adapter keeps of a sandbox agrees with the operations at the provider,
\* whatever its callers do (sandbox.py).
THEOREM AdapterInvariant == AdapterSpec => []AdapterInv
<1>1. AdapterInit => AdapterInv
    BY AdapterStart
<1> QED BY <1>1, AdapterStep, PTL DEF AdapterSpec

\* Whatever its callers do: what had reached the provider when the disposal of a
\* sandbox was verified does not run in it any more; only a request that its caller
\* had given up can still arrive and run (teardown, sandbox.py:997-1063, 910-921).
THEOREM VerifiedStopped == AdapterSpec => []VerifiedMeansStopped
<1>1. AdapterInv => VerifiedMeansStopped
    BY DEF AdapterInv, Disposed, VerifiedMeansStopped, Running
<1> QED BY <1>1, AdapterInvariant, PTL

\* A command starts from all that was seen to succeed in its sandbox before it,
\* and from nothing else (sandbox.py:833, 947-955).
THEOREM EachCommandBuildsOn == AdapterSpec => []CommandsBuildOn
<1>1. AdapterInv => CommandsBuildOn
    BY DEF AdapterInv, StartsHold, CommandsBuildOn, Succeeded, Leaves
<1> QED BY <1>1, AdapterInvariant, PTL

-----------------------------------------------------------------------------
\* Where the program has a command of a world: the first has no candidate to apply.
Place(w, c) ==
    CASE w = "BASE" ->
             (CASE c = "clone" -> 2 [] c = "deploy" -> 3 [] c = "witness" -> 4 [] OTHER -> 18)
      [] OTHER -> (IF w = "CANDIDATE" THEN 7 ELSE 13)
                      + (CASE c = "clone" -> 0 [] c = "apply" -> 1 [] c = "deploy" -> 2 [] OTHER -> 3)

\* How many commands come before a place in its world.
Before(i) == IF i <= 5 THEN i - 2 ELSE IF i <= 11 THEN i - 7 ELSE i - 13

LEMMA ProgramFacts ==
    ASSUME NEW i \in 1..17
    PROVE  LET w == Program[i][1]
               step == Program[i][2]
           IN
           /\ w \in Worlds /\ step \in Commands \cup {"create", "teardown"}
           /\ step # "teardown" =>
                  /\ i + 1 \in 1..17 /\ Program[i + 1][1] = w /\ Program[i + 1][2] # "create"
           /\ step = "teardown" /\ i < 17 => i + 1 \in 1..17 /\ Program[i + 1][2] = "create"
           /\ step = "create" =>
                  /\ Program[i + 1][2] = "clone" /\ Before(i + 1) = 0
                  /\ \A c \in Commands : Place(w, c) > i
           /\ step \in Commands =>
                  /\ Place(w, step) = i /\ Place(w, "witness") >= i /\ Before(i) \in Nat
           /\ step \in Commands \ {"witness"} =>
                  /\ Program[i + 1][2] \in Commands /\ Before(i + 1) = Before(i) + 1
           /\ step = "witness" =>
                  /\ Program[i + 1][2] = "teardown" /\ Before(i) = IF w = "BASE" THEN 2 ELSE 3
<1>1. \/ i = 1 \/ i = 2 \/ i = 3 \/ i = 4 \/ i = 5 \/ i = 6 \/ i = 7 \/ i = 8 \/ i = 9
      \/ i = 10 \/ i = 11 \/ i = 12 \/ i = 13 \/ i = 14 \/ i = 15 \/ i = 16 \/ i = 17
    OBVIOUS
<1>2. CASE i \in 1..5
    BY <1>1, <1>2 DEF Program, Worlds, Commands, Place, Before
<1>3. CASE i \in 6..11
    BY <1>1, <1>3 DEF Program, Worlds, Commands, Place, Before
<1>4. CASE i \in 12..17
    BY <1>1, <1>4 DEF Program, Worlds, Commands, Place, Before
<1> QED BY <1>2, <1>3, <1>4

LEMMA WorldEnds ==
    ASSUME at \in 1..17
    PROVE  /\ EndOfWorld \in 1..17 /\ Program[EndOfWorld] = <<World, "teardown">>
           /\ EndOfWorld >= at
<1>1. DOMAIN Program = 1..17
    BY DEF Program
<1>2. \E i \in 1..17 : Program[i] = <<World, "teardown">>
    <2>1. World \in Worlds
        BY ProgramFacts DEF World
    <2>2. /\ Program[5] = <<"BASE", "teardown">> /\ Program[11] = <<"CANDIDATE", "teardown">>
          /\ Program[17] = <<"COUNTERFACTUAL", "teardown">>
        BY DEF Program
    <2> QED BY <2>1, <2>2 DEF Worlds
<1>3. \A i \in 1..17 : Program[i] = <<World, "teardown">> => i >= at
    <2>1. ASSUME NEW i \in 1..17
          PROVE  /\ Program[i] = <<"BASE", "teardown">> => i >= 5
                 /\ Program[i] = <<"CANDIDATE", "teardown">> => i >= 11
                 /\ Program[i] = <<"COUNTERFACTUAL", "teardown">> => i >= 17
        BY <2>1 DEF Program
    <2>2. (World = "BASE" => at <= 5) /\ (World = "CANDIDATE" => at <= 11) /\ World \in Worlds
        BY DEF World, Program, Worlds
    <2> QED BY <2>1, <2>2 DEF Worlds
<1> QED BY <1>1, <1>2, <1>3 DEF EndOfWorld

Phases == {"start", "generate", "prepare", "work", "conclude", "respond", "done"}

BridgeTypeOK ==
    /\ phase \in Phases /\ at \in 1..17 /\ grounded \in BOOLEAN
    /\ box \in [Worlds -> Nat] /\ did \in [Worlds -> [Commands -> Nat]]
    /\ outcome \in [Worlds -> {"PASS", "FAIL", "ERROR", None}]
    /\ answer \in [how : {"returned", "ambiguous", "definite"}, op : Nat] \cup {None}

\* The worker has a sandbox for its world, and calls no other.
Here == box[World]
Working == phase = "work" /\ Step # "create"

Position ==
    /\ phase # "work" => call = None
    /\ phase = "work" /\ Step \notin Commands => call = None /\ answer = None
    /\ Working => Here \in DOMAIN handles
    /\ call # None => phase = "work" /\ call.sandbox = Here /\ answer = None
    /\ phase \in {"start", "generate", "prepare"} => at = 1 /\ answer = None
    /\ answer # None => IF answer.how = "returned"
                        THEN answer.op \in DOMAIN operations /\ operations[answer.op].seen
                        ELSE answer.op = 0

WorkerInv == AdapterInv /\ BridgeTypeOK /\ Position

LEMMA WorkerStart == VerificationInit => WorkerInv
<1> SUFFICES ASSUME VerificationInit PROVE WorkerInv
    OBVIOUS
<1>1. AdapterInv
    BY AdapterStart DEF VerificationInit
<1>2. BridgeTypeOK
    <2>1. box \in [Worlds -> Nat] /\ did \in [Worlds -> [Commands -> Nat]]
        BY DEF VerificationInit
    <2>2. outcome \in [Worlds -> {"PASS", "FAIL", "ERROR", None}]
        BY DEF VerificationInit
    <2>3. phase \in Phases /\ at \in 1..17
        BY DEF VerificationInit, Phases
    <2>4. grounded \in BOOLEAN
        BY DEF VerificationInit
    <2>5. answer = None
        BY DEF VerificationInit, AdapterInit
    <2> QED BY <2>1, <2>2, <2>3, <2>4, <2>5 DEF BridgeTypeOK
<1>3. Position
    BY DEF VerificationInit, AdapterInit, Position, Working
<1> QED BY <1>1, <1>2, <1>3 DEF WorkerInv

\* Where an answer takes the worker: on, if all went well, or to the teardown.
LEMMA AnswerMoves ==
    ASSUME WorkerInv, TakeAnswer
    PROVE  /\ phase = "work" /\ Step \in Commands /\ answer # None /\ answer' = None /\ call = None
           /\ at' \in 1..17 /\ at' >= at /\ World' = World /\ Step' # "create"
           /\ Step' \in Commands =>
                  /\ at' = at + 1 /\ GoesWell(answer.op) /\ answer.how = "returned"
           /\ \/ at' = at + 1 /\ (GoesWell(answer.op) \/ Witnessed(answer.op))
              \/ Step' = "teardown" /\ UNCHANGED <<did, outcome>>
<1>1. /\ phase = "work" /\ answer # None /\ answer' = None /\ at \in 1..17
    BY DEF TakeAnswer, WorkerInv, BridgeTypeOK
<1>2. Step \in Commands /\ call = None
    BY <1>1 DEF WorkerInv, Position
<1>3. /\ at + 1 \in 1..17 /\ Program[at + 1][1] = World /\ Program[at + 1][2] # "create"
      /\ Step = "witness" => Program[at + 1][2] = "teardown"
    BY <1>1, <1>2, ProgramFacts DEF Commands, World, Step
<1>4. /\ EndOfWorld \in 1..17 /\ Program[EndOfWorld] = <<World, "teardown">> /\ EndOfWorld >= at
    BY <1>1, WorldEnds
<1>5. CASE Witnessed(answer.op)
    <2>1. at' = at + 1 /\ Step = "witness"
        BY <1>5 DEF Witnessed
    <2>2. World' = World /\ Step' = "teardown" /\ "teardown" \notin Commands
        BY <1>3, <2>1 DEF World, Step, Commands
    <2> QED BY <1>1, <1>2, <1>3, <1>5, <2>1, <2>2
<1>6. CASE answer.how = "returned" /\ GoesWell(answer.op)
    <2>1. at' = at + 1
        BY <1>6 DEF GoesWell
    <2>2. World' = World /\ Step' # "create"
        BY <1>3, <2>1 DEF World, Step
    <2> QED BY <1>1, <1>2, <1>3, <1>6, <2>1, <2>2
<1>7. CASE \E how : GoesWrong(how)
    <2>1. at' = EndOfWorld /\ UNCHANGED <<did, outcome>>
        BY <1>7 DEF GoesWrong
    <2>2. World' = World /\ Step' = "teardown" /\ "teardown" \notin Commands
        BY <1>4, <2>1 DEF World, Step, Commands
    <2> QED BY <1>1, <1>2, <1>4, <2>1, <2>2
<1> QED BY <1>5, <1>6, <1>7 DEF TakeAnswer

\* The steps in which neither the adapter nor the worker moves.
Quiet ==
    \/ Ground \/ Collapse \/ AnswerTaken \/ AnswerInvalid \/ GenerationFails \/ RefuseToAsk
    \/ Prepare \/ Conclude \/ Respond

Waiting == {"start", "generate", "prepare"}

LEMMA QuietStep ==
    ASSUME WorkerInv, Quiet
    PROVE  /\ UNCHANGED <<handles, operations, call, answer, live, worker>>
           /\ phase # "work" /\ phase' \in Phases /\ grounded' \in BOOLEAN
           /\ phase' = "work" => phase = "prepare"
           /\ phase' \in Waiting => phase \in Waiting
<1>0. grounded \in BOOLEAN
    BY DEF WorkerInv, BridgeTypeOK
<1>1. CASE Ground \/ Collapse
    BY <1>1 DEF Ground, Collapse, adapter, Phases, Waiting
<1>2. CASE AnswerTaken \/ AnswerInvalid \/ GenerationFails \/ RefuseToAsk
    BY <1>0, <1>2 DEF AnswerTaken, AnswerInvalid, GenerationFails, RefuseToAsk, Ask, Return, adapter,
       Phases, Waiting
<1>3. CASE Prepare \/ Conclude
    BY <1>0, <1>3 DEF Prepare, Conclude, Return, adapter, Phases, Waiting
<1>4. CASE Respond
    BY <1>0, <1>4 DEF Respond, Phases, Waiting
<1> QED BY <1>1, <1>2, <1>3, <1>4 DEF Quiet

LEMMA QuietKeeps ==
    ASSUME WorkerInv, Quiet
    PROVE  WorkerInv'
<1>1. /\ UNCHANGED <<handles, operations, call, answer, live, at, box, did, outcome>>
      /\ phase # "work" /\ phase' \in Phases /\ grounded' \in BOOLEAN
      /\ phase' = "work" => phase = "prepare"
      /\ phase' \in Waiting => phase \in Waiting
    BY QuietStep DEF worker
<1>2. AdapterInv'
    BY <1>1, AdapterStays DEF WorkerInv
<1>3. BridgeTypeOK'
    BY <1>1 DEF WorkerInv, BridgeTypeOK
<1>4. Program[1][2] = "create"
    BY DEF Program
<1>5. call = None /\ (phase \in Waiting => at = 1 /\ answer = None)
    BY <1>1 DEF WorkerInv, Position, Waiting
<1>6. Position'
    BY <1>1, <1>4, <1>5 DEF WorkerInv, Position, Working, Step, Waiting
<1> QED BY <1>2, <1>3, <1>6 DEF WorkerInv

LEMMA CreateKeeps ==
    ASSUME WorkerInv, CreateStep
    PROVE  /\ WorkerInv' /\ Working' /\ World' = World /\ Step' = "clone" /\ Here' = Len(handles) + 1
           /\ handles' = Append(handles, NewHandle)
<1>1. /\ phase = "work" /\ Step = "create" /\ CreateSandbox /\ at' = at + 1
      /\ box' = [box EXCEPT ![World] = Len(handles')]
      /\ UNCHANGED <<phase, grounded, did, outcome>>
      /\ handles' = Append(handles, NewHandle) /\ UNCHANGED <<operations, call, answer, live>>
    BY DEF CreateStep, At, CreateSandbox
<1>2. AdapterInv' /\ at \in 1..17 /\ box \in [Worlds -> Nat]
    BY <1>1, CreateSandboxStep DEF WorkerInv, BridgeTypeOK
<1>3. /\ World \in Worlds /\ at' \in 1..17 /\ World' = World /\ Step' = "clone"
    BY <1>1, <1>2, ProgramFacts DEF World, Step
<1>4. /\ Len(handles') = Len(handles) + 1 /\ Len(handles) \in Nat
      /\ DOMAIN handles' = 1..(Len(handles) + 1)
    <2>1. handles \in Seq(Handle) /\ handles' \in Seq(Handle)
        BY <1>2 DEF WorkerInv, AdapterInv, AdapterTypeOK
    <2> QED BY <1>1, <2>1
<1>5. box' \in [Worlds -> Nat] /\ Here' = Len(handles) + 1
    BY <1>1, <1>2, <1>3, <1>4 DEF Here
<1>6. BridgeTypeOK'
    BY <1>1, <1>3, <1>5 DEF WorkerInv, BridgeTypeOK
<1>7. call = None /\ answer = None
    BY <1>1 DEF WorkerInv, Position, Commands
<1>8. Working' /\ Here' \in DOMAIN handles'
    BY <1>1, <1>3, <1>4, <1>5 DEF Working
<1>9. Position'
    BY <1>1, <1>7, <1>8 DEF Position
<1> QED BY <1>1, <1>2, <1>3, <1>5, <1>6, <1>8, <1>9 DEF WorkerInv

\* What the worker's command does at its sandbox.
LEMMA CommandKeeps ==
    ASSUME WorkerInv, CommandStep
    PROVE  /\ WorkerInv' /\ Working /\ Here \in 1..Len(handles) /\ Here \in DOMAIN handles
           /\ Execute(Here, TRUE) /\ UNCHANGED bridge /\ call = None /\ answer = None
<1>1. /\ phase = "work" /\ Step \in Commands /\ answer = None /\ Execute(Here, TRUE)
      /\ UNCHANGED bridge
    BY DEF CommandStep, Keeps, Here
<1>2. Working /\ Here \in DOMAIN handles /\ Here \in 1..Len(handles)
    BY <1>1 DEF Working, Commands, WorkerInv, Position, AdapterInv, AdapterTypeOK
<1>3. AdapterInv' /\ call = None
    <2>1. call = None
        BY <1>1 DEF Execute, Spawn, SpawnFails, MayExecute
    <2>2. Here \in 0..Len(handles)
        BY <1>2
    <2> QED BY <1>1, <2>1, <2>2, ExecuteStep DEF WorkerInv
<1>4. /\ DOMAIN handles' = DOMAIN handles
      /\ \/ /\ call' = None /\ answer' \in [how : {"returned", "ambiguous", "definite"}, op : Nat]
            /\ answer'.how # "returned" /\ answer'.op = 0
         \/ call'.sandbox = Here /\ answer' = None
    <2>1. ASSUME NEW op \in Nat \cup {None}, Mark(Here, "RUNNING", op)
          PROVE  DOMAIN handles' = DOMAIN handles
        <3>1. Here \in 0..Len(handles) /\ "RUNNING" \in States /\ AdapterInv
            BY <1>2 DEF States, WorkerInv
        <3> QED BY <2>1, <3>1, Marked
    <2>2. LastOp(Here) \in Nat \cup {None} /\ Len(operations) + 1 \in Nat \cup {None}
        <3>1. handles[Here] \in Handle /\ Len(operations) \in Nat
            BY <1>2 DEF WorkerInv, AdapterInv, AdapterTypeOK
        <3> QED BY <3>1 DEF LastOp, Handle
    <2>3. CASE Spawn(Here, TRUE)
        BY <2>1, <2>2, <2>3 DEF Spawn
    <2>4. CASE SpawnFails(Here, TRUE)
        <3>1. /\ answer' \in [how : {"returned", "ambiguous", "definite"}, op : Nat]
              /\ answer'.how # "returned" /\ answer'.op = 0
            BY <2>4 DEF SpawnFails, Raise
        <3>2. DOMAIN handles' = DOMAIN handles /\ call' = None
            BY <1>3, <2>1, <2>2, <2>4 DEF SpawnFails
        <3> QED BY <3>1, <3>2
    <2> QED BY <1>1, <2>3, <2>4 DEF Execute
<1>5. UNCHANGED <<phase, grounded, at, box, did, outcome, World, Step, Here>>
    BY <1>1 DEF bridge, worker, World, Step, Here
<1>6. BridgeTypeOK'
    BY <1>4, <1>5 DEF WorkerInv, BridgeTypeOK
<1>7. Position'
    BY <1>1, <1>2, <1>4, <1>5 DEF Position, Working
<1> QED BY <1>1, <1>2, <1>3, <1>6, <1>7 DEF WorkerInv

LEMMA AnswerKeeps ==
    ASSUME WorkerInv, TakeAnswer
    PROVE  WorkerInv'
<1>1. /\ phase = "work" /\ Step \in Commands /\ answer' = None /\ call = None
      /\ at' \in 1..17 /\ World' = World /\ Step' # "create"
    BY AnswerMoves
<1>2. UNCHANGED <<handles, operations, call, live, phase, grounded, box>>
    BY DEF TakeAnswer
<1>3. AdapterInv'
    BY <1>2, AdapterStays DEF WorkerInv
<1>4. did' \in [Worlds -> [Commands -> Nat]] /\ outcome' \in [Worlds -> {"PASS", "FAIL", "ERROR", None}]
    <2>0. /\ did \in [Worlds -> [Commands -> Nat]] /\ answer.op \in Nat
          /\ outcome \in [Worlds -> {"PASS", "FAIL", "ERROR", None}]
        BY DEF WorkerInv, BridgeTypeOK, TakeAnswer
    <2>1. UNCHANGED did \/ did' = [did EXCEPT ![World][Step] = answer.op]
        BY DEF TakeAnswer, Witnessed, GoesWell, GoesWrong
    <2>2. did' \in [Worlds -> [Commands -> Nat]]
        BY <1>1, <2>0, <2>1
    <2>3. UNCHANGED outcome \/ \E o \in {"PASS", "FAIL", "ERROR"} : outcome' = [outcome EXCEPT ![World] = o]
        <3>1. CASE Witnessed(answer.op)
            <4>1. PICK exit : /\ exit = IF answer.op = 0 THEN None ELSE operations[answer.op].exit
                              /\ \E o \in Shown(exit) : outcome' = [outcome EXCEPT ![World] = o]
                BY <3>1 DEF Witnessed
            <4>3. answer.op # 0 => answer.op \in DOMAIN operations /\ operations[answer.op] \in Operation
                BY DEF WorkerInv, Position, AdapterInv, AdapterTypeOK, TakeAnswer
            <4>4. exit \in {0, 1, None}
                BY <4>1, <4>3 DEF Operation
            <4>2. exit \in {0, 1, None} => Shown(exit) \subseteq {"PASS", "FAIL", "ERROR"}
                BY AdapterBounds DEF Shown
            <4> QED BY <4>1, <4>2, <4>4
        <3> QED BY <3>1 DEF TakeAnswer, GoesWell, GoesWrong
    <2> QED BY <2>0, <2>2, <2>3
<1>5. BridgeTypeOK'
    BY <1>1, <1>2, <1>4 DEF WorkerInv, BridgeTypeOK
<1>6. Position'
    BY <1>1, <1>2 DEF WorkerInv, Position, Working, Here, Commands
<1> QED BY <1>3, <1>5, <1>6 DEF WorkerInv

\* A teardown that is tried once, and does not verify.
LEMMA TeardownKeepsWorker ==
    ASSUME WorkerInv, TeardownStep
    PROVE  /\ WorkerInv' /\ Working /\ Step = "teardown" /\ call = None /\ answer = None
           /\ Here \in DOMAIN handles /\ Teardown(Here, FALSE)
           /\ UNCHANGED <<call, answer, live, grounded, model, box, did, outcome, reply>>
           /\ OnlyEnd
           /\ DOMAIN handles' = DOMAIN handles
           /\ \A s \in DOMAIN handles : s # Here => handles'[s] = handles[s]
           /\ ~Working' /\ at' >= at /\ (phase' = "work" => Step' = "create")
           /\ phase' \in {"work", "conclude", "respond"}
           /\ phase' # "respond" => UNCHANGED result
           /\ phase' = "respond" => Return("UNKNOWN_OUTCOME", None) \/ Return("FAILED", None)
<1>1. /\ phase = "work" /\ Step = "teardown" /\ Teardown(Here, FALSE) /\ at \in 1..17
      /\ UNCHANGED <<grounded, model, box, did, outcome, reply>>
    BY DEF TeardownStep, At, Here, WorkerInv, BridgeTypeOK
<1>2. Working /\ call = None /\ answer = None /\ Here \in DOMAIN handles
    BY <1>1 DEF WorkerInv, Position, Working, Commands
<1>3. UNCHANGED <<call, answer, live>>
    BY <1>1 DEF Teardown
<1>4. AdapterInv'
    BY <1>1, <1>2, TeardownKeeps DEF WorkerInv
<1>5. /\ OnlyEnd /\ DOMAIN handles' = DOMAIN handles
      /\ \A s \in DOMAIN handles : s # Here => handles'[s] = handles[s]
    <2>0. AdapterInv
        BY DEF WorkerInv
    <2>1. CASE TeardownRunning(Here, FALSE)
        <3>1. OnlyEnd
            BY <1>2, <2>0, <2>1, CancelledStep DEF TeardownRunning, AdapterInv, Placed
        <3>2. Dispose(Here, FALSE) \/ UNCHANGED handles
            BY <2>1 DEF TeardownRunning
        <3> QED BY <1>2, <2>0, <3>1, <3>2, DisposeStep
    <2>2. CASE TeardownRefused(Here) \/ TeardownIdle(Here, FALSE)
        <3>1. OnlyEnd
            BY <2>0, <2>2 DEF TeardownRefused, TeardownIdle, OnlyEnd, AdapterInv, AdapterTypeOK, Ended
        <3>2. Dispose(Here, FALSE) \/ UNCHANGED handles
            BY <2>2 DEF TeardownRefused, TeardownIdle
        <3> QED BY <1>2, <2>0, <3>1, <3>2, DisposeStep
    <2> QED BY <1>1, <2>1, <2>2 DEF Teardown
<1>6. /\ phase' \in {"work", "conclude", "respond"} /\ at' \in 1..17 /\ at' >= at
      /\ phase' = "work" => Step' = "create"
      /\ phase' # "respond" => UNCHANGED result
      /\ phase' = "respond" => Return("UNKNOWN_OUTCOME", None) \/ Return("FAILED", None)
    <2>1. CASE at < Len(Program) /\ at' = at + 1 /\ UNCHANGED <<phase, result>>
        <3>1. Len(Program) = 17
            BY DEF Program
        <3>2. at + 1 \in 1..17 /\ Program[at + 1][2] = "create"
            BY <1>1, <2>1, <3>1, ProgramFacts DEF Step
        <3> QED BY <1>1, <2>1, <3>2 DEF Step
    <2>2. CASE phase' = "conclude" /\ UNCHANGED <<at, result>>
        BY <1>1, <2>2
    <2>3. CASE (Return("UNKNOWN_OUTCOME", None) \/ Return("FAILED", None)) /\ UNCHANGED at
        <3>1. phase' = "respond"
            BY <2>3 DEF Return
        <3> QED BY <1>1, <2>3, <3>1
    <2> QED BY <2>1, <2>2, <2>3 DEF TeardownStep
<1>7. ~Working'
    BY <1>6 DEF Working
<1>8. BridgeTypeOK'
    BY <1>1, <1>3, <1>6 DEF WorkerInv, BridgeTypeOK, Phases
<1>9. Position'
    BY <1>2, <1>3, <1>6, <1>7 DEF Position
<1> QED BY <1>1, <1>2, <1>3, <1>4, <1>5, <1>6, <1>7, <1>8, <1>9 DEF WorkerInv

\* What the provider and a poll do to the worker's sandbox.
LEMMA PollKeeps ==
    ASSUME WorkerInv, PollEnded \/ PollFails \/ ClientTimeout, UNCHANGED bridge
    PROVE  WorkerInv' /\ call # None /\ call' = None /\ Working /\ call.sandbox = Here
<1>1. call # None /\ call' = None
    BY DEF PollEnded, PollFails, ClientTimeout
<1>2. phase = "work" /\ Step \in Commands /\ call.sandbox = Here /\ Here \in DOMAIN handles
      /\ Working /\ at \in 1..17
    BY <1>1 DEF WorkerInv, Position, Working, Commands, BridgeTypeOK
<1>3. AdapterInv'
    BY PollStep DEF WorkerInv
<1>4. UNCHANGED <<phase, grounded, at, box, did, outcome, World, Step, Here, Working>>
    BY DEF bridge, worker, World, Step, Here, Working
<1>5. call.op \in DOMAIN operations /\ call.op \in Nat
    <2>1. call \in [sandbox : Nat, op : Nat] /\ call.op = Len(operations) /\ call.op # 0
          /\ DOMAIN operations = 1..Len(operations) /\ Len(operations) \in Nat
        BY <1>1 DEF WorkerInv, AdapterInv, AdapterTypeOK, Placed
    <2> QED BY <2>1
<1>6. /\ answer' \in [how : {"returned", "ambiguous", "definite"}, op : Nat]
      /\ IF answer'.how = "returned"
         THEN answer'.op \in DOMAIN operations' /\ operations'[answer'.op].seen
         ELSE answer'.op = 0
    <2>1. CASE PollEnded
        <3>1. answer' = [how |-> "returned", op |-> call.op]
            BY <2>1 DEF PollEnded, Returned
        <3>2. operations[call.op] \in Operation /\ operations' = [operations EXCEPT ![call.op].seen = TRUE]
            BY <1>5, <2>1 DEF PollEnded, WorkerInv, AdapterInv, AdapterTypeOK
        <3> QED BY <1>5, <3>1, <3>2 DEF Operation
    <2>2. CASE PollFails \/ ClientTimeout
        <3>1. PICK how \in {"ambiguous", "definite"} : answer' = [how |-> how, op |-> 0]
            BY <2>2 DEF PollFails, ClientTimeout, Raise
        <3> QED BY <3>1
    <2> QED BY <2>1, <2>2
<1>7. DOMAIN handles' = DOMAIN handles
    <2>1. CASE PollEnded
        BY <2>1 DEF PollEnded, WorkerInv, AdapterInv, AdapterTypeOK
    <2>2. CASE PollFails
        BY <2>2 DEF PollFails
    <2>3. CASE ClientTimeout
        BY <2>3 DEF ClientTimeout, Mark, WorkerInv, AdapterInv, AdapterTypeOK
    <2> QED BY <2>1, <2>2, <2>3
<1>8. BridgeTypeOK'
    BY <1>4, <1>6 DEF WorkerInv, BridgeTypeOK
<1>9. Position'
    BY <1>1, <1>2, <1>4, <1>6, <1>7 DEF Position, Commands
<1> QED BY <1>1, <1>2, <1>3, <1>8, <1>9 DEF WorkerInv

\* An operation that ends by itself has been neither told nor cancelled by that.
LEMMA ProviderKeeps ==
    ASSUME WorkerInv, Provider, UNCHANGED bridge
    PROVE  /\ WorkerInv' /\ OnlyEnd /\ UNCHANGED <<handles, call, answer, live>>
           /\ \A j \in DOMAIN operations :
                  /\ operations'[j].status = "RUNNING" =>
                         operations[j].status = "RUNNING" \/ ~operations[j].told
                  /\ operations'[j].told = operations[j].told
                  /\ operations'[j].unheard = operations[j].unheard
                  /\ operations'[j].seen = operations[j].seen
<1>0. AdapterInv
    BY DEF WorkerInv
<1>1. ASSUME NEW i \in DOMAIN operations, NEW end \in Ends, Finish(i, end)
      PROVE  /\ AdapterInv' /\ OnlyEnd /\ UNCHANGED <<handles, call, answer, live>>
             /\ \A j \in DOMAIN operations : operations'[j].unheard = operations[j].unheard
    <2>1. operations[i] \in Operation
        BY <1>0 DEF AdapterInv, AdapterTypeOK
    <2>2. \A j \in DOMAIN operations : operations'[j].unheard = operations[j].unheard
        <3>1. operations' = [operations EXCEPT ![i].status = end[1], ![i].exit = end[2]]
            BY <1>1 DEF Finish
        <3> QED BY <2>1, <3>1 DEF Operation
    <2> QED BY <1>0, <1>1, <2>2, FinishStep DEF Finish
<1>2. /\ AdapterInv' /\ OnlyEnd /\ UNCHANGED <<handles, call, answer, live>>
      /\ \A j \in DOMAIN operations : operations'[j].unheard = operations[j].unheard
    BY <1>0, <1>1, DeliverStep DEF Provider
<1>3. BridgeTypeOK'
    BY <1>2 DEF bridge, worker, WorkerInv, BridgeTypeOK
<1>4. DOMAIN operations' = DOMAIN operations /\ UNCHANGED <<phase, at, box, Step, World, Here, Working>>
    BY <1>2 DEF OnlyEnd, bridge, worker, Step, World, Here, Working
<1>5. Position'
    BY <1>2, <1>4 DEF OnlyEnd, WorkerInv, Position
<1> QED BY <1>2, <1>3, <1>5 DEF WorkerInv, OnlyEnd

LEMMA WorkerStays ==
    ASSUME WorkerInv, UNCHANGED vars
    PROVE  WorkerInv'
<1>1. AdapterInv'
    BY AdapterStays DEF WorkerInv, vars, adapter
<1>2. BridgeTypeOK' /\ Position'
    BY DEF vars, adapter, bridge, worker, WorkerInv, BridgeTypeOK, Position, Working, Here, World, Step
<1> QED BY <1>1, <1>2 DEF WorkerInv

\* The kinds of steps, for the invariants to come.
Moves ==
    \/ Quiet \/ CreateStep \/ CommandStep \/ TakeAnswer \/ TeardownStep
    \/ (PollEnded \/ PollFails \/ ClientTimeout) /\ UNCHANGED bridge
    \/ Provider /\ UNCHANGED bridge
    \/ UNCHANGED vars

LEMMA WorkerStep == WorkerInv /\ [Next]_vars => WorkerInv' /\ Moves
<1> SUFFICES ASSUME WorkerInv, [Next]_vars PROVE WorkerInv' /\ Moves
    OBVIOUS
<1>1. Moves
    BY DEF Moves, Next, Bridge, Quiet
<1> QED BY <1>1, QuietKeeps, CreateKeeps, CommandKeeps, AnswerKeeps, TeardownKeepsWorker, PollKeeps,
           ProviderKeeps, WorkerStays DEF Moves

-----------------------------------------------------------------------------
\* What the executor has told of cannot change any more; until it does, its
\* count of model calls is that of the client.
Told ==
    /\ phase \in Waiting \cup {"work", "conclude"} => result = None /\ model.counted = model.sent
    /\ result # None =>
           /\ result.operations = live
           /\ result.status # "GENERATION_FAILED" => result.calls = model.sent

LEMMA ToldStep ==
    ASSUME WorkerInv, Told, Moves
    PROVE  Told'
<1>1. CASE Ground \/ Collapse
    BY <1>1 DEF Ground, Collapse, adapter, Told, Waiting
<1>2. CASE AnswerTaken \/ AnswerInvalid
    BY <1>2 DEF AnswerTaken, AnswerInvalid, Ask, adapter, Told, Waiting
<1>3. CASE GenerationFails \/ RefuseToAsk
    BY <1>3 DEF GenerationFails, RefuseToAsk, Ask, Return, adapter, Told, Waiting
<1>4. CASE Prepare
    BY <1>4 DEF Prepare, Return, adapter, Told, Waiting
<1>5. CASE Conclude
    BY <1>5 DEF Conclude, Return, adapter, Told, Waiting
<1>6. CASE Respond
    BY <1>6 DEF Respond, Told, Waiting
<1>7. CASE CreateStep \/ TakeAnswer
    BY <1>7 DEF CreateStep, CreateSandbox, TakeAnswer, Told
<1>8. CASE TeardownStep
    <2>1. /\ UNCHANGED <<live, model>> /\ phase = "work"
          /\ phase' \in {"work", "conclude", "respond"}
          /\ phase' # "respond" => UNCHANGED result
          /\ phase' = "respond" => Return("UNKNOWN_OUTCOME", None) \/ Return("FAILED", None)
        BY <1>8, TeardownKeepsWorker DEF Working
    <2> QED BY <2>1 DEF Told, Return, Waiting
<1>9. CASE CommandStep \/ ((PollEnded \/ PollFails \/ ClientTimeout) /\ UNCHANGED bridge)
    <2>1. phase = "work" /\ UNCHANGED bridge
        BY <1>9, CommandKeeps, PollKeeps DEF Working
    <2> QED BY <2>1 DEF Told, bridge, Waiting
<1>10. CASE Provider /\ UNCHANGED bridge
    <2>1. UNCHANGED live
        BY <1>10, ProviderKeeps
    <2> QED BY <1>10, <2>1 DEF Told, bridge
<1>11. CASE UNCHANGED vars
    BY <1>11 DEF vars, adapter, bridge, Told
<1>12. CASE Quiet
    BY <1>1, <1>2, <1>3, <1>4, <1>5, <1>6, <1>12 DEF Quiet
<1> QED BY <1>7, <1>8, <1>9, <1>10, <1>11, <1>12 DEF Moves

\* Whichever way the executor returned, it has told of all operations that were
\* seen to end and, once there is a candidate, of all model calls, and nothing
\* happens to either afterwards (live_bridge.py:1268).
THEOREM AccountsSurvive == Spec => []AccountingSurvives
<1>1. VerificationInit => WorkerInv /\ Told
    <2>1. VerificationInit => Told
        BY DEF VerificationInit, Told
    <2> QED BY <2>1, WorkerStart
<1>2. WorkerInv /\ Told /\ [Next]_vars => (WorkerInv /\ Told)'
    BY WorkerStep, ToldStep
<1>3. WorkerInv /\ Told => AccountingSurvives
    BY DEF WorkerInv, AdapterInv, Counted, Told, AccountingSurvives
<1> QED BY <1>1, <1>2, <1>3, PTL DEF Spec

-----------------------------------------------------------------------------
\* An operation the adapter can do nothing more about.
Forgotten(i) == ~operations[i].told \/ operations[i].unheard

\* Any other that runs is the last of the worker's sandbox, which is then torn
\* down as running; the sandboxes of other worlds are torn down.
Reaped ==
    /\ \A i \in DOMAIN operations : operations[i].status = "RUNNING" =>
           \/ Forgotten(i)
           \/ /\ Working /\ handles[Here].state = "RUNNING" /\ handles[Here].op = i
              /\ \/ call # None \/ Step = "teardown"
                 \/ answer # None /\ answer.how # "returned"
    /\ \A s \in DOMAIN handles :
           handles[s].state \in {"RUNNING", "DISPOSED"} \/ (Working /\ s = Here)

LEMMA QuietReaps ==
    ASSUME WorkerInv, Reaped, Quiet
    PROVE  Reaped'
<1>1. UNCHANGED <<handles, operations, call, answer>> /\ ~Working
    BY QuietStep DEF Working
<1> QED BY <1>1 DEF Reaped, Forgotten

LEMMA CreateReaps ==
    ASSUME WorkerInv, Reaped, CreateStep
    PROVE  Reaped'
<1>1. /\ ~Working /\ Working' /\ Here' = Len(handles) + 1 /\ UNCHANGED operations
      /\ handles' = Append(handles, NewHandle)
    BY CreateKeeps DEF CreateStep, At, Working, CreateSandbox
<1>2. /\ handles \in Seq(Handle) /\ handles' \in Seq(Handle)
      /\ DOMAIN handles = 1..Len(handles) /\ Len(handles) \in Nat
    BY CreateKeeps DEF WorkerInv, AdapterInv, AdapterTypeOK
<1>3. /\ DOMAIN handles' = 1..(Len(handles) + 1)
      /\ \A s \in DOMAIN handles : handles'[s] = handles[s]
    BY <1>1, <1>2
<1> QED BY <1>1, <1>2, <1>3 DEF Reaped, Forgotten

LEMMA CommandReaps ==
    ASSUME WorkerInv, Reaped, CommandStep
    PROVE  Reaped'
<1>1. /\ Working /\ Here \in 1..Len(handles) /\ Here \in DOMAIN handles /\ Execute(Here, TRUE)
      /\ UNCHANGED bridge /\ call = None /\ answer = None /\ AdapterInv /\ Step # "teardown"
    BY CommandKeeps DEF WorkerInv, CommandStep, Commands
<1>2. UNCHANGED <<Working, Here>>
    BY <1>1 DEF bridge, worker, Working, Here, World, Step
<1>3. \A i \in DOMAIN operations : operations[i].status = "RUNNING" => Forgotten(i)
    BY <1>1 DEF Reaped
<1>4. Here \in 0..Len(handles) /\ Here # 0 /\ "RUNNING" \in States
    BY <1>1 DEF States
<1>5. LastOp(Here) \in Nat \cup {None} /\ Len(operations) + 1 \in Nat \cup {None}
    <2>1. handles[Here] \in Handle /\ Len(operations) \in Nat
        BY <1>1 DEF AdapterInv, AdapterTypeOK
    <2> QED BY <1>4, <2>1 DEF LastOp, Handle
<1>6. ASSUME NEW op \in Nat \cup {None}, Mark(Here, "RUNNING", op)
      PROVE  /\ DOMAIN handles' = DOMAIN handles
             /\ handles'[Here].state = "RUNNING" /\ handles'[Here].op = op
             /\ \A s \in DOMAIN handles : s # Here => handles'[s] = handles[s]
    BY <1>1, <1>4, <1>6, Marked
<1>7. ASSUME NEW told \in BOOLEAN, Send(Here, TRUE, told)
      PROVE  /\ DOMAIN operations' = 1..(Len(operations) + 1) /\ DOMAIN operations = 1..Len(operations)
             /\ operations'[Len(operations) + 1].told = told /\ Len(operations) \in Nat
             /\ \A i \in DOMAIN operations : operations'[i] = operations[i]
    <2>1. operations \in Seq(Operation) /\ Len(operations) \in Nat /\ DOMAIN operations = 1..Len(operations)
        BY <1>1 DEF AdapterInv, AdapterTypeOK
    <2>2. PICK n : n = Len(operations) + 1
        OBVIOUS
    <2>3. PICK keeps \in BOOLEAN : keeps = TRUE
        OBVIOUS
    <2>4. /\ DOMAIN operations' = 1..n /\ operations'[n].told = told
          /\ \A i \in DOMAIN operations : operations'[i] = operations[i]
        BY <1>1, <1>4, <1>7, <2>2, <2>3, Sent
    <2> QED BY <2>1, <2>2, <2>4
<1>8. CASE Spawn(Here, TRUE)
    <2>1. PICK n : n = Len(operations) + 1
        OBVIOUS
    <2>a. PICK told \in BOOLEAN : told = TRUE
        OBVIOUS
    <2>2. Mark(Here, "RUNNING", n) /\ Send(Here, TRUE, told)
        BY <1>8, <2>1, <2>a DEF Spawn
    <2>3. call' \in [sandbox : Nat, op : Nat]
        <3>1. call' = [sandbox |-> Here, op |-> n] /\ n \in Nat /\ Here \in Nat
            BY <1>1, <1>8, <2>1 DEF Spawn, AdapterInv, AdapterTypeOK
        <3> QED BY <3>1
    <2>4. call' # None
        BY <2>3, AdapterBounds
    <2>5. /\ DOMAIN handles' = DOMAIN handles
          /\ handles'[Here].state = "RUNNING" /\ handles'[Here].op = n
          /\ \A s \in DOMAIN handles : s # Here => handles'[s] = handles[s]
        BY <1>5, <1>6, <2>1, <2>2
    <2>6. /\ DOMAIN operations' = 1..n /\ DOMAIN operations = 1..(n - 1) /\ n \in Nat
          /\ \A i \in DOMAIN operations : operations'[i] = operations[i]
        <3>1. /\ DOMAIN operations' = 1..(Len(operations) + 1) /\ DOMAIN operations = 1..Len(operations)
              /\ Len(operations) \in Nat
              /\ \A i \in DOMAIN operations : operations'[i] = operations[i]
            BY <1>7, <2>2
        <3> QED BY <2>1, <3>1
    <2>7. \A i \in DOMAIN operations' : i # n /\ operations'[i].status = "RUNNING" => Forgotten(i)'
        BY <1>3, <2>6 DEF Forgotten
    <2>8. \A s \in DOMAIN handles : s # Here => handles[s].state \in {"RUNNING", "DISPOSED"}
        BY DEF Reaped
    <2> QED BY <1>1, <1>2, <2>4, <2>5, <2>7, <2>8 DEF Reaped
<1>9. CASE SpawnFails(Here, TRUE)
    <2>1. Mark(Here, "RUNNING", LastOp(Here)) /\ Send(Here, TRUE, FALSE)
        BY <1>9 DEF SpawnFails
    <2>2. \A i \in DOMAIN operations' : operations'[i].status = "RUNNING" => Forgotten(i)'
        <3>1. PICK n : n = Len(operations) + 1
            OBVIOUS
        <3>2. PICK told \in BOOLEAN : told = FALSE
            OBVIOUS
        <3>3. /\ DOMAIN operations' = 1..n /\ DOMAIN operations = 1..(n - 1) /\ n \in Nat
              /\ ~operations'[n].told
              /\ \A i \in DOMAIN operations : operations'[i] = operations[i]
            <4>1. /\ DOMAIN operations' = 1..(Len(operations) + 1)
                  /\ DOMAIN operations = 1..Len(operations) /\ Len(operations) \in Nat
                  /\ operations'[Len(operations) + 1].told = told
                  /\ \A i \in DOMAIN operations : operations'[i] = operations[i]
                BY <1>7, <2>1, <3>2
            <4> QED BY <3>1, <3>2, <4>1
        <3> QED BY <1>3, <3>3 DEF Forgotten
    <2>3. \A s \in DOMAIN handles' : handles'[s].state \in {"RUNNING", "DISPOSED"} \/ (Working' /\ s = Here')
        BY <1>1, <1>2, <1>5, <1>6, <2>1 DEF Reaped
    <2> QED BY <2>2, <2>3 DEF Reaped
<1> QED BY <1>1, <1>8, <1>9 DEF Execute

LEMMA AnswerReaps ==
    ASSUME WorkerInv, Reaped, TakeAnswer
    PROVE  Reaped'
<1>1. /\ phase = "work" /\ Step \in Commands /\ World' = World /\ Step' # "create" /\ call = None
      /\ answer # None /\ (Step' \in Commands => answer.how = "returned")
      /\ UNCHANGED <<handles, operations, phase, box>>
    BY AnswerMoves DEF TakeAnswer
<1>2. Working /\ Working' /\ Here' = Here
    BY <1>1 DEF Working, Commands, Here
<1>3. answer.how # "returned" => Step' = "teardown"
    <2>1. at' \in 1..17
        BY AnswerMoves
    <2>2. Step' \in Commands \cup {"create", "teardown"}
        BY <2>1, ProgramFacts DEF Step
    <2> QED BY <1>1, <2>2
<1>4. Step # "teardown"
    BY <1>1 DEF Commands
<1> QED BY <1>1, <1>2, <1>3, <1>4 DEF Reaped, Forgotten

LEMMA TeardownReaps ==
    ASSUME WorkerInv, Reaped, TeardownStep
    PROVE  Reaped'
<1>1. /\ Working /\ Step = "teardown" /\ Here \in DOMAIN handles /\ Teardown(Here, FALSE)
      /\ OnlyEnd /\ DOMAIN handles' = DOMAIN handles /\ AdapterInv
      /\ \A s \in DOMAIN handles : s # Here => handles'[s] = handles[s]
    BY TeardownKeepsWorker DEF WorkerInv
<1>2. DOMAIN operations' = DOMAIN operations /\ handles[Here] \in Handle
    BY <1>1 DEF OnlyEnd, AdapterInv, AdapterTypeOK
<1>3. \A s \in DOMAIN handles : s # Here => handles[s].state \in {"RUNNING", "DISPOSED"}
    BY DEF Reaped
<1>4. \A i \in DOMAIN operations : operations[i].status = "RUNNING" =>
          Forgotten(i) \/ (handles[Here].state = "RUNNING" /\ handles[Here].op = i)
    BY DEF Reaped
<1>5. Dispose(Here, FALSE) => handles'[Here].state = "DISPOSED"
    BY <1>1, <1>2 DEF Dispose, Handle, AdapterInv, AdapterTypeOK
<1>6. CASE TeardownRunning(Here, FALSE)
    <2>1. PICK op : op = handles[Here].op
        OBVIOUS
    <2>2. op \in DOMAIN operations /\ op # None /\ handles[Here].state = "RUNNING"
        BY <1>1, <1>6, <2>1 DEF TeardownRunning, AdapterInv, Placed
    <2>3. CASE Cancelled(op, TRUE) /\ Dispose(Here, FALSE)
        <3>1. /\ operations'[op].status # "RUNNING"
              /\ \A j \in DOMAIN operations : j # op => operations'[j] = operations[j]
            BY <1>1, <2>2, <2>3, CancelledStep
        <3> QED BY <1>1, <1>2, <1>3, <1>4, <1>5, <2>1, <2>3, <3>1 DEF Reaped, Forgotten
    <2>4. CASE Cancelled(op, FALSE) /\ UNCHANGED handles
        <3>1. /\ operations'[op].unheard
              /\ \A j \in DOMAIN operations : j # op => operations'[j] = operations[j]
            BY <1>1, <2>2, <2>4, CancelledStep
        <3> QED BY <1>1, <1>2, <1>3, <1>4, <2>1, <2>2, <2>4, <3>1 DEF Reaped, Forgotten
    <2> QED BY <1>6, <2>1, <2>3, <2>4 DEF TeardownRunning
<1>7. CASE TeardownRefused(Here)
    <2>1. /\ handles[Here].state = "RUNNING" /\ handles[Here].op = None
          /\ UNCHANGED <<handles, operations>>
        BY <1>7 DEF TeardownRefused
    <2>2. None \notin DOMAIN operations
        BY <1>1, AdapterBounds DEF AdapterInv, AdapterTypeOK
    <2> QED BY <1>1, <1>3, <1>4, <2>1, <2>2 DEF Reaped, Forgotten
<1>8. CASE TeardownIdle(Here, FALSE)
    <2>1. handles[Here].state # "RUNNING" /\ UNCHANGED operations /\ Dispose(Here, FALSE)
        BY <1>8 DEF TeardownIdle
    <2> QED BY <1>1, <1>2, <1>3, <1>4, <1>5, <2>1 DEF Reaped, Forgotten
<1> QED BY <1>1, <1>6, <1>7, <1>8 DEF Teardown

\* Only the command being polled may be running and not forgotten.
LEMMA OnlyTheCall ==
    ASSUME WorkerInv, Reaped, call # None
    PROVE  /\ call.op \in DOMAIN operations /\ call.sandbox = Here /\ Here \in DOMAIN handles
           /\ Here \in 0..Len(handles) /\ Here # 0
           /\ handles[Here].state = "RUNNING" /\ handles[Here].op = call.op
           /\ \A i \in DOMAIN operations : i # call.op /\ operations[i].status = "RUNNING" => Forgotten(i)
<1>1. phase = "work" /\ Step \in Commands /\ call.sandbox = Here /\ Here \in DOMAIN handles
    BY DEF WorkerInv, Position, Working, Commands
<1>2. /\ call.op = Len(operations) /\ call.op # 0
      /\ DOMAIN operations = 1..Len(operations) /\ DOMAIN handles = 1..Len(handles)
      /\ Len(operations) \in Nat /\ Len(handles) \in Nat
    BY DEF WorkerInv, AdapterInv, AdapterTypeOK, Placed
<1>3. Here # 0 /\ Here \in 0..Len(handles) /\ call.op \in DOMAIN operations
    BY <1>1, <1>2
<1>4. handles[Here].state = "RUNNING" /\ handles[Here].op = call.op
    BY <1>1, <1>3 DEF WorkerInv, AdapterInv, Placed
<1> QED BY <1>1, <1>3, <1>4 DEF Reaped

LEMMA PollReaps ==
    ASSUME WorkerInv, Reaped, PollEnded \/ PollFails \/ ClientTimeout, UNCHANGED bridge
    PROVE  Reaped'
<1>1. /\ call # None /\ call' = None /\ Working /\ call.sandbox = Here /\ AdapterInv
      /\ UNCHANGED <<Working, Here, Step>>
    BY PollKeeps DEF WorkerInv, bridge, worker, Working, Here, World, Step
<1>2. PICK op : op = call.op
    OBVIOUS
<1>3. /\ op \in DOMAIN operations /\ Here \in DOMAIN handles /\ Here \in 0..Len(handles) /\ Here # 0
      /\ handles[Here].op = op /\ handles[Here].state = "RUNNING"
      /\ \A i \in DOMAIN operations : i # op /\ operations[i].status = "RUNNING" => Forgotten(i)
    BY <1>1, <1>2, OnlyTheCall
<1>4. \A s \in DOMAIN handles : s # Here => handles[s].state \in {"RUNNING", "DISPOSED"}
    BY DEF Reaped
<1>5. operations[op] \in Operation /\ handles \in Seq(Handle)
    BY <1>1, <1>3 DEF AdapterInv, AdapterTypeOK
<1>6. CASE PollEnded
    <2>1. operations[op].status # "RUNNING" /\ operations' = [operations EXCEPT ![op].seen = TRUE]
        BY <1>2, <1>6 DEF PollEnded, Terminal
    <2>2. /\ DOMAIN operations' = DOMAIN operations
          /\ \A i \in DOMAIN operations : i # op => operations'[i] = operations[i]
          /\ operations'[op].status # "RUNNING"
        BY <1>3, <1>5, <2>1 DEF AdapterInv, AdapterTypeOK, Operation
    <2>3. \A i \in DOMAIN operations' : operations'[i].status = "RUNNING" => Forgotten(i)'
        BY <1>3, <2>2 DEF Forgotten
    <2>4. /\ DOMAIN handles' = DOMAIN handles
          /\ \A s \in DOMAIN handles : s # Here => handles'[s] = handles[s]
        BY <1>1, <1>3, <1>5, <1>6 DEF PollEnded
    <2> QED BY <1>1, <1>4, <2>3, <2>4 DEF Reaped
<1>7. CASE PollFails
    <2>1. /\ UNCHANGED <<handles, operations>>
          /\ \E how \in {"ambiguous", "definite"} : answer' = [how |-> how, op |-> 0]
        BY <1>7 DEF PollFails, Raise
    <2>2. PICK how \in {"ambiguous", "definite"} : answer' = [how |-> how, op |-> 0]
        BY <2>1
    <2>3. /\ answer' \in [how : {"returned", "ambiguous", "definite"}, op : Nat]
          /\ answer'.how # "returned"
        BY <2>2
    <2>4. answer' # None
        BY <2>3, AdapterBounds
    <2> QED BY <1>1, <2>1, <2>3, <2>4 DEF Reaped, Forgotten
<1>8. CASE ClientTimeout
    <2>1. /\ Cancelled(op, TRUE) \/ Cancelled(op, FALSE)
          /\ Mark(Here, "FAILED", LastOp(Here))
        BY <1>1, <1>2, <1>8 DEF ClientTimeout
    <2>2. PICK confirmed \in BOOLEAN : Cancelled(op, confirmed)
        BY <2>1
    <2>3. /\ DOMAIN operations' = DOMAIN operations
          /\ operations'[op].status # "RUNNING" \/ operations'[op].unheard
          /\ \A i \in DOMAIN operations : i # op => operations'[i] = operations[i]
        BY <1>1, <1>3, <2>2, CancelledStep DEF OnlyEnd
    <2>4. \A i \in DOMAIN operations' : operations'[i].status = "RUNNING" => Forgotten(i)'
        BY <1>3, <2>3 DEF Forgotten
    <2>5. LastOp(Here) \in Nat \cup {None} /\ "FAILED" \in States
        <3>1. handles[Here] \in Handle
            BY <1>3, <1>5
        <3> QED BY <1>3, <3>1 DEF LastOp, Handle, States
    <2>6. /\ DOMAIN handles' = DOMAIN handles
          /\ \A s \in DOMAIN handles : s # Here => handles'[s] = handles[s]
        BY <1>1, <1>3, <2>1, <2>5, Marked
    <2> QED BY <1>1, <1>4, <2>4, <2>6 DEF Reaped
<1> QED BY <1>6, <1>7, <1>8

LEMMA ReapedStep ==
    ASSUME WorkerInv, Reaped, Moves
    PROVE  Reaped'
<1>1. CASE Provider /\ UNCHANGED bridge
    <2>1. /\ UNCHANGED <<handles, call, answer, Working, Here, Step>>
          /\ DOMAIN operations' = DOMAIN operations
          /\ \A j \in DOMAIN operations :
                  /\ operations'[j].status = "RUNNING" =>
                         operations[j].status = "RUNNING" \/ ~operations[j].told
                  /\ operations'[j].told = operations[j].told
                  /\ operations'[j].unheard = operations[j].unheard
        <3>1. UNCHANGED <<Working, Here, Step>>
            BY <1>1 DEF bridge, worker, Working, Here, World, Step
        <3> QED BY <1>1, <3>1, ProviderKeeps DEF OnlyEnd
    <2> QED BY <2>1 DEF Reaped, Forgotten
<1>2. CASE UNCHANGED vars
    BY <1>2 DEF vars, adapter, bridge, worker, Reaped, Forgotten, Working, Here, World, Step
<1> QED BY <1>1, <1>2, QuietReaps, CreateReaps, CommandReaps, AnswerReaps, TeardownReaps, PollReaps DEF Moves

\* Of what still runs when the request is over, the adapter never learned the
\* name or never heard that it was cancelled, and every sandbox that could be
\* disposed of is (verifier/sandbox.py:694-706, trust_bridge.py:1168-1262).
THEOREM NothingIsLeftRunning == Spec => []NothingLeftRunning
<1>1. VerificationInit => WorkerInv /\ Reaped
    <2>1. VerificationInit => Reaped
        BY DEF VerificationInit, AdapterInit, Reaped
    <2> QED BY <2>1, WorkerStart
<1>2. WorkerInv /\ Reaped /\ [Next]_vars => (WorkerInv /\ Reaped)'
    BY WorkerStep, ReapedStep
<1>3. Reaped => NothingLeftRunning
    BY DEF Reaped, Working, Forgotten, NothingLeftRunning, Running
<1> QED BY <1>1, <1>2, <1>3, PTL DEF Spec

-----------------------------------------------------------------------------
\* The operations of a world so far: none of a step that is still ahead.
Made(w) == {did[w][c] : c \in Commands} \ {0}
Behind == \A w \in Worlds, c \in Commands : did[w][c] # 0 => Place(w, c) < at

\* The worker's sandbox holds them, and nothing else; a command starts from them.
Built ==
    phase = "work" /\ Step \in Commands =>
        /\ IsFiniteSet(Made(World)) /\ Cardinality(Made(World)) = Before(at)
        /\ answer = None => handles[Here].image = Made(World)
        /\ call # None => operations[call.op].from = Made(World) /\ operations[call.op].keeps
        /\ answer # None /\ answer.how = "returned" =>
               /\ operations[answer.op].from = Made(World)
               /\ operations[answer.op].status = "SUCCESS" =>
                      handles[Here].image = Made(World) \cup {answer.op}

Others(w) == {did[w][c] : c \in Commands \ {"witness"}} \ {0}

\* A witness that has run ran on all of its world, and what it showed stands.
Shows ==
    \A w \in Worlds : did[w]["witness"] # 0 =>
        LET o == operations[did[w]["witness"]] IN
        /\ did[w]["witness"] \in DOMAIN operations /\ o.seen /\ o.from = Others(w)
        /\ Cardinality(Others(w)) = IF w = "BASE" THEN 2 ELSE 3
        /\ outcome[w] = "PASS" => o.exit = 0

Genuine ==
    /\ reply \in [code : Nat \cup {None}, claim : {"IN_PROGRESS", "AMBIGUOUS", "COMPLETED"}]
    /\ reply.code = 201 => grounded /\ phase = "done"

WorldsInv == Behind /\ Built /\ Shows /\ Genuine

\* What was seen to end stays as it was.
LEMMA ShowsKept ==
    ASSUME Shows, UNCHANGED <<did, outcome>>,
           \A i \in DOMAIN operations : operations[i].seen =>
               /\ i \in DOMAIN operations' /\ operations'[i].seen
               /\ operations'[i].from = operations[i].from
               /\ operations'[i].exit = operations[i].exit
    PROVE  Shows'
<1> SUFFICES ASSUME NEW w \in Worlds, did'[w]["witness"] # 0
             PROVE  LET o == operations'[did'[w]["witness"]] IN
                    /\ did'[w]["witness"] \in DOMAIN operations' /\ o.seen /\ o.from = Others(w)'
                    /\ Cardinality(Others(w)') = IF w = "BASE" THEN 2 ELSE 3
                    /\ outcome'[w] = "PASS" => o.exit = 0
    BY DEF Shows
<1>1. PICK i : i = did[w]["witness"]
    OBVIOUS
<1>2. /\ i \in DOMAIN operations /\ operations[i].seen /\ operations[i].from = Others(w)
      /\ Cardinality(Others(w)) = IF w = "BASE" THEN 2 ELSE 3
      /\ outcome[w] = "PASS" => operations[i].exit = 0
    BY <1>1 DEF Shows
<1>3. Others(w)' = Others(w)
    BY DEF Others
<1> QED BY <1>1, <1>2, <1>3

\* Ends do not touch it.
LEMMA SeenStays ==
    ASSUME WorkerInv, OnlyEnd
    PROVE  \A i \in DOMAIN operations : operations[i].seen =>
               /\ i \in DOMAIN operations' /\ operations'[i].seen
               /\ operations'[i].from = operations[i].from
               /\ operations'[i].exit = operations[i].exit
               /\ operations'[i].status = operations[i].status
BY DEF OnlyEnd, WorkerInv, AdapterInv, Ended

LEMMA QuietShows ==
    ASSUME WorkerInv, WorldsInv, Quiet
    PROVE  WorldsInv'
<1>1. /\ UNCHANGED <<handles, operations, call, answer, at, box, did, outcome>>
      /\ phase # "work" /\ (phase' = "work" => phase = "prepare")
    BY QuietStep DEF worker
<1>2. phase' = "work" => Step' \notin Commands
    <2>1. phase = "prepare" => at = 1
        BY DEF WorkerInv, Position
    <2>2. Program[1][2] \notin Commands
        BY DEF Program, Commands
    <2> QED BY <1>1, <2>1, <2>2 DEF Step
<1>3. Behind' /\ Built'
    BY <1>1, <1>2 DEF WorldsInv, Behind, Built
<1>4. Shows'
    BY <1>1, ShowsKept DEF WorldsInv
<1>5. Genuine'
    <2>1. CASE Respond
        <3>1. PICK c \in Code : reply' = [code |-> c, claim |->
                  IF result.status = "UNKNOWN_OUTCOME" THEN "AMBIGUOUS" ELSE "COMPLETED"]
              \/ reply' = [reply EXCEPT !.code = 502]
            BY <2>1 DEF Respond, Code
        <3>2. c \in {201, 502, 503} /\ (c = 201 => grounded)
            BY DEF Code, Certified, Attested
        <3>3. phase' = "done" /\ UNCHANGED grounded
            BY <2>1 DEF Respond
        <3> QED BY <3>1, <3>2, <3>3 DEF WorldsInv, Genuine
    <2>2. CASE ~Respond
        <3>1. UNCHANGED reply /\ phase # "done"
            BY <2>2 DEF Quiet, Ground, Collapse, AnswerTaken, AnswerInvalid, GenerationFails,
               RefuseToAsk, Ask, Prepare, Conclude
        <3> QED BY <3>1 DEF WorldsInv, Genuine
    <2> QED BY <2>1, <2>2
<1> QED BY <1>3, <1>4, <1>5 DEF WorldsInv

LEMMA CreateShows ==
    ASSUME WorkerInv, WorldsInv, CreateStep
    PROVE  WorldsInv'
<1>1. /\ World' = World /\ Step' = "clone" /\ Here' = Len(handles) + 1 /\ phase = "work"
      /\ handles' = Append(handles, NewHandle) /\ Step = "create" /\ at' = at + 1 /\ at \in 1..17
      /\ UNCHANGED <<operations, call, answer, phase, grounded, did, outcome, reply>>
    BY CreateKeeps DEF CreateStep, At, CreateSandbox, WorkerInv, BridgeTypeOK
<1>2. call = None /\ answer = None
    BY <1>1 DEF WorkerInv, Position, Commands
<1>3. /\ World \in Worlds /\ Before(at + 1) = 0 /\ \A c \in Commands : Place(World, c) > at
    BY <1>1, ProgramFacts DEF World, Step
<1>4. \A w \in Worlds, c \in Commands : Place(w, c) \in Nat
    BY DEF Place, Worlds, Commands
<1>5. Made(World) = {} /\ Made(World)' = {}
    BY <1>1, <1>3, <1>4, SMTT(30) DEF WorldsInv, Behind, Made
<1>6. handles'[Here'].image = {}
    BY <1>1 DEF NewHandle, WorkerInv, AdapterInv, AdapterTypeOK
<1>7. IsFiniteSet({}) /\ Cardinality({}) = 0
    BY FS_EmptySet
<1>8. Built'
    BY <1>1, <1>2, <1>3, <1>5, <1>6, <1>7 DEF Built
<1>9. Behind'
    BY <1>1, <1>4 DEF WorldsInv, Behind
<1>10. Shows'
    BY <1>1, ShowsKept DEF WorldsInv
<1>11. Genuine'
    BY <1>1 DEF WorldsInv, Genuine
<1> QED BY <1>8, <1>9, <1>10, <1>11 DEF WorldsInv

LEMMA CommandShows ==
    ASSUME WorkerInv, WorldsInv, CommandStep
    PROVE  WorldsInv'
<1>1. /\ Working /\ Here \in 1..Len(handles) /\ Here \in DOMAIN handles /\ Execute(Here, TRUE)
      /\ UNCHANGED bridge /\ call = None /\ answer = None /\ AdapterInv
      /\ phase = "work" /\ Step \in Commands
    BY CommandKeeps DEF WorkerInv, CommandStep
<1>2. UNCHANGED <<phase, grounded, at, did, outcome, reply, Here, Step, World>>
    BY <1>1 DEF bridge, worker, Here, World, Step
<1>3. /\ IsFiniteSet(Made(World)) /\ Cardinality(Made(World)) = Before(at)
      /\ handles[Here].image = Made(World) /\ Made(World)' = Made(World)
    BY <1>1, <1>2 DEF WorldsInv, Built, Made
<1>4. Here \in 0..Len(handles) /\ Here # 0 /\ "RUNNING" \in States
    BY <1>1 DEF States
<1>5. LastOp(Here) \in Nat \cup {None} /\ Len(operations) + 1 \in Nat \cup {None}
    <2>1. handles[Here] \in Handle /\ Len(operations) \in Nat
        BY <1>1 DEF AdapterInv, AdapterTypeOK
    <2> QED BY <1>4, <2>1 DEF LastOp, Handle
<1>6. ASSUME NEW op \in Nat \cup {None}, Mark(Here, "RUNNING", op)
      PROVE  handles'[Here].image = Made(World)
    <2>1. handles'[Here].image = handles[Here].image
        BY <1>1, <1>4, <1>6, Marked
    <2> QED BY <1>3, <2>1
<1>7. ASSUME NEW told \in BOOLEAN, Send(Here, TRUE, told)
      PROVE  /\ DOMAIN operations' = 1..(Len(operations) + 1) /\ DOMAIN operations = 1..Len(operations)
             /\ Len(operations) \in Nat
             /\ operations'[Len(operations) + 1].from = handles[Here].image
             /\ operations'[Len(operations) + 1].keeps
             /\ \A i \in DOMAIN operations : operations'[i] = operations[i]
    <2>1. operations \in Seq(Operation) /\ Len(operations) \in Nat /\ DOMAIN operations = 1..Len(operations)
        BY <1>1 DEF AdapterInv, AdapterTypeOK
    <2>2. PICK n : n = Len(operations) + 1
        OBVIOUS
    <2>3. PICK keeps \in BOOLEAN : keeps = TRUE
        OBVIOUS
    <2>4. /\ DOMAIN operations' = 1..n /\ operations'[n].from = handles[Here].image
          /\ operations'[n].keeps = keeps
          /\ \A i \in DOMAIN operations : operations'[i] = operations[i]
        BY <1>1, <1>4, <1>7, <2>2, <2>3, Sent
    <2> QED BY <2>1, <2>2, <2>3, <2>4
<1>8. /\ \A i \in DOMAIN operations : i \in DOMAIN operations' /\ operations'[i] = operations[i]
      /\ handles'[Here].image = Made(World)
      /\ call' # None => operations'[call'.op].from = Made(World) /\ operations'[call'.op].keeps
      /\ answer' # None => answer'.how # "returned"
    <2>1. CASE Spawn(Here, TRUE)
        <3>1. PICK told \in BOOLEAN : told = TRUE
            OBVIOUS
        <3>2. /\ Send(Here, TRUE, told) /\ Mark(Here, "RUNNING", Len(operations) + 1)
              /\ call' = [sandbox |-> Here, op |-> Len(operations) + 1] /\ answer' = None
            BY <2>1, <3>1 DEF Spawn
        <3>3. /\ DOMAIN operations' = 1..(Len(operations) + 1) /\ DOMAIN operations = 1..Len(operations)
              /\ Len(operations) \in Nat
              /\ operations'[Len(operations) + 1].from = handles[Here].image
              /\ operations'[Len(operations) + 1].keeps
              /\ \A i \in DOMAIN operations : operations'[i] = operations[i]
            BY <1>7, <3>2
        <3>4. handles'[Here].image = Made(World)
            BY <1>5, <1>6, <3>2
        <3> QED BY <1>3, <3>2, <3>3, <3>4
    <2>2. CASE SpawnFails(Here, TRUE)
        <3>1. PICK told \in BOOLEAN : told = FALSE
            OBVIOUS
        <3>2. Send(Here, TRUE, told) /\ Mark(Here, "RUNNING", LastOp(Here)) /\ call' = None
            BY <1>1, <2>2, <3>1 DEF SpawnFails
        <3>3. \A i \in DOMAIN operations : i \in DOMAIN operations' /\ operations'[i] = operations[i]
            <4>1. /\ DOMAIN operations' = 1..(Len(operations) + 1) /\ DOMAIN operations = 1..Len(operations)
                  /\ Len(operations) \in Nat
                  /\ \A i \in DOMAIN operations : operations'[i] = operations[i]
                BY <1>7, <3>2
            <4> QED BY <4>1
        <3>4. handles'[Here].image = Made(World)
            BY <1>5, <1>6, <3>2
        <3>5. answer'.how # "returned"
            BY <2>2 DEF SpawnFails, Raise
        <3> QED BY <3>2, <3>3, <3>4, <3>5
    <2> QED BY <1>1, <2>1, <2>2 DEF Execute
<1>9. Built'
    BY <1>2, <1>3, <1>8 DEF Built
<1>10. Behind' /\ Genuine'
    BY <1>2 DEF WorldsInv, Behind, Genuine
<1>11. Shows'
    BY <1>2, <1>8, ShowsKept DEF WorldsInv
<1> QED BY <1>9, <1>10, <1>11 DEF WorldsInv

\* A step that went well is one more of the world's.
LEMMA WellShows ==
    ASSUME WorkerInv, WorldsInv, TakeAnswer, GoesWell(answer.op), answer.how = "returned"
    PROVE  WorldsInv'
<1>1. /\ phase = "work" /\ Step \in Commands \ {"witness"} /\ answer # None /\ answer' = None
      /\ call = None /\ at' = at + 1 /\ World' = World /\ at \in 1..17
      /\ UNCHANGED <<handles, operations, call, phase, grounded, box, outcome, reply>>
    BY AnswerMoves DEF TakeAnswer, GoesWell, WorkerInv, BridgeTypeOK
<1>2. PICK op : op = answer.op
    OBVIOUS
<1>3. /\ op \in DOMAIN operations /\ operations[op].exit = 0
      /\ did' = [did EXCEPT ![World][Step] = op]
    BY <1>1, <1>2 DEF GoesWell, WorkerInv, Position
<1>4. /\ World \in Worlds /\ Place(World, Step) = at /\ Place(World, "witness") >= at
      /\ Before(at) \in Nat /\ Before(at + 1) = Before(at) + 1
    BY <1>1, ProgramFacts DEF World, Step
<1>5. did \in [Worlds -> [Commands -> Nat]]
    BY DEF WorkerInv, BridgeTypeOK
<1>6. \A w \in Worlds, c \in Commands : Place(w, c) \in Nat
    BY DEF Place, Worlds, Commands
<1>7. did[World][Step] = 0 /\ did[World]["witness"] = 0
    BY <1>1, <1>4, <1>6 DEF WorldsInv, Behind, Commands
<1>8. /\ IsFiniteSet(Made(World)) /\ Cardinality(Made(World)) = Before(at)
      /\ operations[op].from = Made(World)
      /\ operations[op].status = "SUCCESS" => handles[Here].image = Made(World) \cup {op}
    BY <1>1, <1>2 DEF WorldsInv, Built
<1>9. operations[op].status = "SUCCESS"
    BY <1>3 DEF WorkerInv, AdapterInv, Ended
<1>10. op \notin Made(World) /\ op # 0
    <2>1. op \in 1..Len(operations) /\ Len(operations) \in Nat
        BY <1>3 DEF WorkerInv, AdapterInv, AdapterTypeOK
    <2>2. \A i \in operations[op].from : i \in 1..(op - 1)
        BY <1>3 DEF WorkerInv, AdapterInv, StartsHold
    <2> QED BY <1>8, <2>1, <2>2
<1>11. /\ did'[World][Step] = op
       /\ \A c \in Commands : c # Step => did'[World][c] = did[World][c]
       /\ \A w \in Worlds : w # World => did'[w] = did[w]
    BY <1>1, <1>3, <1>4, <1>5
<1>12. Made(World)' = Made(World) \cup {op}
    BY <1>1, <1>7, <1>10, <1>11 DEF Made
<1>13. IsFiniteSet(Made(World)') /\ Cardinality(Made(World)') = Before(at')
    <2>1. PICK M : M = Made(World)
        OBVIOUS
    <2>2. IsFiniteSet(M \cup {op}) /\ Cardinality(M \cup {op}) = Cardinality(M) + 1
        BY <1>8, <1>10, <2>1, FS_AddElement
    <2> QED BY <1>1, <1>4, <1>8, <1>12, <2>1, <2>2
<1>14. Here' = Here
    BY <1>1 DEF Here
<1>15. Built'
    BY <1>1, <1>8, <1>9, <1>12, <1>13, <1>14 DEF Built
<1>16. Behind'
    <2>1. ASSUME NEW w \in Worlds, NEW c \in Commands, did'[w][c] # 0
          PROVE  Place(w, c) < at + 1
        <3>1. CASE w = World /\ c = Step
            BY <1>1, <1>4, <3>1
        <3>2. CASE ~(w = World /\ c = Step)
            <4>1. did'[w][c] = did[w][c]
                BY <1>11, <3>2
            <4>2. Place(w, c) < at
                BY <2>1, <4>1 DEF WorldsInv, Behind
            <4> QED BY <1>1, <1>6, <4>2
        <3> QED BY <3>1, <3>2
    <2> QED BY <1>1, <2>1 DEF Behind
<1>17. Shows'
    <2> SUFFICES ASSUME NEW w \in Worlds, did'[w]["witness"] # 0
                 PROVE  LET o == operations[did'[w]["witness"]] IN
                        /\ did'[w]["witness"] \in DOMAIN operations /\ o.seen /\ o.from = Others(w)'
                        /\ Cardinality(Others(w)') = IF w = "BASE" THEN 2 ELSE 3
                        /\ outcome[w] = "PASS" => o.exit = 0
        BY <1>1 DEF Shows
    <2>1. w # World
        BY <1>1, <1>7, <1>11 DEF Commands
    <2>2. did'[w] = did[w] /\ Others(w)' = Others(w)
        BY <1>11, <2>1 DEF Others
    <2> QED BY <2>2 DEF WorldsInv, Shows
<1>18. Genuine'
    BY <1>1 DEF WorldsInv, Genuine
<1> QED BY <1>15, <1>16, <1>17, <1>18 DEF WorldsInv

\* What the witness shows is of a machine that held all of its world.
LEMMA WitnessShows ==
    ASSUME WorkerInv, WorldsInv, TakeAnswer, Witnessed(answer.op)
    PROVE  WorldsInv'
<1>1. /\ phase = "work" /\ Step = "witness" /\ answer # None /\ answer' = None
      /\ call = None /\ at' = at + 1 /\ World' = World /\ at \in 1..17
      /\ UNCHANGED <<handles, operations, call, phase, grounded, box, reply>>
    BY AnswerMoves DEF TakeAnswer, Witnessed, WorkerInv, BridgeTypeOK
<1>2. PICK op : op = answer.op
    OBVIOUS
<1>3. PICK exit : exit = IF op = 0 THEN None ELSE operations[op].exit
    OBVIOUS
<1>4. PICK o \in Shown(exit) : outcome' = [outcome EXCEPT ![World] = o]
    BY <1>2, <1>3 DEF Witnessed
<1>5. did' = [did EXCEPT ![World]["witness"] = op]
    BY <1>1, <1>2 DEF Witnessed
<1>6. /\ World \in Worlds /\ Place(World, "witness") = at
      /\ Before(at) = IF World = "BASE" THEN 2 ELSE 3
      /\ Program[at + 1][2] = "teardown"
    BY <1>1, ProgramFacts DEF World, Step, Commands
<1>7. /\ did \in [Worlds -> [Commands -> Nat]] /\ "witness" \in Commands
      /\ outcome \in [Worlds -> {"PASS", "FAIL", "ERROR", None}]
    BY DEF WorkerInv, BridgeTypeOK, Commands
<1>8. \A w \in Worlds, c \in Commands : Place(w, c) \in Nat
    BY DEF Place, Worlds, Commands
<1>9. did[World]["witness"] = 0
    BY <1>1, <1>6, <1>7 DEF WorldsInv, Behind
<1>10. /\ did'[World]["witness"] = op
       /\ \A c \in Commands : c # "witness" => did'[World][c] = did[World][c]
       /\ \A w \in Worlds : w # World => did'[w] = did[w] /\ outcome'[w] = outcome[w]
       /\ outcome'[World] = o
    BY <1>4, <1>5, <1>6, <1>7
<1>11. Built'
    BY <1>1, <1>6 DEF Built, Step, Commands
<1>12. Behind'
    <2>1. ASSUME NEW w \in Worlds, NEW c \in Commands, did'[w][c] # 0
          PROVE  Place(w, c) < at + 1
        <3>1. CASE w = World /\ c = "witness"
            BY <1>1, <1>6, <3>1
        <3>2. CASE ~(w = World /\ c = "witness")
            <4>1. did'[w][c] = did[w][c]
                BY <1>10, <3>2
            <4>2. Place(w, c) < at
                BY <2>1, <4>1 DEF WorldsInv, Behind
            <4> QED BY <1>1, <1>8, <4>2
        <3> QED BY <3>1, <3>2
    <2> QED BY <1>1, <2>1 DEF Behind
<1>13. ASSUME op # 0
       PROVE  /\ op \in DOMAIN operations /\ operations[op].seen
              /\ operations[op].from = Made(World) /\ Cardinality(Made(World)) = Before(at)
              /\ o = "PASS" => operations[op].exit = 0
    <2>1. answer.how = "returned" /\ op \in DOMAIN operations /\ operations[op].seen
        BY <1>1, <1>2, <1>13 DEF WorkerInv, Position
    <2>2. operations[op].from = Made(World) /\ Cardinality(Made(World)) = Before(at)
        BY <1>1, <1>2, <2>1 DEF WorldsInv, Built, Commands
    <2>3. operations[op].exit \in {0, 1, None}
        <3>1. operations[op] \in Operation
            BY <2>1 DEF WorkerInv, AdapterInv, AdapterTypeOK
        <3> QED BY <3>1 DEF Operation
    <2>4. o = "PASS" => operations[op].exit = 0
        BY <1>3, <1>4, <1>13, <2>3, AdapterBounds DEF Shown
    <2> QED BY <2>1, <2>2, <2>4
<1>14. Others(World)' = Made(World)
    BY <1>1, <1>7, <1>9, <1>10 DEF Others, Made
<1>15. Shows'
    <2> SUFFICES ASSUME NEW w \in Worlds, did'[w]["witness"] # 0
                 PROVE  LET p == operations[did'[w]["witness"]] IN
                        /\ did'[w]["witness"] \in DOMAIN operations /\ p.seen /\ p.from = Others(w)'
                        /\ Cardinality(Others(w)') = IF w = "BASE" THEN 2 ELSE 3
                        /\ outcome'[w] = "PASS" => p.exit = 0
        BY <1>1 DEF Shows
    <2>1. CASE w = World
        <3>1. Others(w)' = Made(World) /\ did'[w]["witness"] = op /\ outcome'[w] = o
            BY <1>1, <1>10, <1>14, <2>1
        <3> QED BY <1>6, <1>13, <2>1, <3>1
    <2>2. CASE w # World
        <3>1. did'[w] = did[w] /\ Others(w)' = Others(w) /\ outcome'[w] = outcome[w]
            BY <1>10, <2>2 DEF Others
        <3> QED BY <3>1 DEF WorldsInv, Shows
    <2> QED BY <2>1, <2>2
<1>16. Genuine'
    BY <1>1 DEF WorldsInv, Genuine
<1> QED BY <1>11, <1>12, <1>15, <1>16 DEF WorldsInv

LEMMA AnswerShows ==
    ASSUME WorkerInv, WorldsInv, TakeAnswer
    PROVE  WorldsInv'
<1>1. CASE \E how : GoesWrong(how)
    <2>1. /\ UNCHANGED <<handles, operations, phase, grounded, did, outcome, reply>>
          /\ at' = EndOfWorld
        BY <1>1 DEF TakeAnswer, GoesWrong
    <2>2. at \in 1..17
        BY DEF WorkerInv, BridgeTypeOK
    <2>3. EndOfWorld \in 1..17 /\ EndOfWorld >= at /\ Program[EndOfWorld][2] = "teardown"
        BY <2>2, WorldEnds
    <2>4. Built'
        BY <2>1, <2>3 DEF Built, Step, Commands
    <2>5. \A w \in Worlds, c \in Commands : Place(w, c) \in Nat
        BY DEF Place, Worlds, Commands
    <2>6. Behind'
        BY <2>1, <2>2, <2>3, <2>5 DEF WorldsInv, Behind
    <2>7. Shows'
        BY <2>1, ShowsKept DEF WorldsInv
    <2>8. Genuine'
        BY <2>1 DEF WorldsInv, Genuine
    <2> QED BY <2>4, <2>6, <2>7, <2>8 DEF WorldsInv
<1> QED BY <1>1, WellShows, WitnessShows DEF TakeAnswer

LEMMA TeardownShows ==
    ASSUME WorkerInv, WorldsInv, TeardownStep
    PROVE  WorldsInv'
<1>1. /\ phase = "work" /\ OnlyEnd /\ at' >= at /\ at \in 1..17 /\ at' \in 1..17
      /\ phase' = "work" => Step' = "create"
      /\ UNCHANGED <<grounded, did, outcome, reply>>
    BY TeardownKeepsWorker DEF Working, WorkerInv, BridgeTypeOK
<1>2. Built'
    BY <1>1 DEF Built, Commands
<1>3. \A w \in Worlds, c \in Commands : Place(w, c) \in Nat
    BY DEF Place, Worlds, Commands
<1>4. Behind'
    BY <1>1, <1>3 DEF WorldsInv, Behind
<1>5. Shows'
    BY <1>1, SeenStays, ShowsKept DEF WorldsInv
<1>6. Genuine'
    BY <1>1 DEF WorldsInv, Genuine
<1> QED BY <1>2, <1>4, <1>5, <1>6 DEF WorldsInv

\* The result of a command leaves its effect in the sandbox if it succeeded.
LEMMA PollShows ==
    ASSUME WorkerInv, WorldsInv, PollEnded \/ PollFails \/ ClientTimeout, UNCHANGED bridge
    PROVE  WorldsInv'
<1>1. /\ call # None /\ call' = None /\ Working /\ call.sandbox = Here /\ AdapterInv
      /\ phase = "work" /\ Step \in Commands /\ Here \in DOMAIN handles
    BY PollKeeps DEF WorkerInv, Position
<1>2. UNCHANGED <<phase, grounded, at, box, did, outcome, reply, Here, Step, World>>
    BY DEF bridge, worker, Here, World, Step
<1>3. PICK op : op = call.op
    OBVIOUS
<1>4. /\ op \in DOMAIN operations /\ ~operations[op].seen
      /\ op = Len(operations) /\ DOMAIN operations = 1..Len(operations) /\ Len(operations) \in Nat
      /\ operations[op] \in Operation /\ handles \in Seq(Handle) /\ operations \in Seq(Operation)
    BY <1>1, <1>3 DEF AdapterInv, AdapterTypeOK, Placed
<1>5. /\ IsFiniteSet(Made(World)) /\ Cardinality(Made(World)) = Before(at)
      /\ operations[op].from = Made(World) /\ operations[op].keeps /\ Made(World)' = Made(World)
    BY <1>1, <1>2, <1>3 DEF WorldsInv, Built, Made
<1>6. Behind' /\ Genuine'
    BY <1>2 DEF WorldsInv, Behind, Genuine
<1>7. CASE PollEnded
    <2>1. /\ operations[op].status # "RUNNING" /\ operations' = [operations EXCEPT ![op].seen = TRUE]
          /\ answer' = [how |-> "returned", op |-> op]
        BY <1>3, <1>7 DEF PollEnded, Returned, Terminal
    <2>2. PICK e : e = [operations[op] EXCEPT !.seen = TRUE]
        OBVIOUS
    <2>3. /\ e.from = operations[op].from /\ e.status = operations[op].status
          /\ e.exit = operations[op].exit /\ e.seen
        BY <1>4, <2>2 DEF Operation
    <2>4. operations' = [operations EXCEPT ![op] = e]
        BY <1>4, <2>1, <2>2 DEF Operation
    <2>5. /\ DOMAIN operations' = DOMAIN operations /\ operations'[op] = e
          /\ \A i \in DOMAIN operations : i # op => operations'[i] = operations[i]
        BY <1>4, <2>4
    <2>6. Here # 0 /\ handles[Here] \in Handle
        <3>1. DOMAIN handles = 1..Len(handles) /\ Len(handles) \in Nat
            BY <1>4
        <3> QED BY <1>1, <1>4, <3>1
    <2>7. operations[op].status = "SUCCESS" => handles'[Here].image = Made(World) \cup {op}
        <3>1. PICK image : image = Made(World) \cup {op}
            OBVIOUS
        <3>2. operations[op].status = "SUCCESS" =>
                  handles' = [handles EXCEPT ![Here].state = "COMPLETED", ![Here].image = image]
            BY <1>1, <1>3, <1>5, <1>7, <2>6, <3>1 DEF PollEnded
        <3>3. PICK h : h = [handles[Here] EXCEPT !.state = "COMPLETED", !.image = image]
            OBVIOUS
        <3>4. h.image = image
            BY <2>6, <3>3 DEF Handle
        <3>5. operations[op].status = "SUCCESS" => handles' = [handles EXCEPT ![Here] = h]
            BY <1>1, <1>4, <2>6, <3>2, <3>3 DEF Handle
        <3>6. operations[op].status = "SUCCESS" => handles'[Here].image = image
            BY <1>1, <1>4, <3>4, <3>5
        <3> QED BY <3>1, <3>6
    <2>8. answer' # None /\ answer'.op = op
        <3>1. op \in Nat
            BY <1>4
        <3>2. answer' \in [how : {"returned", "ambiguous", "definite"}, op : Nat]
            BY <2>1, <3>1
        <3> QED BY <2>1, <3>2, AdapterBounds
    <2>9. operations'[op].from = Made(World) /\ operations'[op].status = operations[op].status
        BY <1>5, <2>3, <2>5
    <2>10. Built'
        BY <1>1, <1>2, <1>5, <2>7, <2>8, <2>9 DEF Built
    <2>11. Shows'
        BY <1>2, <1>4, <2>3, <2>5, ShowsKept DEF WorldsInv
    <2> QED BY <1>6, <2>10, <2>11 DEF WorldsInv
<1>8. CASE PollFails \/ ClientTimeout
    <2>1. PICK how \in {"ambiguous", "definite"} : answer' = [how |-> how, op |-> 0]
        BY <1>8 DEF PollFails, ClientTimeout, Raise
    <2>2. /\ answer' \in [how : {"returned", "ambiguous", "definite"}, op : Nat]
          /\ answer'.how # "returned"
        BY <2>1
    <2>3. answer' # None
        BY <2>2, AdapterBounds
    <2>4. Built'
        BY <1>1, <1>2, <1>5, <2>2, <2>3 DEF Built
    <2>5. Shows'
        <3>1. CASE PollFails
            BY <1>2, <3>1, ShowsKept DEF PollFails, WorldsInv
        <3>2. CASE ClientTimeout
            <4>1. OnlyEnd
                <5>1. PICK confirmed \in BOOLEAN : Cancelled(op, confirmed)
                    BY <1>3, <3>2 DEF ClientTimeout
                <5> QED BY <1>1, <1>4, <5>1, CancelledStep
            <4> QED BY <1>2, <4>1, SeenStays, ShowsKept DEF WorldsInv
        <3> QED BY <1>8, <3>1, <3>2
    <2> QED BY <1>6, <2>4, <2>5 DEF WorldsInv
<1> QED BY <1>7, <1>8

LEMMA ProviderShows ==
    ASSUME WorkerInv, WorldsInv, Provider, UNCHANGED bridge
    PROVE  WorldsInv'
<1>1. /\ OnlyEnd /\ UNCHANGED <<handles, call, answer>>
    BY ProviderKeeps
<1>2. UNCHANGED <<phase, grounded, at, box, did, outcome, reply, Here, Step, World>>
    BY DEF bridge, worker, Here, World, Step
<1>3. Made(World)' = Made(World)
    BY <1>2 DEF Made
<1>4. /\ call # None => call.op \in DOMAIN operations
      /\ answer # None /\ answer.how = "returned" =>
             answer.op \in DOMAIN operations /\ operations[answer.op].seen
    <2>1. call # None => /\ call.op = Len(operations) /\ call.op # 0
                         /\ DOMAIN operations = 1..Len(operations) /\ Len(operations) \in Nat
        BY DEF WorkerInv, AdapterInv, AdapterTypeOK, Placed
    <2> QED BY <2>1 DEF WorkerInv, Position
<1>5. /\ call # None => /\ operations'[call.op].from = operations[call.op].from
                        /\ operations'[call.op].keeps = operations[call.op].keeps
      /\ answer # None /\ answer.how = "returned" =>
             /\ operations'[answer.op].from = operations[answer.op].from
             /\ operations'[answer.op].status = operations[answer.op].status
    BY <1>1, <1>4, SeenStays DEF OnlyEnd
<1>6. Built'
    BY <1>1, <1>2, <1>3, <1>5 DEF WorldsInv, Built
<1>7. Behind' /\ Genuine'
    BY <1>2 DEF WorldsInv, Behind, Genuine
<1>8. Shows'
    BY <1>1, <1>2, SeenStays, ShowsKept DEF WorldsInv
<1> QED BY <1>6, <1>7, <1>8 DEF WorldsInv

LEMMA WorldsStep ==
    ASSUME WorkerInv, WorldsInv, Moves
    PROVE  WorldsInv'
<1>1. CASE UNCHANGED vars
    <2>1. UNCHANGED <<handles, operations, call, answer, phase, grounded, at, did, outcome, reply, Here, Step, World>>
        BY <1>1 DEF vars, adapter, bridge, worker, Here, Step, World
    <2>2. Behind' /\ Genuine' /\ Shows'
        BY <2>1, ShowsKept DEF WorldsInv, Behind, Genuine
    <2>3. Made(World)' = Made(World)
        BY <2>1 DEF Made
    <2>4. Built'
        BY <2>1, <2>3 DEF WorldsInv, Built
    <2> QED BY <2>2, <2>4 DEF WorldsInv
<1> QED BY <1>1, QuietShows, CreateShows, CommandShows, AnswerShows, TeardownShows, PollShows,
           ProviderShows DEF Moves

\* A certified receipt is of genuine components, and what it says a witness
\* showed was shown by a machine that held the checkout, the candidate and the
\* deployment of its world, all successful, and nothing else
\* (trust_bridge.py:1168-1262, live_bridge.py:1021-1187).
THEOREM WorldsAreCertified == Spec => []CertifiedWorlds
<1>1. VerificationInit => WorkerInv /\ WorldsInv
    <2>1. VerificationInit => Behind /\ Shows
        BY DEF VerificationInit, Behind, Shows, Commands
    <2>2. VerificationInit => Built
        BY DEF VerificationInit, Built
    <2>3. VerificationInit => Genuine
        BY AdapterBounds DEF VerificationInit, Genuine
    <2> QED BY <2>1, <2>2, <2>3, WorkerStart DEF WorldsInv
<1>2. WorkerInv /\ WorldsInv /\ [Next]_vars => (WorkerInv /\ WorldsInv)'
    BY WorkerStep, WorldsStep
<1>3. WorldsInv => CertifiedWorlds
    BY DEF WorldsInv, Shows, Others, Genuine, CertifiedWorlds
<1> QED BY <1>1, <1>2, <1>3, PTL DEF Spec

=============================================================================
