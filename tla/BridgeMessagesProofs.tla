------------------------- MODULE BridgeMessagesProofs -------------------------
(***************************************************************************)
(* The messages of a session, for any number of messages, people, events,  *)
(* attempts and faults, in any order of reports, receipts and saves: a     *)
(* message is announced once, its status only advances, and a receipt that *)
(* comes before the message's id is stored is not lost.                    *)
(***************************************************************************)
EXTENDS BridgeMessages, TLAPS

USE BridgeAssumption, NoneAssumption

-----------------------------------------------------------------------------
(* The inductive invariant.                                                *)

Reaction == [by : Sender, on : BOOLEAN, read : Row \cup {None}]
Receipt == [msg : Out, to : {"DELIVERED", "READ", "FAILED"}, again : BOOLEAN]

\* The types the steps need; the counters that only the bounds limit are left out.
Types ==
    /\ row \in [Msg -> Row \cup {None}]
    /\ send \in [Out -> {"idle", "engine", "sent", "done", "failed", "cut"}]
    /\ inserted \subseteq In /\ unseen \subseteq In
    /\ acks \subseteq Receipt
    /\ acked \in [Out -> SUBSET {"DELIVERED", "READ", "FAILED"}]
    /\ chain \in [Msg -> Seq(Reaction)]
    /\ job \in [Job -> Over \cup {"none", "lookup", "queued"}]

\* A message that could still be announced, or is about to be, was not yet,
\* unless storing it failed.
OnceOK(m) ==
    /\ m \in inserted => row[m] # None
    /\ (row[m] = None \/ m \in inserted) /\ job[<<m, 1>>] # "none" => m \in opened
    /\ \A n \in 2 .. MaxFaults + 1 : job[<<m, n>>] # "none" => m \in opened

\* Until the second save of a send, its row has no id and nobody finds it.
SendOK(m) ==
    /\ send[m] = "idle" <=> row[m] = None
    /\ send[m] \in {"engine", "sent"} => ~row[m].named /\ row[m].status = "PENDING"
    /\ send[m] = "done" => row[m].named
    /\ send[m] \in {"idle", "engine"} => acked[m] = {}

Pending(m, s) == \E a \in acks : a.msg = m /\ a.to = s

\* The stored status is at s or past it.
Applied(m, s) ==
    \/ row[m].status = "FAILED"
    \/ s = "READ" /\ row[m].status = "READ"
    \/ s \in {"DELIVERED", "FAILED"} /\ row[m].status \in {"DELIVERED", "READ"}

\* Every receipt that was not lost to a fault waits for its UPDATE or is stored.
AckOK(m) ==
    m \notin stale /\ send[m] \in {"sent", "done"} =>
        \A s \in acked[m] : Pending(m, s) \/ (send[m] = "done" /\ Applied(m, s))

\* A reaction has read a row that had its id.
ReadOK(m) ==
    \A i \in DOMAIN chain[m] : chain[m][i].read # None => Named(m) /\ chain[m][i].read.named

MsgInv(m) ==
    /\ m \in In => OnceOK(m)
    /\ m \in Out => SendOK(m) /\ AckOK(m)
    /\ ReadOK(m)

IInv == Types /\ \A m \in Msg : MsgInv(m)

\* What OnlyAdvances says of one step and one message.
Advance(m) ==
    row[m] # None /\ m \notin stale' =>
        /\ \/ row[m].status = row'[m].status \/ row[m].status \in {"PENDING", "SENT"}
           \/ <<row[m].status, row'[m].status>> = <<"DELIVERED", "READ">>
        /\ row'[m].status = "PENDING" => row[m].status = "PENDING"
        /\ row[m].revoked => row'[m].revoked

Kept(m) == MsgInv(m)' /\ Advance(m)

-----------------------------------------------------------------------------
(* What the writes do to the rows.                                         *)

\* Row m becomes r, the others stay.
RowGets(m, r) ==
    /\ row' \in [Msg -> Row \cup {None}] /\ r \in Row /\ row'[m] = r
    /\ \A x \in Msg \ {m} : row'[x] = row[x]

\* A row that is saved whole.
LEMMA Saving ==
    ASSUME Types, NEW m \in Msg, NEW r \in Row, row' = [row EXCEPT ![m] = r]
    PROVE  RowGets(m, r)
BY DEF Types, RowGets

\* UPDATEs of some columns leave the others.
LEMMA Updating ==
    ASSUME Types, NEW m \in Msg, row[m] # None, NEW s \in Status
    PROVE  /\ row[m] \in Row
           /\ row' = [row EXCEPT ![m].status = s] =>
                 \E r \in Row : /\ RowGets(m, r) /\ r.status = s
                                /\ r.named = row[m].named /\ r.revoked = row[m].revoked
           /\ row' = [row EXCEPT ![m].named = TRUE, ![m].status = s] =>
                 \E r \in Row : RowGets(m, r) /\ r.status = s /\ r.named /\ r.revoked = row[m].revoked
           /\ row' = [row EXCEPT ![m].revoked = TRUE] =>
                 \E r \in Row : RowGets(m, r) /\ r.status = row[m].status /\ r.named = row[m].named /\ r.revoked
<1>1. row \in [Msg -> Row \cup {None}] /\ row[m] \in Row
  BY DEF Types
<1>2. ASSUME row' = [row EXCEPT ![m].status = s]
      PROVE  \E r \in Row : RowGets(m, r) /\ r.status = s /\ r.named = row[m].named /\ r.revoked = row[m].revoked
  <2> DEFINE r == [row[m] EXCEPT !.status = s]
  <2>1. r \in Row /\ r.status = s /\ r.named = row[m].named /\ r.revoked = row[m].revoked
    BY <1>1 DEF Row
  <2>2. row' = [row EXCEPT ![m] = r]
    BY <1>1, <1>2
  <2> HIDE DEF r
  <2> QED
    BY <2>1, <2>2, Saving
<1>3. ASSUME row' = [row EXCEPT ![m].named = TRUE, ![m].status = s]
      PROVE  \E r \in Row : RowGets(m, r) /\ r.status = s /\ r.named /\ r.revoked = row[m].revoked
  <2> DEFINE r == [row[m] EXCEPT !.named = TRUE, !.status = s]
  <2>1. r \in Row /\ r.status = s /\ r.named /\ r.revoked = row[m].revoked
    BY <1>1 DEF Row
  <2>2. row' = [row EXCEPT ![m] = r]
    BY <1>1, <1>3
  <2> HIDE DEF r
  <2> QED
    BY <2>1, <2>2, Saving
<1>4. ASSUME row' = [row EXCEPT ![m].revoked = TRUE]
      PROVE  \E r \in Row : RowGets(m, r) /\ r.status = row[m].status /\ r.named = row[m].named /\ r.revoked
  <2> DEFINE r == [row[m] EXCEPT !.revoked = TRUE]
  <2>1. r \in Row /\ r.status = row[m].status /\ r.named = row[m].named /\ r.revoked
    BY <1>1 DEF Row
  <2>2. row' = [row EXCEPT ![m] = r]
    BY <1>1, <1>4
  <2> HIDE DEF r
  <2> QED
    BY <2>1, <2>2, Saving
<1> QED
  BY <1>1, <1>2, <1>3, <1>4

\* A first save: the row is in its type.
LEMMA NewRow ==
    ASSUME NEW n \in BOOLEAN, NEW s \in Status
    PROVE  /\ New(n, s) \in Row /\ New(n, s).named = n /\ New(n, s).status = s
BY DEF New, Row

\* The chain without its i-th reaction has only reactions it had.
LEMMA Removing ==
    ASSUME NEW c \in Seq(Reaction), NEW i \in DOMAIN c
    PROVE  /\ RemoveAt(c, i) \in Seq(Reaction)
           /\ \A j \in DOMAIN RemoveAt(c, i) : \E k \in DOMAIN c : RemoveAt(c, i)[j] = c[k]
<1> DEFINE a == SubSeq(c, 1, i - 1)
           b == SubSeq(c, i + 1, Len(c))
<1>1. i \in 1 .. Len(c) /\ Len(c) \in Nat
  OBVIOUS
<1>2. a \in Seq(Reaction) /\ Len(a) = i - 1 /\ \A j \in 1 .. i - 1 : a[j] = c[j]
  BY <1>1
<1>3. b \in Seq(Reaction) /\ Len(b) = Len(c) - i /\ \A j \in 1 .. Len(c) - i : b[j] = c[i + j]
  BY <1>1
<1>4. RemoveAt(c, i) = a \o b
  BY DEF RemoveAt
<1> HIDE DEF a, b
<1>5. a \o b \in Seq(Reaction) /\ Len(a \o b) = Len(c) - 1
  BY <1>1, <1>2, <1>3
<1>6. ASSUME NEW j \in 1 .. Len(c) - 1 PROVE \E k \in 1 .. Len(c) : (a \o b)[j] = c[k]
  <2>0. j \in Nat /\ i \in Nat
    BY <1>1
  <2>1. CASE j <= i - 1
    <3>1. j \in 1 .. i - 1 /\ j \in 1 .. Len(c)
      BY <1>1, <2>0, <2>1
    <3>2. (a \o b)[j] = a[j]
      BY <1>2, <1>3, <3>1
    <3> QED
      BY <1>2, <3>1, <3>2
  <2>2. CASE j > i - 1
    <3>1. (a \o b)[j] = b[j - (i - 1)] /\ j - (i - 1) \in 1 .. Len(c) - i
      BY <1>1, <1>2, <1>3, <2>2
    <3>2. b[j - (i - 1)] = c[i + (j - (i - 1))] /\ i + (j - (i - 1)) \in 1 .. Len(c)
      BY <1>1, <1>3, <3>1
    <3> QED
      BY <3>1, <3>2
  <2>3. j <= i - 1 \/ j > i - 1
    BY <2>0
  <2> QED
    BY <2>1, <2>2, <2>3
<1>7. DOMAIN (a \o b) = 1 .. Len(c) - 1 /\ DOMAIN c = 1 .. Len(c)
  BY <1>5
<1> QED
  BY <1>4, <1>5, <1>6, <1>7

\* The announcements of x are where they were.
OnceSame(x) ==
    /\ x \in inserted' <=> x \in inserted
    /\ x \in opened => x \in opened'
    /\ \A n \in 1 .. MaxFaults + 1 : job'[<<x, n>>] = "none" <=> job[<<x, n>>] = "none"

\* The send of x and its receipts are where they were.
SendSame(x) ==
    /\ send'[x] = send[x] /\ acked'[x] = acked[x]
    /\ \A a \in acks : a.msg = x => a \in acks'

\* A step that is not about x leaves what the invariant says of it.
LEMMA Untouched ==
    ASSUME IInv, NEW x \in Msg, row'[x] = row[x], chain'[x] = chain[x], x \in stale' <=> x \in stale,
           x \in In => OnceSame(x), x \in Out => SendSame(x)
    PROVE  Kept(x)
<1>1. MsgInv(x)
  BY DEF IInv
<1>2. x \in In => OnceOK(x)'
  BY <1>1 DEF MsgInv, OnceOK, OnceSame
<1>3. x \in Out => SendOK(x)'
  BY <1>1 DEF MsgInv, SendOK, SendSame
<1>4. x \in Out => AckOK(x)'
  BY <1>1 DEF MsgInv, AckOK, SendSame, Pending, Applied
<1>5. ReadOK(x)'
  BY <1>1 DEF MsgInv, ReadOK, Named
<1>6. Advance(x)
  BY DEF Advance
<1> QED
  BY <1>2, <1>3, <1>4, <1>5, <1>6 DEF Kept, MsgInv

-----------------------------------------------------------------------------
(* The steps.                                                              *)

\* No report, handler step, delivery or restart leaves the invariant, and none
\* takes a status back.
LEMMA Step == IInv /\ Next => Types' /\ \A x \in Msg : Kept(x)
<1> SUFFICES ASSUME IInv, Next PROVE Types' /\ \A x \in Msg : Kept(x)
  OBVIOUS
<1> USE DEF Event, Fault, NoFault
<1>1. ASSUME NEW m \in In, OnMessage(m) PROVE Types' /\ \A x \in Msg : Kept(x)
  <2>1. UNCHANGED <<rowVars, inserted, unseen, opened, job>>
    BY <1>1 DEF OnMessage, jobVars
  <2> QED
    BY <2>1, Untouched DEF rowVars, IInv, Types, OnceSame, SendSame
<1>2. ASSUME HistorySelect PROVE Types' /\ \A x \in Msg : Kept(x)
  <2>1. UNCHANGED <<rowVars, inserted, opened, job>> /\ unseen' \subseteq In
    BY <1>2 DEF HistorySelect, jobVars
  <2> QED
    BY <2>1, Untouched DEF rowVars, IInv, Types, OnceSame, SendSame
<1>3. ASSUME NEW m \in Out, SendMessage(m) PROVE Types' /\ \A x \in Msg : Kept(x)
  <2> DEFINE r == New(FALSE, "PENDING")
  <2>1. RowGets(m, r) /\ ~r.named /\ r.status = "PENDING"
    BY <1>3, Saving, NewRow DEF SendMessage, IInv, Msg, Status
  <2> HIDE DEF r
  <2>2. /\ send[m] = "idle" /\ send' = [send EXCEPT ![m] = "engine"]
        /\ UNCHANGED <<acks, acked, chain, stale, inserted, unseen, opened, job>>
    BY <1>3 DEF SendMessage, SetSend, liveVars, jobVars
  <2>3. Types'
    BY <2>1, <2>2 DEF IInv, Types, RowGets
  <2>4. row[m] = None /\ acked[m] = {} /\ ReadOK(m)
    BY <2>2 DEF IInv, MsgInv, SendOK, Msg
  <2>5. SendOK(m)' /\ AckOK(m)'
    BY <2>1, <2>2, <2>4 DEF SendOK, AckOK, RowGets, IInv, Types
  <2>6. ReadOK(m)'
    BY <2>2, <2>4 DEF ReadOK, Named
  <2>7. Kept(m)
    BY <2>4, <2>5, <2>6 DEF Kept, MsgInv, Advance
  <2>8. ASSUME NEW x \in Msg \ {m} PROVE Kept(x)
    BY <2>1, <2>2, Untouched DEF RowGets, OnceSame, SendSame, IInv, Types
  <2> QED
    BY <2>3, <2>7, <2>8
<1>4. ASSUME NEW m \in Out, NEW s \in {"DELIVERED", "READ", "FAILED"}, OnMessageAck(m, s)
      PROVE  Types' /\ \A x \in Msg : Kept(x)
  <2> DEFINE b == [msg |-> m, to |-> s, again |-> FALSE]
  <2>1. /\ send[m] \in {"sent", "done"} /\ acks' = acks \cup {b} /\ acked' = [acked EXCEPT ![m] = @ \cup {s}]
        /\ UNCHANGED <<row, send, chain, stale, inserted, unseen, opened, job>>
    BY <1>4 DEF OnMessageAck, liveVars, jobVars
  <2>2. b \in Receipt /\ b.msg = m /\ b.to = s
    BY DEF Receipt
  <2> HIDE DEF b
  <2>3. Types'
    BY <2>1, <2>2 DEF IInv, Types
  <2>4. SendOK(m) /\ AckOK(m) /\ ReadOK(m)
    BY DEF IInv, MsgInv, Msg
  <2>5. SendOK(m)' /\ ReadOK(m)' /\ Advance(m)
    BY <2>1, <2>4 DEF SendOK, ReadOK, Named, Advance
  <2>6. ASSUME m \notin stale, NEW z \in acked'[m] PROVE Pending(m, z)' \/ (send'[m] = "done" /\ Applied(m, z)')
    <3>1. z = s \/ z \in acked[m]
      BY <2>1 DEF IInv, Types
    <3>2. CASE z = s
      BY <2>1, <2>2, <3>2 DEF Pending
    <3>3. CASE z \in acked[m]
      BY <2>1, <2>4, <2>6, <3>3 DEF AckOK, Pending, Applied
    <3> QED
      BY <3>1, <3>2, <3>3
  <2>7. Kept(m)
    BY <2>1, <2>5, <2>6 DEF Kept, MsgInv, AckOK
  <2>8. ASSUME NEW x \in Msg \ {m} PROVE Kept(x)
    BY <2>1, Untouched DEF OnceSame, SendSame, IInv, Types
  <2> QED
    BY <2>3, <2>7, <2>8
<1>5. ASSUME NEW m \in Msg, OnMessageRevoked(m) PROVE Types' /\ \A x \in Msg : Kept(x)
  <2>1. Named(m) /\ UNCHANGED <<send, acks, acked, chain, stale, inserted, unseen, opened, job>>
    BY <1>5 DEF OnMessageRevoked, liveVars, jobVars
  <2>2. PICK r \in Row : RowGets(m, r) /\ r.status = row[m].status /\ r.named = row[m].named /\ r.revoked
    BY <1>5, <2>1, Updating DEF OnMessageRevoked, Named, IInv, Status
  <2>3. Types'
    BY <2>1, <2>2 DEF IInv, Types, RowGets
  <2>4. MsgInv(m) /\ row[m] # None /\ row'[m] # None
    BY <2>1, <2>2 DEF IInv, Named, RowGets
  <2>5. m \in In => OnceOK(m)'
    BY <2>1, <2>4 DEF MsgInv, OnceOK
  <2>6. m \in Out => SendOK(m)'
    BY <2>1, <2>2, <2>4 DEF MsgInv, SendOK, RowGets
  <2>7. m \in Out => AckOK(m)'
    BY <2>1, <2>2, <2>4 DEF MsgInv, AckOK, Pending, Applied, RowGets
  <2>8. ReadOK(m)' /\ Advance(m)
    BY <2>1, <2>2, <2>4 DEF MsgInv, ReadOK, Named, Advance, RowGets
  <2>9. ASSUME NEW x \in Msg \ {m} PROVE Kept(x)
    BY <2>1, <2>2, Untouched DEF RowGets, OnceSame, SendSame
  <2> QED
    BY <2>3, <2>5, <2>6, <2>7, <2>8, <2>9 DEF Kept, MsgInv
<1>6. ASSUME NEW m \in Msg, NEW s \in Sender, NEW on \in BOOLEAN, OnMessageReaction(m, s, on)
      PROVE  Types' /\ \A x \in Msg : Kept(x)
  <2> DEFINE e == [by |-> s, on |-> on, read |-> None]
  <2>1. /\ chain' = [chain EXCEPT ![m] = Append(@, e)]
        /\ UNCHANGED <<row, send, acks, acked, stale, inserted, unseen, opened, job>>
    BY <1>6 DEF OnMessageReaction, liveVars, jobVars
  <2>2. e \in Reaction /\ e.read = None
    BY DEF Reaction
  <2> HIDE DEF e
  <2>3. chain[m] \in Seq(Reaction) /\ chain'[m] = Append(chain[m], e)
    BY <2>1 DEF IInv, Types
  <2>4. Types'
    BY <2>1, <2>2, <2>3 DEF IInv, Types
  <2>5. MsgInv(m)
    BY DEF IInv
  <2>6. (m \in In => OnceOK(m)') /\ (m \in Out => SendOK(m)' /\ AckOK(m)') /\ Advance(m)
    BY <2>1, <2>5 DEF MsgInv, OnceOK, SendOK, AckOK, Pending, Applied, Advance
  <2>7. ASSUME NEW i \in DOMAIN chain'[m], chain'[m][i].read # None
        PROVE  Named(m)' /\ chain'[m][i].read.named
    <3>1. i \in DOMAIN chain[m] /\ chain'[m][i] = chain[m][i]
      BY <2>2, <2>3, <2>7
    <3> QED
      BY <2>1, <2>5, <2>7, <3>1 DEF MsgInv, ReadOK, Named
  <2>8. ASSUME NEW x \in Msg \ {m} PROVE Kept(x)
    BY <2>1, Untouched DEF OnceSame, SendSame, IInv, Types
  <2> QED
    BY <2>4, <2>6, <2>7, <2>8 DEF Kept, MsgInv, ReadOK
<1>7. ASSUME NEW m \in In, Insert(m) PROVE Types' /\ \A x \in Msg : Kept(x)
  <2>1. UNCHANGED <<send, acks, acked, chain, stale, unseen>> /\ m \in Msg /\ m \notin Out
    BY <1>7 DEF Insert, Msg
  <2>2. MsgInv(m) /\ OnceOK(m) /\ ReadOK(m)
    BY <2>1 DEF IInv, MsgInv
  <2>3. CASE UNCHANGED <<row, inserted, opened, job>>
    BY <2>1, <2>3, Untouched DEF IInv, Types, OnceSame, SendSame
  <2>4. CASE /\ IsNew(m) /\ row' = [row EXCEPT ![m] = InsertOrIgnore(m)]
             /\ inserted' = inserted \cup {m} /\ UNCHANGED <<opened, job>>
    <3>1. row[m] = None /\ RowGets(m, New(TRUE, "SENT"))
      BY <2>1, <2>4, Saving, NewRow DEF IsNew, InsertOrIgnore, IInv, Status
    <3>2. Types'
      BY <2>1, <2>4, <3>1 DEF IInv, Types, RowGets
    <3>3. OnceOK(m)' /\ Advance(m)
      BY <2>2, <2>4, <3>1 DEF OnceOK, RowGets, Advance
    <3>4. ReadOK(m)'
      BY <2>1, <2>2, <3>1 DEF ReadOK, Named
    <3>5. ASSUME NEW x \in Msg \ {m} PROVE Kept(x)
      BY <2>1, <2>4, <3>1, Untouched DEF RowGets, OnceSame, SendSame
    <3> QED
      BY <2>1, <3>2, <3>3, <3>4, <3>5 DEF Kept, MsgInv
  <2>5. CASE Dispatch(m) /\ opened' = opened \cup {m} /\ UNCHANGED <<row, inserted>>
    <3>1. PICK n \in 1 .. MaxFaults + 1 : job[<<m, n>>] = "none" /\ job' = [job EXCEPT ![<<m, n>>] = "lookup"]
      BY <2>5 DEF Dispatch
    <3>2. Types'
      BY <2>1, <2>5, <3>1 DEF IInv, Types, Job
    <3>3. OnceOK(m)' /\ Advance(m)
      BY <2>2, <2>5 DEF OnceOK, Advance
    <3>4. ReadOK(m)'
      BY <2>1, <2>2, <2>5 DEF ReadOK, Named
    <3>5. ASSUME NEW x \in Msg \ {m} PROVE Kept(x)
      <4>1. x \in In => \A k \in 1 .. MaxFaults + 1 : job'[<<x, k>>] = job[<<x, k>>]
        BY <3>1 DEF IInv, Types, Job
      <4> QED
        BY <2>1, <2>5, <4>1, Untouched DEF OnceSame, SendSame
    <3> QED
      BY <2>1, <3>2, <3>3, <3>4, <3>5 DEF Kept, MsgInv
  <2> QED
    BY <1>7, <2>3, <2>4, <2>5 DEF Insert
<1>8. ASSUME NEW m \in In, Announce(m) PROVE Types' /\ \A x \in Msg : Kept(x)
  <2>1. /\ m \in inserted /\ inserted' = inserted \ {m} /\ m \in Msg /\ m \notin Out
        /\ UNCHANGED <<row, send, acks, acked, chain, stale, unseen, opened>>
    BY <1>8 DEF Announce, rowVars, Msg
  <2>2. PICK n \in 1 .. MaxFaults + 1 :
            /\ job[<<m, n>>] = "none" /\ \A k \in 1 .. n - 1 : job[<<m, k>>] # "none"
            /\ job' = [job EXCEPT ![<<m, n>>] = "lookup"]
    BY <1>8 DEF Announce, Dispatch
  <2>3. Types'
    BY <2>1, <2>2 DEF IInv, Types, Job
  <2>4. MsgInv(m) /\ OnceOK(m) /\ ReadOK(m)
    BY <2>1 DEF IInv, MsgInv
  <2>5. n # 1 => m \in opened
    <3>1. n # 1 => 1 \in 1 .. n - 1
      OBVIOUS
    <3> QED
      BY <2>1, <2>2, <2>4, <3>1 DEF OnceOK
  <2>6. \A k \in 2 .. MaxFaults + 1 : k # n => job'[<<m, k>>] = job[<<m, k>>]
    BY <2>2 DEF IInv, Types, Job
  <2>7. OnceOK(m)'
    BY <2>1, <2>4, <2>5, <2>6 DEF OnceOK
  <2>8. ReadOK(m)' /\ Advance(m)
    BY <2>1, <2>4 DEF ReadOK, Named, Advance
  <2>9. ASSUME NEW x \in Msg \ {m} PROVE Kept(x)
    <3>1. x \in In => \A k \in 1 .. MaxFaults + 1 : job'[<<x, k>>] = job[<<x, k>>]
      BY <2>2 DEF IInv, Types, Job
    <3> QED
      BY <2>1, <3>1, Untouched DEF OnceSame, SendSame
  <2> QED
    BY <2>1, <2>3, <2>7, <2>8, <2>9 DEF Kept, MsgInv
<1>9. ASSUME HistoryInsert PROVE Types' /\ \A x \in Msg : Kept(x)
  <2>1. /\ row' = [m \in Msg |-> IF m \in unseen THEN InsertOrIgnore(m) ELSE row[m]] /\ unseen' = {}
        /\ UNCHANGED <<send, acks, acked, chain, stale, inserted, opened, job>>
    BY <1>9 DEF HistoryInsert, jobVars
  <2>2. New(TRUE, "SENT") \in Row
    BY NewRow DEF Status
  <2>3. Types'
    BY <2>1, <2>2 DEF IInv, Types, InsertOrIgnore
  <2>4. ASSUME NEW x \in Msg PROVE Kept(x)
    <3>1. CASE row'[x] = row[x]
      BY <2>1, <3>1, Untouched DEF OnceSame, SendSame
    <3>2. CASE row'[x] # row[x]
      <4>1. x \in In /\ x \notin Out /\ row[x] = None /\ row'[x] # None
        BY <2>1, <2>2, <3>2 DEF InsertOrIgnore, IInv, Types
      <4>2. OnceOK(x) /\ ReadOK(x)
        BY <4>1 DEF IInv, MsgInv
      <4>3. OnceOK(x)'
        BY <2>1, <4>1, <4>2 DEF OnceOK
      <4>4. ReadOK(x)'
        BY <2>1, <4>1, <4>2 DEF ReadOK, Named
      <4> QED
        BY <4>1, <4>3, <4>4 DEF Kept, MsgInv, Advance
    <3> QED
      BY <3>1, <3>2
  <2> QED
    BY <2>3, <2>4
<1>10. ASSUME NEW m \in Out, EngineSends(m) PROVE Types' /\ \A x \in Msg : Kept(x)
  <2>1. /\ send[m] = "engine" /\ send' = [send EXCEPT ![m] = "sent"]
        /\ UNCHANGED <<row, acks, acked, chain, stale, inserted, unseen, opened, job>>
    BY <1>10 DEF EngineSends, SetSend, liveVars, jobVars
  <2>2. Types'
    BY <2>1 DEF IInv, Types
  <2>3. SendOK(m) /\ ReadOK(m) /\ m \notin In
    BY DEF IInv, MsgInv, Msg
  <2>4. send'[m] = "sent" /\ acked'[m] = {}
    BY <2>1, <2>3 DEF SendOK, IInv, Types
  <2>5. SendOK(m)' /\ AckOK(m)' /\ ReadOK(m)' /\ Advance(m)
    BY <2>1, <2>3, <2>4 DEF SendOK, AckOK, ReadOK, Named, Advance
  <2>6. ASSUME NEW x \in Msg \ {m} PROVE Kept(x)
    BY <2>1, Untouched DEF OnceSame, SendSame, IInv, Types
  <2> QED
    BY <2>2, <2>3, <2>5, <2>6 DEF Kept, MsgInv
<1>11. ASSUME NEW m \in Out, EngineRefuses(m) PROVE Types' /\ \A x \in Msg : Kept(x)
  <2>1. /\ send[m] = "engine" /\ send' = [send EXCEPT ![m] = "failed"]
        /\ UNCHANGED <<acks, acked, chain, stale, inserted, unseen, opened, job>>
    BY <1>11 DEF EngineRefuses, SetSend, liveVars, jobVars
  <2>2. SendOK(m) /\ ReadOK(m) /\ m \notin In /\ m \in Msg
    BY DEF IInv, MsgInv, Msg
  <2>3. row[m] # None /\ row[m].status = "PENDING"
    BY <2>1, <2>2 DEF SendOK
  <2>4. PICK r \in Row : /\ RowGets(m, r) /\ r.status = "FAILED"
                         /\ r.named = row[m].named /\ r.revoked = row[m].revoked
    BY <1>11, <2>2, <2>3, Updating DEF EngineRefuses, IInv, Status
  <2>5. Types'
    BY <2>1, <2>4 DEF IInv, Types, RowGets
  <2>6. send'[m] = "failed" /\ row'[m] = r /\ r # None
    BY <2>1, <2>4 DEF IInv, Types, RowGets
  <2>7. SendOK(m)' /\ AckOK(m)'
    BY <2>6 DEF SendOK, AckOK
  <2>8. ReadOK(m)' /\ Advance(m)
    BY <2>1, <2>2, <2>3, <2>4, <2>6 DEF ReadOK, Named, Advance
  <2>9. ASSUME NEW x \in Msg \ {m} PROVE Kept(x)
    BY <2>1, <2>4, Untouched DEF RowGets, OnceSame, SendSame, IInv, Types
  <2> QED
    BY <2>2, <2>5, <2>7, <2>8, <2>9 DEF Kept, MsgInv
<1>12. ASSUME NEW m \in Out, SaveSent(m) PROVE Types' /\ \A x \in Msg : Kept(x)
  <2>1. send[m] = "sent" /\ UNCHANGED <<acks, acked, chain, stale, inserted, unseen, opened, job>>
    BY <1>12 DEF SaveSent, SetSend, liveVars, jobVars
  <2>2. SendOK(m) /\ AckOK(m) /\ ReadOK(m) /\ m \notin In /\ m \in Msg
    BY DEF IInv, MsgInv, Msg
  <2>3. row[m] # None /\ row[m].status = "PENDING" /\ ~row[m].named
    BY <2>1, <2>2 DEF SendOK
  <2>4. PICK s \in {"SENT", "FAILED"} :
            /\ row' = [row EXCEPT ![m].named = TRUE, ![m].status = s]
            /\ send' = [send EXCEPT ![m] = IF s = "SENT" THEN "done" ELSE "failed"]
    BY <1>12 DEF SaveSent, SetSend
  <2>5. PICK r \in Row : RowGets(m, r) /\ r.status = s /\ r.named /\ r.revoked = row[m].revoked
    <3>1. s \in Status
      BY DEF Status
    <3> QED
      BY <2>2, <2>3, <2>4, <3>1, Updating DEF IInv
  <2>6. Types'
    BY <2>1, <2>4, <2>5 DEF IInv, Types, RowGets
  <2>7. send'[m] \in {"done", "failed"} /\ row'[m] = r /\ r # None
    BY <2>4, <2>5 DEF IInv, Types, RowGets
  <2>8. SendOK(m)'
    BY <2>5, <2>7 DEF SendOK
  <2>9. AckOK(m)'
    BY <2>1, <2>2 DEF AckOK, Pending
  <2>10. ReadOK(m)' /\ Advance(m)
    BY <2>1, <2>2, <2>3, <2>5, <2>7 DEF ReadOK, Named, Advance
  <2>11. ASSUME NEW x \in Msg \ {m} PROVE Kept(x)
    BY <2>1, <2>4, <2>5, Untouched DEF RowGets, OnceSame, SendSame, IInv, Types
  <2> QED
    BY <2>2, <2>6, <2>8, <2>9, <2>10, <2>11 DEF Kept, MsgInv
<1>13. ASSUME NEW a \in acks, AdvanceAck(a) PROVE Types' /\ \A x \in Msg : Kept(x)
  <2> DEFINE m == a.msg
             slow == a.again /\ send[m] = "sent"
  <2>1. a \in Receipt /\ m \in Out /\ m \in Msg /\ m \notin In /\ a.to \in {"DELIVERED", "READ", "FAILED"}
    BY DEF IInv, Types, Receipt, Msg
  <2>2. MsgInv(m) /\ SendOK(m) /\ AckOK(m) /\ ReadOK(m)
    BY <2>1 DEF IInv, MsgInv
  <2>3. /\ acked' = (IF slow THEN [acked EXCEPT ![m] = @ \ {a.to}] ELSE acked)
        /\ UNCHANGED <<send, chain, stale, inserted, unseen, opened, job>>
    BY <1>13 DEF AdvanceAck, liveVars, jobVars
  <2>4. CASE /\ Named(m) /\ row[m].status \in TransitionFrom(a.to)
             /\ row' = [row EXCEPT ![m].status = a.to] /\ acks' = acks \ {a}
    <3>1. row[m] # None /\ a.to \in Status
      BY <2>1, <2>4 DEF Named, Status
    <3>2. PICK r \in Row : /\ RowGets(m, r) /\ r.status = a.to
                           /\ r.named = row[m].named /\ r.revoked = row[m].revoked
      <4> HIDE DEF m
      <4>1. Types /\ row' = [row EXCEPT ![m].status = a.to]
        BY <2>4 DEF IInv
      <4> QED
        BY <2>1, <3>1, <4>1, Updating
    <3>3. row'[m] = r /\ r # None /\ acked' = acked /\ send[m] \notin {"idle", "engine", "sent"}
      BY <2>2, <2>3, <2>4, <3>2 DEF RowGets, SendOK, Named
    <3>4. Types'
      BY <2>3, <2>4, <3>2, <3>3 DEF IInv, Types, RowGets
    <3>5. SendOK(m)' /\ ReadOK(m)'
      BY <2>2, <2>3, <3>1, <3>2, <3>3 DEF SendOK, ReadOK, Named
    <3>6. ASSUME m \notin stale, send[m] = "done", NEW z \in acked[m] PROVE Pending(m, z)' \/ Applied(m, z)'
      <4>0. z \in {"DELIVERED", "READ", "FAILED"}
        BY <2>1 DEF IInv, Types
      <4>1. CASE z = a.to
        BY <2>1, <3>2, <3>3, <4>1 DEF Applied
      <4>2. CASE z # a.to /\ Pending(m, z)
        BY <2>4, <4>2 DEF Pending
      <4>3. CASE Applied(m, z)
        BY <2>1, <2>4, <3>2, <3>3, <4>0, <4>3 DEF Applied, TransitionFrom
      <4> QED
        BY <2>2, <3>6, <4>1, <4>2, <4>3 DEF AckOK
    <3>7. AckOK(m)'
      BY <2>3, <3>3, <3>6 DEF AckOK
    <3>8. Advance(m)
      BY <2>1, <2>4, <3>2, <3>3 DEF Advance, TransitionFrom
    <3>9. ASSUME NEW x \in Msg \ {m} PROVE Kept(x)
      BY <2>3, <2>4, <3>2, <3>3, Untouched DEF RowGets, OnceSame, SendSame
    <3> QED
      BY <2>1, <3>4, <3>5, <3>7, <3>8, <3>9 DEF Kept, MsgInv
  <2>5. CASE /\ ~(Named(m) /\ row[m].status \in TransitionFrom(a.to))
             /\ NoRow(a) /\ UNCHANGED row
    <3> DEFINE b == [a EXCEPT !.again = TRUE]
    <3>1. b \in Receipt /\ b.msg = m /\ b.to = a.to
      BY <2>1 DEF Receipt
    <3>2. acks' = (acks \ {a}) \cup (IF a.again THEN {} ELSE {b})
      BY <2>5 DEF NoRow
    <3> HIDE DEF b
    <3>3. Types'
      BY <2>3, <2>5, <3>1, <3>2 DEF IInv, Types
    <3>4. acked'[m] = (IF slow THEN acked[m] \ {a.to} ELSE acked[m])
      BY <2>1, <2>3 DEF IInv, Types
    <3>5. SendOK(m)' /\ ReadOK(m)' /\ Advance(m)
      BY <2>2, <2>3, <2>5, <3>4 DEF SendOK, ReadOK, Named, Advance
    <3>6. ASSUME m \notin stale, send[m] \in {"sent", "done"}, NEW z \in acked'[m]
          PROVE  Pending(m, z)' \/ (send[m] = "done" /\ Applied(m, z)')
      <4>1. z \in acked[m] /\ (Applied(m, z) => Applied(m, z)')
        BY <2>5, <3>4 DEF Applied
      <4>2. CASE z # a.to /\ Pending(m, z)
        BY <3>2, <4>2 DEF Pending
      <4>3. CASE z = a.to /\ ~a.again
        BY <3>1, <3>2, <4>3 DEF Pending
      <4>4. CASE z = a.to /\ a.again
        <5>1. send[m] = "done"
          BY <3>4, <3>6, <4>4
        <5>2. Named(m)
          BY <2>2, <5>1 DEF SendOK, Named
        <5>3. row[m].status \in Status /\ row[m].status \notin TransitionFrom(a.to)
          BY <2>1, <2>5, <5>2 DEF Named, IInv, Types, Row
        <5> QED
          BY <2>1, <2>5, <4>4, <5>1, <5>3 DEF Applied, TransitionFrom, Status
      <4> QED
        BY <2>2, <3>6, <4>1, <4>2, <4>3, <4>4 DEF AckOK
    <3>7. AckOK(m)'
      BY <2>3, <3>6 DEF AckOK
    <3>8. ASSUME NEW x \in Msg \ {m} PROVE Kept(x)
      <4>1. x \in Out => acked'[x] = acked[x]
        BY <2>3 DEF IInv, Types
      <4> QED
        BY <2>3, <2>5, <3>2, <4>1, Untouched DEF OnceSame, SendSame
    <3> QED
      BY <2>1, <3>3, <3>5, <3>7, <3>8 DEF Kept, MsgInv
  <2> QED
    BY <1>13, <2>4, <2>5 DEF AdvanceAck
<1>14. ASSUME NEW m \in Msg, NEW i \in DOMAIN chain[m], ReactionReads(m, i) PROVE Types' /\ \A x \in Msg : Kept(x)
  <2>1. UNCHANGED <<row, send, acks, acked, stale, inserted, unseen, opened, job>>
    BY <1>14 DEF ReactionReads, liveVars, jobVars
  <2>2. MsgInv(m) /\ ReadOK(m) /\ chain[m] \in Seq(Reaction)
    BY DEF IInv, MsgInv, Types
  <2>3. PICK c \in Seq(Reaction) :
            /\ chain' = [chain EXCEPT ![m] = c]
            /\ \A j \in DOMAIN c : c[j].read # None => Named(m) /\ c[j].read.named
    <3>1. CASE Named(m) /\ chain' = [chain EXCEPT ![m][i].read = row[m]]
      <4> DEFINE e == [chain[m][i] EXCEPT !.read = row[m]]
                 c == [chain[m] EXCEPT ![i] = e]
      <4>1. row[m] \in Row /\ row[m].named /\ chain[m][i] \in Reaction
        BY <2>2, <3>1 DEF Named, IInv, Types
      <4>2. e \in Reaction /\ e.read = row[m]
        BY <4>1 DEF Reaction
      <4>3. chain' = [chain EXCEPT ![m] = c]
        BY <3>1 DEF IInv, Types
      <4> HIDE DEF e
      <4>4. c \in Seq(Reaction) /\ DOMAIN c = DOMAIN chain[m]
        BY <2>2, <4>2
      <4>5. \A j \in DOMAIN c : c[j] = IF j = i THEN e ELSE chain[m][j]
        BY <2>2
      <4> HIDE DEF c
      <4>6. \A j \in DOMAIN c : c[j].read # None => Named(m) /\ c[j].read.named
        BY <2>2, <3>1, <4>1, <4>2, <4>4, <4>5 DEF ReadOK
      <4> QED
        BY <4>3, <4>4, <4>6
    <3>2. CASE chain' = [chain EXCEPT ![m] = RemoveAt(@, i)]
      <4> DEFINE c == RemoveAt(chain[m], i)
      <4>1. c \in Seq(Reaction) /\ \A j \in DOMAIN c : \E k \in DOMAIN chain[m] : c[j] = chain[m][k]
        BY <2>2, Removing
      <4>2. chain' = [chain EXCEPT ![m] = c]
        BY <3>2 DEF IInv, Types
      <4> HIDE DEF c
      <4>3. ASSUME NEW j \in DOMAIN c, c[j].read # None PROVE Named(m) /\ c[j].read.named
        <5>1. PICK k \in DOMAIN chain[m] : c[j] = chain[m][k]
          BY <4>1
        <5> QED
          BY <2>2, <4>3, <5>1 DEF ReadOK
      <4> QED
        BY <4>1, <4>2, <4>3
    <3> QED
      BY <1>14, <3>1, <3>2 DEF ReactionReads
  <2>4. Types'
    BY <2>1, <2>3 DEF IInv, Types
  <2>5. chain'[m] = c
    BY <2>3 DEF IInv, Types
  <2>6. ReadOK(m)'
    BY <2>1, <2>3, <2>5 DEF ReadOK, Named
  <2>7. (m \in In => OnceOK(m)') /\ (m \in Out => SendOK(m)' /\ AckOK(m)') /\ Advance(m)
    BY <2>1, <2>2 DEF MsgInv, OnceOK, SendOK, AckOK, Pending, Applied, Advance
  <2>8. ASSUME NEW x \in Msg \ {m} PROVE Kept(x)
    BY <2>1, <2>3, Untouched DEF OnceSame, SendSame, IInv, Types
  <2> QED
    BY <2>4, <2>6, <2>7, <2>8 DEF Kept, MsgInv
<1>15. ASSUME NEW m \in Msg, NEW i \in DOMAIN chain[m], ReactionSaves(m, i) PROVE Types' /\ \A x \in Msg : Kept(x)
  <2> DEFINE e == chain[m][i]
             r == [e.read EXCEPT !.reactions = With(@, e)]
             c == RemoveAt(chain[m], i)
  <2>1. /\ e.read # None /\ row' = [row EXCEPT ![m] = r] /\ chain' = [chain EXCEPT ![m] = c]
        /\ stale' = IF <<e.read.status, e.read.revoked>> # <<row[m].status, row[m].revoked>>
                    THEN stale \cup {m} ELSE stale
        /\ UNCHANGED <<send, acks, acked, inserted, unseen, opened, job>>
    BY <1>15 DEF ReactionSaves, liveVars, jobVars, IInv, Types
  <2>2. MsgInv(m) /\ ReadOK(m) /\ chain[m] \in Seq(Reaction)
    BY DEF IInv, MsgInv, Types
  <2>3. e \in Reaction /\ e.read \in Row /\ e.by \in Sender /\ Named(m) /\ e.read.named
    <3>1. e \in Reaction /\ Named(m) /\ e.read.named
      BY <2>1, <2>2 DEF ReadOK
    <3> QED
      BY <2>1, <3>1 DEF Reaction
  <2>4. r \in Row /\ r.named /\ r.status = e.read.status /\ r.revoked = e.read.revoked
    <3>1. With(e.read.reactions, e) \in SUBSET Sender
      BY <2>3 DEF With, Row
    <3> QED
      BY <2>3, <3>1 DEF Row
  <2>5. c \in Seq(Reaction) /\ \A j \in DOMAIN c : \E k \in DOMAIN chain[m] : c[j] = chain[m][k]
    BY <2>2, Removing
  <2> HIDE DEF r, c
  <2>6. RowGets(m, r) /\ row'[m] = r /\ r # None /\ row[m] # None /\ row[m].named
    BY <2>1, <2>3, <2>4, Saving DEF IInv, RowGets, Named
  <2>7. Types'
    BY <2>1, <2>5, <2>6 DEF IInv, Types, RowGets
  <2>8. m \notin stale' => m \notin stale /\ r.status = row[m].status /\ r.revoked = row[m].revoked
    BY <2>1, <2>4
  <2>9. (m \in In => OnceOK(m)') /\ (m \in Out => SendOK(m)')
    BY <2>1, <2>2, <2>4, <2>6 DEF MsgInv, OnceOK, SendOK
  <2>10. m \in Out => AckOK(m)'
    BY <2>1, <2>2, <2>6, <2>8 DEF MsgInv, AckOK, Pending, Applied
  <2>11. Advance(m)
    BY <2>6, <2>8 DEF Advance
  <2>12. ASSUME NEW j \in DOMAIN c, c[j].read # None PROVE Named(m)' /\ c[j].read.named
    <3>1. PICK k \in DOMAIN chain[m] : c[j] = chain[m][k]
      BY <2>5
    <3> QED
      BY <2>2, <2>4, <2>6, <2>12, <3>1 DEF ReadOK, Named
  <2>13. chain'[m] = c
    BY <2>1 DEF IInv, Types
  <2>14. ReadOK(m)'
    BY <2>12, <2>13 DEF ReadOK
  <2>15. ASSUME NEW x \in Msg \ {m} PROVE Kept(x)
    BY <2>1, <2>6, Untouched DEF RowGets, OnceSame, SendSame, IInv, Types
  <2> QED
    BY <2>7, <2>9, <2>10, <2>11, <2>14, <2>15 DEF Kept, MsgInv
<1>16. ASSUME NEW j \in Job, Queue(j) \/ Attempt(j) PROVE Types' /\ \A x \in Msg : Kept(x)
  <2>1. PICK s \in Over \cup {"queued"} : job[j] \in {"lookup", "queued"} /\ job' = [job EXCEPT ![j] = s]
    BY <1>16 DEF Queue, Attempt, Over
  <2>2. UNCHANGED <<row, send, acks, acked, chain, stale, inserted, unseen, opened>>
    BY <1>16 DEF Queue, Attempt, rowVars, liveVars
  <2>3. \A k \in Job : job'[k] = "none" <=> job[k] = "none"
    BY <2>1 DEF IInv, Types, Over
  <2>4. Types'
    BY <2>1, <2>2 DEF IInv, Types
  <2>5. ASSUME NEW x \in Msg PROVE Kept(x)
    <3>1. x \in In => \A n \in 1 .. MaxFaults + 1 : job'[<<x, n>>] = "none" <=> job[<<x, n>>] = "none"
      BY <2>3 DEF Job
    <3> QED
      BY <2>2, <3>1, Untouched DEF OnceSame, SendSame
  <2> QED
    BY <2>4, <2>5
<1>17. ASSUME Restart PROVE Types' /\ \A x \in Msg : Kept(x)
  <2>1. /\ send' = [m \in Out |-> IF send[m] \in {"engine", "sent"} THEN "cut" ELSE send[m]]
        /\ acked' = [m \in Out |-> acked[m] \ {a.to : a \in {b \in acks : b.msg = m}}]
        /\ acks' = {} /\ unseen' = {} /\ inserted' = {}
        /\ chain' = [m \in Msg |-> <<>>]
        /\ UNCHANGED <<row, stale, opened>>
    BY <1>17 DEF Restart
  <2>2. job' = [j \in Job |->
                 IF job[j] = "lookup" \/ (job[j] = "queued" /\ ~queue) \/ (j[1] \in inserted /\ j[2] = 1)
                 THEN "lost" ELSE job[j]]
    BY <1>17 DEF Restart
  <2>3. Types'
    BY <2>1, <2>2 DEF IInv, Types, Over
  <2>4. ASSUME NEW x \in In PROVE OnceOK(x)'
    <3>1. OnceOK(x)
      BY DEF IInv, MsgInv, Msg
    <3>2. \A n \in 1 .. MaxFaults + 1 : job'[<<x, n>>] # "none" => job[<<x, n>>] # "none" \/ (x \in inserted /\ n = 1)
      BY <2>2 DEF Job
    <3> QED
      BY <2>1, <3>1, <3>2 DEF OnceOK
  <2>5. ASSUME NEW x \in Out PROVE SendOK(x)' /\ AckOK(x)'
    <3>1. SendOK(x) /\ AckOK(x)
      BY DEF IInv, MsgInv, Msg
    <3>2. SendOK(x)'
      BY <2>1, <3>1 DEF SendOK, IInv, Types
    <3>3. ASSUME NEW z \in acked'[x] PROVE z \in acked[x] /\ ~Pending(x, z)
      BY <2>1, <3>3 DEF Pending
    <3>4. send'[x] \in {"sent", "done"} => send[x] = "done"
      BY <2>1
    <3>5. AckOK(x)'
      BY <2>1, <3>1, <3>3, <3>4 DEF AckOK, Applied
    <3> QED
      BY <3>2, <3>5
  <2>6. ASSUME NEW x \in Msg PROVE ReadOK(x)' /\ Advance(x)
    BY <2>1 DEF ReadOK, Advance
  <2> QED
    BY <2>3, <2>4, <2>5, <2>6 DEF Kept, MsgInv
<1> QED
  BY <1>1, <1>2, <1>3, <1>4, <1>5, <1>6, <1>7, <1>8, <1>9, <1>10, <1>11, <1>12, <1>13, <1>14,
     <1>15, <1>16, <1>17
  DEF Next, EngineReports, HandlersGoOn, Deliver

-----------------------------------------------------------------------------
(* The theorems.                                                           *)

\* The invariant holds at the start, and every step keeps it.
THEOREM Inductive == Spec => []IInv
<1>1. Init => IInv
  <2> SUFFICES ASSUME Init PROVE IInv
    OBVIOUS
  <2>1. Types
    BY DEF Init, Types
  <2>2. ASSUME NEW m \in In PROVE OnceOK(m)
    BY DEF Init, OnceOK, Job, Msg
  <2>3. ASSUME NEW m \in Out PROVE SendOK(m) /\ AckOK(m)
    BY DEF Init, SendOK, AckOK, Msg
  <2>4. ASSUME NEW m \in Msg PROVE ReadOK(m)
    BY DEF Init, ReadOK
  <2> QED
    BY <2>1, <2>2, <2>3, <2>4 DEF IInv, MsgInv
<1>2. IInv /\ [Next]_vars => IInv'
  <2>1. ASSUME IInv, UNCHANGED vars PROVE IInv'
    <3>1. Types'
      BY <2>1 DEF vars, rowVars, liveVars, jobVars, IInv, Types
    <3>2. ASSUME NEW x \in Msg PROVE Kept(x)
      BY <2>1, Untouched DEF vars, rowVars, liveVars, jobVars, OnceSame, SendSame
    <3> QED
      BY <3>1, <3>2 DEF IInv, Kept
  <2> QED
    BY <2>1, Step DEF IInv, Kept
<1> QED
  BY <1>1, <1>2, PTL DEF Spec

\* onMessage announces a message once, however often it is reported and whatever
\* the history import stores meanwhile, unless storing it failed.
THEOREM AnnouncedAtMostOnce == Spec => []AnnouncedOnce
<1>1. IInv => AnnouncedOnce
  BY DEF IInv, MsgInv, OnceOK, AnnouncedOnce, Msg
<1> QED
  BY <1>1, Inductive, PTL

\* A receipt that comes before the send has stored the id is applied in the end,
\* and of several the furthest stands.
THEOREM ReceiptsAreKept == Spec => []NoAckLost
<1>1. ASSUME IInv PROVE NoAckLost
  <2> SUFFICES ASSUME NEW m \in Out \ stale, send[m] = "done", row[m].status # "FAILED", \A a \in acks : a.msg # m
               PROVE  /\ "READ" \in acked[m] => row[m].status = "READ"
                      /\ acked[m] = {"DELIVERED"} => row[m].status \in {"DELIVERED", "READ"}
    BY DEF NoAckLost
  <2>1. \A s \in acked[m] : Applied(m, s)
    BY <1>1 DEF IInv, MsgInv, AckOK, Pending, Msg
  <2> QED
    BY <2>1 DEF Applied
<1> QED
  BY <1>1, Inductive, PTL

\* No step takes a stored status back or brings a deleted message back, the save
\* of a reaction excepted.
THEOREM StatusOnlyAdvances == Spec => OnlyAdvances
<1>1. IInv /\ [Next]_vars =>
        [\A m \in Msg : row[m] # None /\ m \notin stale' =>
          /\ row[m].status = row'[m].status \/ row[m].status \in {"PENDING", "SENT"}
             \/ <<row[m].status, row'[m].status>> = <<"DELIVERED", "READ">>
          /\ row'[m].status = "PENDING" => row[m].status = "PENDING"
          /\ row[m].revoked => row'[m].revoked]_vars
  BY Step DEF Kept, Advance
<1> QED
  BY <1>1, Inductive, PTL DEF Spec, OnlyAdvances

===============================================================================
