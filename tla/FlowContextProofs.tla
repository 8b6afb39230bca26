--------------------------- MODULE FlowContextProofs ---------------------------
(***************************************************************************)
(* What FlowContext promises, for any number of coroutines, messages and   *)
(* handlers.  The inductive invariant ties each coroutine to its scope and *)
(* each scope to a context object of its own.                              *)
(***************************************************************************)
EXTENDS FlowContext, TLAPS

\* Outside a handler a coroutine refers to no handler's object, and so does
\* what reset() will bring back.
Outside ==
    /\ \A c \in Coroutines : owner[c] = 0 => ctx[c] = 0 \/ objs[ctx[c]].kind = None
    /\ \A c \in Coroutines : token[c] = 0 \/ objs[token[c]].kind = None

\* Work for a scope refers to the object made for it, which no other scope
\* has and which holds the scope's kind, flow and inbound hop.
Inside ==
    /\ \A c \in Coroutines : owner[c] # 0 => ctx[c] = scopes[owner[c]].obj
    /\ \A s \in 1..Len(scopes) :
         /\ scopes[s].obj \in 1..Len(objs)
         /\ scopes[s].kind \in {"http", "task"} => scopes[s].cause = 0
         /\ objs[scopes[s].obj] = HandlerContext(scopes[s].kind, scopes[s].flow, Cause(s))
    /\ \A s, t \in 1..Len(scopes) : scopes[s].obj = scopes[t].obj => s = t

\* Who works for a scope, and whom the messages and records name.
Owners ==
    /\ owner[Main] = 0
    /\ \A c \in Coroutines : pc[c] \in {"off", "idle"} => owner[c] = 0
    /\ \A c \in Handlers : pc[c] \in {"run", "reporting"} => owner[c] # 0
    /\ \A i \in 1..Len(msgs) : msgs[i].scope \in 0..Len(scopes)
    /\ \A r \in records : r.scope \in 0..Len(scopes)
    /\ \A r \in replies : r.scope \in 1..Len(scopes)
    /\ \A s \in 1..Len(scopes) : scopes[s].cause \in 0..Len(msgs)

\* A handler reports one uncaught exception, with the flow it holds, and
\* replies when it is over.
Errors ==
    /\ \A c, d \in Handlers : owner[c] = owner[d] /\ owner[c] # 0 => c = d
    /\ \A c \in Handlers, e \in records :
         e.uncaught /\ e.scope = owner[c] /\ owner[c] # 0 =>
             pc[c] = "reporting" /\ e.flow = held[c]
    /\ \A c \in Handlers, r \in replies : r.scope # owner[c]
    /\ ErrorsAgree

IInv == TypeOK /\ Outside /\ Inside /\ Owners /\ Errors /\ LineageIsCausal

USE DEF Handlers, Coroutines, Values, Kinds

LEMMA Appended ==
  ASSUME NEW S, NEW q \in Seq(S), NEW e \in S
  PROVE  /\ Append(q, e) \in Seq(S)
         /\ Len(q) \in Nat /\ Len(Append(q, e)) = Len(q) + 1
         /\ \A i \in 1..Len(q) : Append(q, e)[i] = q[i] /\ q[i] \in S
         /\ Append(q, e)[Len(q) + 1] = e
  OBVIOUS

LEMMA Replaced ==
  ASSUME NEW S, NEW q \in Seq(S), NEW k \in 1..Len(q), NEW e \in S
  PROVE  /\ [q EXCEPT ![k] = e] \in Seq(S)
         /\ Len([q EXCEPT ![k] = e]) = Len(q)
         /\ \A i \in 1..Len(q) : [q EXCEPT ![k] = e][i] = IF i = k THEN e ELSE q[i]
<1> DEFINE w == [q EXCEPT ![k] = e]
<1>1. Len(q) \in Nat /\ DOMAIN q = 1..Len(q) /\ DOMAIN w = 1..Len(q)
  OBVIOUS
<1>2. \A i \in 1..Len(q) : q[i] \in S /\ w[i] = IF i = k THEN e ELSE q[i]
  OBVIOUS
<1>3. w \in [1..Len(q) -> S]
  BY <1>1, <1>2
<1> HIDE DEF w
<1>4. w \in Seq(S) /\ Len(w) = Len(q)
  BY <1>1, <1>3
<1> QED BY <1>2, <1>4 DEF w

LEMMA InitHolds == Init => IInv
<1> SUFFICES ASSUME Init PROVE IInv
  OBVIOUS
<1> USE DistinctAssumption DEF Init
<1>1. TypeOK
  BY DEF TypeOK
<1>2. Outside /\ Inside /\ Owners /\ Errors /\ LineageIsCausal
  BY DEF Outside, Inside, Owners, Errors, ErrorsAgree, LineageIsCausal
<1> QED BY <1>1, <1>2 DEF IInv

LEMMA StartKeeps ==
  ASSUME IInv, NEW c \in Handlers, Start(c) PROVE IInv'
<1> USE DistinctAssumption DEF Start, wire
<1>1. TypeOK'
  BY DEF IInv, TypeOK
<1>2. Outside'
  BY DEF IInv, TypeOK, Outside, Owners
<1>3. Inside'
  BY DEF IInv, TypeOK, Inside, Owners, Cause
<1>4. Owners' /\ Errors'
  BY DEF IInv, TypeOK, Owners, Errors, ErrorsAgree
<1>5. LineageIsCausal'
  BY DEF IInv, LineageIsCausal, Cause, KindOf
<1> QED BY <1>1, <1>2, <1>3, <1>4, <1>5 DEF IInv

LEMMA SpawnKeeps ==
  ASSUME IInv, NEW c \in Coroutines, NEW d \in Children, Spawn(c, d) PROVE IInv'
<1>1. \A e \in Handlers : owner'[e] = owner[e] /\ pc'[e] = pc[e] /\ held'[e] = held[e]
  BY DistinctAssumption DEF Spawn, IInv, TypeOK
<1>2. UNCHANGED <<records, replies>>
  BY DEF Spawn, wire
<1>3. Errors'
  BY <1>1, <1>2 DEF IInv, Errors, ErrorsAgree
<1> USE DistinctAssumption DEF Spawn, wire
<1>4. TypeOK'
  BY DEF IInv, TypeOK
<1>5. Outside'
  BY DEF IInv, TypeOK, Outside, Owners
<1>6. Inside'
  BY DEF IInv, TypeOK, Inside, Owners, Cause
<1>7. Owners'
  BY DEF IInv, TypeOK, Owners
<1>8. LineageIsCausal'
  BY DEF IInv, LineageIsCausal, Cause, KindOf
<1> QED BY <1>3, <1>4, <1>5, <1>6, <1>7, <1>8 DEF IInv

LEMMA ForeignKeeps ==
  ASSUME IInv, Foreign PROVE IInv'
<1> USE DistinctAssumption DEF code
<1> DEFINE m == [flow |-> None, hop |-> 0, parent |-> 0, kind |-> None, scope |-> 0]
<1>m. m \in Messages
  BY DEF Messages
<1>0. /\ msgs' \in Seq(Messages)
      /\ Len(msgs') = Len(msgs) + 1 /\ Len(msgs) \in Nat
      /\ \A i \in 1..Len(msgs) : msgs'[i] = msgs[i]
      /\ msgs'[Len(msgs) + 1] = m
  <2> HIDE DEF m
  <2> QED BY <1>m, Appended DEF IInv, TypeOK, Foreign, m
<1>b. UNCHANGED <<objs, ctx, token, pc, held, records, replies, owner, scopes>>
  BY DEF Foreign
<1>c. Len(scopes) \in Nat
  BY DEF IInv, TypeOK
<1>1. TypeOK'
  BY <1>0, <1>b DEF IInv, TypeOK
<1>a. \A s \in 0..Len(scopes) : Cause(s)' = Cause(s) /\ KindOf(s)' = KindOf(s)
  BY <1>0, <1>b, <1>c DEF IInv, TypeOK, Owners, Cause, KindOf
<1>2. Outside'
  BY <1>b DEF IInv, Outside
<1>3. Inside'
  BY <1>a, <1>b DEF IInv, TypeOK, Inside
<1>4. Owners'
  <2>1. \A i \in 1..Len(msgs') : msgs'[i].scope \in 0..Len(scopes)
    <3>1. \A i \in 1..Len(msgs) : msgs'[i].scope \in 0..Len(scopes)
      BY <1>0 DEF IInv, Owners
    <3>2. msgs'[Len(msgs) + 1].scope \in 0..Len(scopes)
      BY <1>0, <1>c
    <3> QED BY <1>0, <3>1, <3>2
  <2> QED BY <1>0, <1>b, <2>1 DEF IInv, TypeOK, Owners
<1>6. Errors'
  BY <1>b DEF IInv, Errors, ErrorsAgree
<1>5. LineageIsCausal'
  <2>1. ASSUME NEW i \in 1..Len(msgs')
        PROVE  (msgs[i].parent = Cause(msgs[i].scope) /\ msgs[i].kind = KindOf(msgs[i].scope))'
    <3>1. CASE i \in 1..Len(msgs)
      BY <1>0, <1>a, <1>b, <3>1 DEF IInv, Owners, LineageIsCausal
    <3>2. CASE i = Len(msgs) + 1
      BY <1>0, <3>2 DEF Cause, KindOf
    <3> QED BY <1>0, <3>1, <3>2
  <2>2. \A r \in records : (r.hop = Cause(r.scope) /\ r.kind = KindOf(r.scope))'
    BY <1>a, <1>b DEF IInv, Owners, LineageIsCausal
  <2> QED BY <1>b, <2>1, <2>2 DEF LineageIsCausal
<1> QED BY <1>1, <1>2, <1>3, <1>4, <1>5, <1>6 DEF IInv

LEMMA EnterKeeps ==
  ASSUME IInv, NEW c \in Handlers, NEW cause \in 0..Len(msgs), NEW f, NEW h,
         \/ cause = 0 /\ f = None /\ h = 0
         \/ cause # 0 /\ c \in Workers /\ f = msgs[cause].flow /\ h = msgs[cause].hop,
         Enter(c, cause, f, h)
  PROVE  IInv'
<1> USE DistinctAssumption
<1>1. PICK g \in Flows :
        LET flow == IF f \in {None, Empty} THEN g ELSE f IN
        /\ set_handler_context(c, Kind[c], flow, h)
        /\ scopes' = Append(scopes, [kind |-> Kind[c], cause |-> cause,
                                     flow |-> flow, obj |-> Len(objs) + 1])
  BY DEF Enter
<1> DEFINE flow == IF f \in {None, Empty} THEN g ELSE f
           o == HandlerContext(Kind[c], flow, h)
           z == [kind |-> Kind[c], cause |-> cause, flow |-> flow, obj |-> Len(objs) + 1]
<1>2. /\ cause \in Nat /\ h \in Nat /\ flow \in Values /\ Kind[c] \in Kinds
      /\ Len(objs) \in Nat /\ Len(scopes) \in Nat
  <2>1. cause # 0 => msgs[cause] \in Messages
    BY DEF IInv, TypeOK
  <2>2. Len(objs) \in Nat /\ Len(scopes) \in Nat /\ Len(msgs) \in Nat
    BY DEF IInv, TypeOK
  <2> QED BY <2>1, <2>2, KindAssumption DEF Messages
<1>o. o \in Objects
  BY <1>2 DEF Objects, HandlerContext
<1>z. z \in Scopes
  BY <1>2 DEF Scopes
<1> HIDE DEF flow, o, z
<1>3. /\ objs' = Append(objs, o) /\ scopes' = Append(scopes, z)
      /\ ctx' = [ctx EXCEPT ![c] = Len(objs) + 1]
      /\ token' = [token EXCEPT ![c] = ctx[c]]
      /\ pc[c] = "idle" /\ pc' = [pc EXCEPT ![c] = "run"]
      /\ owner' = [owner EXCEPT ![c] = Len(scopes) + 1]
      /\ UNCHANGED <<held, msgs, records, replies>>
  BY <1>1 DEF Enter, set_handler_context, wire, flow, o, z
<1>4. /\ objs' \in Seq(Objects) /\ Len(objs') = Len(objs) + 1
      /\ \A i \in 1..Len(objs) : objs'[i] = objs[i]
      /\ objs'[Len(objs) + 1] = o
  BY <1>3, <1>o, Appended DEF IInv, TypeOK
<1>5. /\ scopes' \in Seq(Scopes) /\ Len(scopes') = Len(scopes) + 1
      /\ \A i \in 1..Len(scopes) : scopes'[i] = scopes[i] /\ scopes[i] \in Scopes
      /\ scopes'[Len(scopes) + 1] = z
  BY <1>3, <1>z, Appended DEF IInv, TypeOK
<1>6. /\ o.kind = z.kind /\ o.flow = z.flow /\ z.kind \in Kinds /\ o.kind # None
      /\ z.cause = cause /\ z.obj = Len(objs) + 1 /\ o.hop = h
      /\ o = HandlerContext(z.kind, z.flow, h)
  BY <1>2 DEF o, z, HandlerContext
<1>k. z.kind \in {"http", "task"} => z.cause = 0
  BY KindAssumption DEF z
<1>n. PICK n : n = Len(scopes) + 1
  OBVIOUS
<1>7. TypeOK'
  <2>1. /\ ctx' \in [Coroutines -> 0..Len(objs')] /\ token' \in [Coroutines -> 0..Len(objs')]
        /\ owner' \in [Coroutines -> 0..Len(scopes')]
    <3>1. /\ Len(objs) \in Nat /\ Len(scopes) \in Nat
          /\ ctx \in [Coroutines -> 0..Len(objs)] /\ token \in [Coroutines -> 0..Len(objs)]
          /\ owner \in [Coroutines -> 0..Len(scopes)]
      BY DEF IInv, TypeOK
    <3>2. ctx' \in [Coroutines -> 0..Len(objs) + 1]
      BY <1>3, <3>1
    <3>3. token' \in [Coroutines -> 0..Len(objs) + 1]
      BY <1>3, <3>1
    <3>4. owner' \in [Coroutines -> 0..Len(scopes) + 1]
      BY <1>3, <3>1
    <3> QED BY <1>4, <1>5, <3>2, <3>3, <3>4
  <2>2. pc' \in [Coroutines -> {"off", "idle", "run", "reporting"}]
    BY <1>3 DEF IInv, TypeOK
  <2> QED BY <1>3, <1>4, <1>5, <2>1, <2>2 DEF IInv, TypeOK
<1>8. /\ \A s \in 0..Len(scopes) : Cause(s)' = Cause(s) /\ KindOf(s)' = KindOf(s)
      /\ Cause(n)' = h
  <2>1. ASSUME NEW s \in 0..Len(scopes) PROVE Cause(s)' = Cause(s) /\ KindOf(s)' = KindOf(s)
    BY <1>2, <1>3, <1>5 DEF Cause, KindOf
  <2>2. n # 0 /\ (scopes[n])' = z /\ z.cause = cause
    BY <1>2, <1>5, <1>6, <1>n
  <2>3. Cause(n)' = h
    BY <1>3, <2>2 DEF Cause
  <2> QED BY <2>1, <2>3
<1>9. Outside'
  <2>1. ASSUME NEW d \in Coroutines, (owner[d] = 0)'
        PROVE  (ctx[d] = 0 \/ objs[ctx[d]].kind = None)'
    BY <1>2, <1>3, <1>4, <2>1 DEF IInv, TypeOK, Outside
  <2>2. ASSUME NEW d \in Coroutines
        PROVE  (token[d] = 0 \/ objs[token[d]].kind = None)'
    <3>1. token'[d] = IF d = c THEN ctx[d] ELSE token[d]
      BY <1>3 DEF IInv, TypeOK
    <3>2. owner[c] = 0
      BY <1>3 DEF IInv, Owners
    <3>3. \A x \in 1..Len(objs) : objs'[x] = objs[x]
      BY <1>4
    <3>4. ctx[d] \in 0..Len(objs) /\ token[d] \in 0..Len(objs)
      BY DEF IInv, TypeOK
    <3>5. CASE d = c
      BY <1>2, <3>1, <3>2, <3>3, <3>4, <3>5 DEF IInv, Outside
    <3>6. CASE d # c
      BY <1>2, <3>1, <3>3, <3>4, <3>6 DEF IInv, Outside
    <3> QED BY <3>5, <3>6
  <2> QED BY <2>1, <2>2 DEF Outside
<1>10. Inside'
  <2>1. ASSUME NEW d \in Coroutines, (owner[d] # 0)'
        PROVE  (ctx[d] = scopes[owner[d]].obj)'
    <3>1. CASE d = c
      <4>1. ctx'[d] = Len(objs) + 1 /\ owner'[d] = Len(scopes) + 1
        BY <1>3, <3>1 DEF IInv, TypeOK
      <4> QED BY <1>5, <1>6, <4>1
    <3>2. CASE d # c
      <4>1. /\ ctx'[d] = ctx[d] /\ owner'[d] = owner[d] /\ owner[d] \in 0..Len(scopes)
            /\ owner[d] # 0 => ctx[d] = scopes[owner[d]].obj
        BY <1>3, <3>2 DEF IInv, TypeOK, Inside
      <4>2. owner[d] \in 1..Len(scopes)
        BY <2>1, <4>1
      <4> QED BY <1>5, <4>1, <4>2
    <3> QED BY <3>1, <3>2
  <2>2. ASSUME NEW s \in 1..Len(scopes')
        PROVE  (/\ scopes[s].obj \in 1..Len(objs)
                /\ scopes[s].kind \in {"http", "task"} => scopes[s].cause = 0
                /\ objs[scopes[s].obj] = HandlerContext(scopes[s].kind, scopes[s].flow, Cause(s)))'
    <3>1. CASE s \in 1..Len(scopes)
      <4>1. /\ scopes'[s] = scopes[s] /\ Cause(s)' = Cause(s)
            /\ scopes[s].obj \in 1..Len(objs)
            /\ scopes[s].kind \in {"http", "task"} => scopes[s].cause = 0
            /\ objs[scopes[s].obj] = HandlerContext(scopes[s].kind, scopes[s].flow, Cause(s))
        BY <1>2, <1>5, <1>8, <3>1 DEF IInv, Inside
      <4>2. objs'[scopes[s].obj] = objs[scopes[s].obj]
        BY <1>4, <4>1
      <4> QED BY <1>2, <1>4, <4>1, <4>2 DEF HandlerContext
    <3>2. CASE s = Len(scopes) + 1
      BY <1>2, <1>4, <1>5, <1>6, <1>8, <1>k, <1>n, <3>2 DEF HandlerContext
    <3> QED BY <1>2, <1>5, <3>1, <3>2
  <2>3. ASSUME NEW s \in 1..Len(scopes'), NEW t \in 1..Len(scopes'),
               (scopes[s].obj = scopes[t].obj)'
        PROVE  s = t
    <3>1. \A x \in 1..Len(scopes) : scopes'[x].obj # Len(objs) + 1
      <4>1. ASSUME NEW x \in 1..Len(scopes) PROVE scopes'[x].obj \in 1..Len(objs)
        BY <1>5 DEF IInv, Inside
      <4> QED BY <1>2, <4>1
    <3>2. CASE s \in 1..Len(scopes) /\ t \in 1..Len(scopes)
      BY <1>5, <2>3, <3>2 DEF IInv, Inside
    <3>3. CASE s = Len(scopes) + 1 /\ t \in 1..Len(scopes)
      BY <1>5, <1>6, <2>3, <3>1, <3>3
    <3>4. CASE t = Len(scopes) + 1 /\ s \in 1..Len(scopes)
      BY <1>5, <1>6, <2>3, <3>1, <3>4
    <3> QED BY <1>2, <1>5, <3>2, <3>3, <3>4
  <2> QED BY <2>1, <2>2, <2>3 DEF Inside
<1>11. Owners'
  <2>1. \A s \in 1..Len(scopes') : scopes'[s].cause \in 0..Len(msgs)
    <3>1. ASSUME NEW s \in 1..Len(scopes) PROVE scopes'[s].cause \in 0..Len(msgs)
      BY <1>5 DEF IInv, Owners
    <3> QED BY <1>2, <1>5, <1>6, <3>1
  <2>2. owner'[Main] = 0 /\ \A d \in Coroutines : pc'[d] \in {"off", "idle"} => owner'[d] = 0
    BY <1>3 DEF IInv, TypeOK, Owners
  <2>3. \A d \in Handlers : pc'[d] \in {"run", "reporting"} => owner'[d] # 0
    BY <1>2, <1>3 DEF IInv, TypeOK, Owners
  <2>4. /\ \A i \in 1..Len(msgs) : msgs[i].scope \in 0..Len(scopes')
        /\ \A r \in records : r.scope \in 0..Len(scopes')
        /\ \A r \in replies : r.scope \in 1..Len(scopes')
    BY <1>2, <1>5 DEF IInv, Owners
  <2> QED BY <1>3, <2>1, <2>2, <2>3, <2>4 DEF Owners
<1>12. Errors'
  <2>1. \A d \in Coroutines : owner'[d] = IF d = c THEN Len(scopes) + 1 ELSE owner[d]
    BY <1>3 DEF IInv, TypeOK
  <2>2. \A d \in Coroutines : d # c => pc'[d] = pc[d] /\ held'[d] = held[d]
    BY <1>3 DEF IInv, TypeOK
  <2>3. \A d \in Coroutines : owner[d] \in 0..Len(scopes)
    BY DEF IInv, TypeOK
  <2> QED BY <1>2, <1>3, <2>1, <2>2, <2>3 DEF IInv, Owners, Errors, ErrorsAgree
<1>13. LineageIsCausal'
  <2>1. UNCHANGED <<msgs, records>>
    BY <1>3
  <2>2. \A i \in 1..Len(msgs) : Cause(msgs[i].scope)' = Cause(msgs[i].scope)
                               /\ KindOf(msgs[i].scope)' = KindOf(msgs[i].scope)
    BY <1>8, <2>1 DEF IInv, Owners
  <2>3. \A r \in records : Cause(r.scope)' = Cause(r.scope) /\ KindOf(r.scope)' = KindOf(r.scope)
    BY <1>8 DEF IInv, Owners
  <2> QED BY <2>1, <2>2, <2>3 DEF IInv, LineageIsCausal
<1> QED BY <1>7, <1>9, <1>10, <1>11, <1>12, <1>13 DEF IInv

LEMMA CurrentFlow ==
  ASSUME IInv, NEW c \in Coroutines
  PROVE  /\ current_flow_id(c) \in Values \cup {None}
         /\ ctx[c] # 0 => objs[ctx[c]] \in Objects /\ current_flow_id(c) \in Values
<1>1. ctx[c] \in 0..Len(objs) /\ objs \in Seq(Objects)
  BY DEF IInv, TypeOK
<1>2. ctx[c] # 0 => objs[ctx[c]] \in Objects
  BY <1>1
<1> QED BY <1>2 DEF current_flow_id, Objects

LEMMA LeaveKeeps ==
  ASSUME IInv, NEW c \in Handlers, pc[c] \in {"run", "reporting"}, Leave(c),
         NEW r, r.scope = owner[c], r.error => pc[c] = "reporting" /\ r.flow = held[c],
         r \in [scope : Nat, flow : Values \cup {None}, error : BOOLEAN],
         replies' = replies \/ replies' = replies \cup {r},
         UNCHANGED <<msgs, records>>
  PROVE  IInv'
<1> USE DistinctAssumption DEF Leave, reset_handler_scope
<1>0. owner[c] \in 1..Len(scopes) /\ Len(scopes) \in Nat
  BY DEF IInv, TypeOK, Owners
<1>1. TypeOK'
  BY DEF IInv, TypeOK
<1>2. Outside'
  BY DEF IInv, TypeOK, Outside
<1>3. Inside'
  BY DEF IInv, TypeOK, Inside, Cause
<1>4. Owners'
  <2>1. \A x \in replies' : x.scope \in 1..Len(scopes)
    BY <1>0 DEF IInv, Owners
  <2> QED BY <2>1 DEF IInv, TypeOK, Owners
<1>5. Errors'
  <2>1. \A d \in Handlers : /\ owner'[d] = IF d = c THEN 0 ELSE owner[d]
                            /\ d # c => pc'[d] = pc[d] /\ held'[d] = held[d]
    BY DEF IInv, TypeOK
  <2>2. \A d \in Handlers, x \in replies' : x.scope # owner'[d]
    <3>1. SUFFICES ASSUME NEW d \in Handlers, NEW x \in replies' PROVE x.scope # owner'[d]
      OBVIOUS
    <3>2. x.scope \in 1..Len(scopes)
      BY <1>0 DEF IInv, Owners
    <3>3. CASE x = r
      BY <1>0, <2>1, <3>2, <3>3 DEF IInv, Errors
    <3>4. CASE x \in replies
      BY <1>0, <2>1, <3>2, <3>4 DEF IInv, Errors
    <3> QED BY <3>3, <3>4
  <2>3. ErrorsAgree'
    <3>1. ASSUME NEW e \in records, e.uncaught, e.scope = r.scope, r.error PROVE e.flow = r.flow
      BY <1>0, <3>1 DEF IInv, Errors
    <3> QED BY <3>1 DEF IInv, Errors, ErrorsAgree
  <2>4. \A d, x \in Handlers : owner'[d] = owner'[x] /\ owner'[d] # 0 => d = x
    BY <2>1 DEF IInv, Errors
  <2>5. \A d \in Handlers, e \in records :
          e.uncaught /\ e.scope = owner'[d] /\ owner'[d] # 0 =>
             pc'[d] = "reporting" /\ e.flow = held'[d]
    BY <2>1 DEF IInv, Errors
  <2> QED BY <2>2, <2>3, <2>4, <2>5 DEF Errors
<1>6. LineageIsCausal'
  BY DEF IInv, LineageIsCausal, Cause, KindOf
<1> QED BY <1>1, <1>2, <1>3, <1>4, <1>5, <1>6 DEF IInv

LEMMA ReturnKeeps ==
  ASSUME IInv, NEW c \in Handlers, Return(c) PROVE IInv'
<1> DEFINE r == [scope |-> owner[c], flow |-> current_flow_id(c), error |-> FALSE]
<1>1. r \in [scope : Nat, flow : Values \cup {None}, error : BOOLEAN]
  BY CurrentFlow DEF IInv, TypeOK
<1>2. replies' = replies \/ replies' = replies \cup {r}
  BY DEF Return
<1>3. r.scope = owner[c] /\ ~r.error
  OBVIOUS
<1> HIDE DEF r
<1> QED BY <1>1, <1>2, <1>3, LeaveKeeps DEF Return

LEMMA FailedKeeps ==
  ASSUME IInv, NEW c \in Handlers, Failed(c) PROVE IInv'
<1> DEFINE r == [scope |-> owner[c], flow |-> held[c], error |-> TRUE]
<1>1. r \in [scope : Nat, flow : Values \cup {None}, error : BOOLEAN]
  BY DEF IInv, TypeOK
<1>2. replies' = replies \/ replies' = replies \cup {r}
  BY DEF Failed
<1>3. r.scope = owner[c] /\ r.flow = held[c]
  OBVIOUS
<1> HIDE DEF r
<1> QED BY <1>1, <1>2, <1>3, LeaveKeeps DEF Failed

\* What is stamped for a coroutine: the hop, the kind and the flow of its scope.
LEMMA Stamp ==
  ASSUME IInv, NEW c \in Coroutines
  PROVE  /\ parent_hop(c) = Cause(owner[c]) /\ entrypoint(c) = KindOf(owner[c])
         /\ owner[c] = 0 => current_handler_context(c) = 0
         /\ owner[c] # 0 => /\ current_handler_context(c) = ctx[c] /\ ctx[c] # 0
                            /\ current_flow_id(c) = scopes[owner[c]].flow
         /\ parent_hop(c) \in Nat /\ entrypoint(c) \in Kinds \cup {None}
<1> USE DistinctAssumption
<1>1. CASE owner[c] = 0
  <2>1. current_handler_context(c) = 0
    BY <1>1 DEF IInv, Outside, current_handler_context
  <2> QED BY <1>1, <2>1 DEF parent_hop, entrypoint, Cause, KindOf
<1>2. CASE owner[c] # 0
  <2> DEFINE s == owner[c]
  <2>1. s \in 1..Len(scopes) /\ scopes[s] \in Scopes
    BY <1>2 DEF IInv, TypeOK
  <2>2. /\ ctx[c] = scopes[s].obj /\ ctx[c] \in 1..Len(objs)
        /\ objs[ctx[c]] = HandlerContext(scopes[s].kind, scopes[s].flow, Cause(s))
        /\ scopes[s].kind \in Kinds
    BY <1>2, <2>1 DEF IInv, Inside, Scopes
  <2>3. current_handler_context(c) = ctx[c] /\ ctx[c] # 0
    BY <2>2 DEF current_handler_context, HandlerContext
  <2>4. current_flow_id(c) = scopes[s].flow
    BY <2>2, <2>3 DEF current_flow_id, HandlerContext
  <2>5. entrypoint(c) = KindOf(s) /\ entrypoint(c) \in Kinds
    BY <1>2, <2>2, <2>3 DEF entrypoint, KindOf, HandlerContext
  <2>6. parent_hop(c) = IF scopes[s].kind \in {"http", "task"} THEN 0 ELSE Cause(s)
    BY <2>2, <2>3 DEF parent_hop, HandlerContext
  <2>7. scopes[s].kind \in {"http", "task"} => Cause(s) = 0
    BY <2>1 DEF IInv, Inside, Cause
  <2>8. Cause(s) \in Nat
    <3>1. scopes[s].cause \in 0..Len(msgs)
      BY <2>1 DEF IInv, Owners
    <3>2. scopes[s].cause # 0 => msgs[scopes[s].cause] \in Messages
      BY <3>1 DEF IInv, TypeOK
    <3> QED BY <3>2 DEF Cause, Messages
  <2> QED BY <1>2, <2>3, <2>4, <2>5, <2>6, <2>7, <2>8
<1> QED BY <1>1, <1>2

LEMMA RecordOf ==
  ASSUME IInv, NEW c \in Coroutines, NEW b \in BOOLEAN
  PROVE  /\ Record(c, b) \in [scope : Nat, kind : Kinds \cup {None}, hop : Nat,
                              flow : Values \cup {None}, uncaught : BOOLEAN]
         /\ Record(c, b).scope = owner[c] /\ Record(c, b).uncaught = b
         /\ Record(c, b).hop = Cause(owner[c]) /\ Record(c, b).kind = KindOf(owner[c])
         /\ owner[c] # 0 => Record(c, b).flow = current_flow_id(c)
<1>1. owner[c] \in Nat
  BY DEF IInv, TypeOK
<1> QED BY <1>1, Stamp, CurrentFlow DEF Record

LEMMA RaiseKeeps ==
  ASSUME IInv, NEW c \in Handlers, Raise(c) PROVE IInv'
<1> USE DistinctAssumption
<1> DEFINE e == Record(c, TRUE)
<1>1. /\ e \in [scope : Nat, kind : Kinds \cup {None}, hop : Nat,
                flow : Values \cup {None}, uncaught : BOOLEAN]
      /\ e.scope = owner[c] /\ e.hop = Cause(owner[c]) /\ e.kind = KindOf(owner[c])
      /\ owner[c] \in 1..Len(scopes) /\ e.flow = current_flow_id(c)
      /\ current_flow_id(c) \in Values \cup {None}
  <2>1. owner[c] \in 1..Len(scopes)
    BY DEF Raise, IInv, TypeOK, Owners
  <2>2. owner[c] # 0 /\ c \in Coroutines
    BY <2>1
  <2> QED BY <2>1, <2>2, RecordOf, CurrentFlow
<1>2. records' = records \/ records' = records \cup {e}
  BY DEF Raise, Reported
<1> HIDE DEF e
<1>3. /\ pc[c] = "run" /\ pc' = [pc EXCEPT ![c] = "reporting"]
      /\ held' = [held EXCEPT ![c] = current_flow_id(c)]
      /\ UNCHANGED <<objs, ctx, token, msgs, replies, owner, scopes>>
  BY DEF Raise
<1>4. TypeOK'
  BY <1>1, <1>2, <1>3 DEF IInv, TypeOK
<1>5. Outside' /\ Inside'
  BY <1>3 DEF IInv, Outside, Inside, Cause
<1>6. Owners'
  BY <1>1, <1>2, <1>3 DEF IInv, TypeOK, Owners
<1>7. Errors'
  <2>1. \A x \in records : x.uncaught => x.scope # owner[c]
    BY <1>1, <1>3 DEF IInv, Errors
  <2>2. \A d \in Handlers : d # c => pc'[d] = pc[d] /\ held'[d] = held[d] /\ owner[d] # owner[c]
    BY <1>1, <1>3 DEF IInv, TypeOK, Errors
  <2>3. pc'[c] = "reporting" /\ held'[c] = e.flow
    BY <1>1, <1>3 DEF IInv, TypeOK
  <2>4. \A d \in Handlers, x \in records' :
          x.uncaught /\ x.scope = owner[d] /\ owner[d] # 0 =>
             pc'[d] = "reporting" /\ x.flow = held'[d]
    BY <1>1, <1>2, <2>1, <2>2, <2>3 DEF IInv, Errors
  <2>5. ErrorsAgree'
    BY <1>1, <1>2, <1>3 DEF IInv, Errors, ErrorsAgree
  <2> QED BY <1>3, <2>4, <2>5 DEF IInv, Errors
<1>8. LineageIsCausal'
  BY <1>1, <1>2, <1>3 DEF IInv, LineageIsCausal, Cause, KindOf
<1> QED BY <1>4, <1>5, <1>6, <1>7, <1>8 DEF IInv

LEMMA AnnotateKeeps ==
  ASSUME IInv, NEW c \in Coroutines, Annotate(c) PROVE IInv'
<1> USE DistinctAssumption
<1> DEFINE e == Record(c, FALSE)
<1>1. /\ e \in [scope : Nat, kind : Kinds \cup {None}, hop : Nat,
                flow : Values \cup {None}, uncaught : BOOLEAN]
      /\ e.scope = owner[c] /\ e.hop = Cause(owner[c]) /\ e.kind = KindOf(owner[c])
      /\ ~e.uncaught /\ owner[c] \in 0..Len(scopes)
  BY RecordOf DEF IInv, TypeOK
<1>2. records' = records \/ records' = records \cup {e}
  BY DEF Annotate, Reported
<1> HIDE DEF e
<1>3. UNCHANGED <<objs, ctx, token, pc, held, msgs, replies, owner, scopes>>
  BY DEF Annotate, code
<1>4. TypeOK'
  BY <1>1, <1>2, <1>3 DEF IInv, TypeOK
<1>5. Outside' /\ Inside' /\ Owners'
  BY <1>1, <1>2, <1>3 DEF IInv, Outside, Inside, Owners, Cause
<1>6. Errors'
  BY <1>1, <1>2, <1>3 DEF IInv, Errors, ErrorsAgree
<1>7. LineageIsCausal'
  BY <1>1, <1>2, <1>3 DEF IInv, LineageIsCausal, Cause, KindOf
<1> QED BY <1>4, <1>5, <1>6, <1>7 DEF IInv

LEMMA SendKeeps ==
  ASSUME IInv, NEW c \in Coroutines, NEW f \in Choices \cup {None}, Send(c, f)
  PROVE  /\ IInv'
         /\ \A i \in 1..Len(msgs') \ 1..Len(msgs) :
              msgs'[i].scope # 0 => msgs'[i].flow = scopes'[msgs'[i].scope].flow
<1> USE DistinctAssumption
<1>1. PICK g \in Flows :
        LET v == resolve_flow_id(c, f, g) IN
        /\ set_flow_id(c, v)
        /\ \/ msgs' = msgs
           \/ msgs' = Append(msgs, [flow |-> v, hop |-> Len(msgs) + 1, parent |-> parent_hop(c),
                                    kind |-> entrypoint(c), scope |-> owner[c]])
  BY DEF Send
<1> DEFINE v == resolve_flow_id(c, f, g)
           m == [flow |-> v, hop |-> Len(msgs) + 1, parent |-> parent_hop(c),
                 kind |-> entrypoint(c), scope |-> owner[c]]
<1>2. /\ v \in Values
      /\ owner[c] # 0 => v = IF f = None THEN scopes[owner[c]].flow ELSE f
  <2>1. f # None => v = f /\ f \in Values
    BY DEF resolve_flow_id
  <2>2. f = None /\ current_flow_id(c) # None => v = current_flow_id(c)
    BY DEF resolve_flow_id
  <2>3. f = None /\ current_flow_id(c) = None => v = g
    BY DEF resolve_flow_id
  <2>4. owner[c] # 0 => current_flow_id(c) = scopes[owner[c]].flow /\ current_flow_id(c) \in Values
    BY Stamp, CurrentFlow
  <2> QED BY <2>1, <2>2, <2>3, <2>4, CurrentFlow
<1>3. /\ owner[c] \in 0..Len(scopes) /\ Len(scopes) \in Nat /\ Len(objs) \in Nat /\ Len(msgs) \in Nat
      /\ ctx[c] \in 0..Len(objs) /\ (owner[c] # 0 => scopes[owner[c]] \in Scopes)
  BY DEF IInv, TypeOK
<1>4. m \in Messages /\ m.scope = owner[c] /\ m.parent = Cause(owner[c])
      /\ m.kind = KindOf(owner[c]) /\ m.flow = v
  BY <1>2, <1>3, Stamp DEF Messages
<1> HIDE DEF v, m
<1>5. /\ msgs' = msgs \/ msgs' = Append(msgs, m)
      /\ scopes' = IF owner[c] = 0 \/ f = None THEN scopes
                   ELSE [scopes EXCEPT ![owner[c]].flow = f]
      /\ UNCHANGED <<token, pc, held, records, replies, owner>>
  BY <1>1 DEF Send, m, v
<1>6. /\ msgs' \in Seq(Messages) /\ Len(msgs') \in {Len(msgs), Len(msgs) + 1}
      /\ \A i \in 1..Len(msgs) : msgs'[i] = msgs[i]
      /\ \A i \in 1..Len(msgs') : i \in 1..Len(msgs) \/ msgs'[i] = m
  <2>1. CASE msgs' = msgs
    BY <1>3, <2>1 DEF IInv, TypeOK
  <2>2. CASE msgs' = Append(msgs, m)
    <3>1. /\ msgs' \in Seq(Messages) /\ Len(msgs') = Len(msgs) + 1
          /\ \A i \in 1..Len(msgs) : msgs'[i] = msgs[i]
          /\ msgs'[Len(msgs) + 1] = m
      BY <1>4, <2>2, Appended DEF IInv, TypeOK
    <3> QED BY <1>3, <3>1
  <2> QED BY <1>5, <2>1, <2>2
<1>7. /\ scopes' \in Seq(Scopes) /\ Len(scopes') = Len(scopes)
      /\ \A s \in 1..Len(scopes) :
           /\ scopes'[s].kind = scopes[s].kind /\ scopes'[s].cause = scopes[s].cause
           /\ scopes'[s].obj = scopes[s].obj
           /\ scopes'[s].flow = IF s = owner[c] THEN v ELSE scopes[s].flow
  <2>1. CASE owner[c] = 0 \/ f = None
    BY <1>2, <1>3, <1>5, <2>1 DEF IInv, TypeOK
  <2>2. CASE owner[c] # 0 /\ f # None
    <3> DEFINE k == owner[c]
               e == [scopes[k] EXCEPT !.flow = v]
    <3>1. k \in 1..Len(scopes) /\ v = f /\ scopes[k] \in Scopes
      BY <1>2, <1>3, <2>2
    <3>2. scopes' = [scopes EXCEPT ![k] = e]
      BY <1>5, <2>2, <3>1
    <3>3. /\ e \in Scopes /\ e.kind = scopes[k].kind /\ e.cause = scopes[k].cause
          /\ e.obj = scopes[k].obj /\ e.flow = v
      BY <1>2, <3>1 DEF Scopes
    <3> HIDE DEF e
    <3>4. /\ scopes' \in Seq(Scopes) /\ Len(scopes') = Len(scopes)
          /\ \A i \in 1..Len(scopes) : scopes'[i] = IF i = k THEN e ELSE scopes[i]
      BY <3>1, <3>2, <3>3, Replaced DEF IInv, TypeOK
    <3> QED BY <3>3, <3>4
  <2> QED BY <2>1, <2>2
<1>8. \A s \in 0..Len(scopes) : Cause(s)' = Cause(s) /\ KindOf(s)' = KindOf(s)
  <2>1. ASSUME NEW s \in 1..Len(scopes) PROVE Cause(s)' = Cause(s) /\ KindOf(s)' = KindOf(s)
    <3>1. scopes[s].cause \in 0..Len(msgs)
      BY DEF IInv, Owners
    <3>2. scopes[s].cause # 0 => msgs'[scopes[s].cause] = msgs[scopes[s].cause]
      BY <1>6, <3>1
    <3> QED BY <1>7, <3>2 DEF Cause, KindOf
  <2> QED BY <1>3, <2>1 DEF Cause, KindOf
<1>9. /\ objs' \in Seq(Objects) /\ ctx' \in [Coroutines -> 0..Len(objs')] /\ Len(objs') >= Len(objs)
      /\ \A d \in Coroutines : d # c => ctx'[d] = ctx[d]
      /\ \A o \in 1..Len(objs) :
           /\ objs'[o].kind = objs[o].kind /\ objs'[o].hop = objs[o].hop
           /\ objs'[o].flow = IF o = ctx[c] THEN v ELSE objs[o].flow
      /\ IF ctx[c] = 0 THEN ctx'[c] # 0 /\ objs'[ctx'[c]].kind = None ELSE ctx'[c] = ctx[c]
  <2>1. CASE ctx[c] = 0
    <3> DEFINE n == HandlerContext(None, v, 0)
    <3>1. n \in Objects /\ n.kind = None
      BY <1>2 DEF Objects, HandlerContext
    <3>2. objs' = Append(objs, n) /\ ctx' = [ctx EXCEPT ![c] = Len(objs) + 1]
      BY <1>1, <2>1 DEF set_flow_id, v
    <3> HIDE DEF n
    <3>3. /\ objs' \in Seq(Objects) /\ Len(objs') = Len(objs) + 1
          /\ \A i \in 1..Len(objs) : objs'[i] = objs[i]
          /\ objs'[Len(objs) + 1] = n
      BY <3>1, <3>2, Appended DEF IInv, TypeOK
    <3>4. ctx' \in [Coroutines -> 0..Len(objs')] /\ ctx'[c] = Len(objs) + 1
          /\ \A d \in Coroutines : d # c => ctx'[d] = ctx[d]
      BY <1>3, <3>2, <3>3 DEF IInv, TypeOK
    <3> QED BY <1>3, <2>1, <3>1, <3>3, <3>4
  <2>2. CASE ctx[c] # 0
    <3> DEFINE k == ctx[c]
               e == [objs[k] EXCEPT !.flow = v]
    <3>1. k \in 1..Len(objs) /\ objs[k] \in Objects
      BY <1>3, <2>2, CurrentFlow
    <3>2. objs' = [objs EXCEPT ![k] = e] /\ ctx' = ctx
      BY <1>1, <2>2 DEF set_flow_id, v
    <3>3. /\ e \in Objects /\ e.kind = objs[k].kind /\ e.hop = objs[k].hop /\ e.flow = v
      BY <1>2, <3>1 DEF Objects
    <3> HIDE DEF e
    <3>4. /\ objs' \in Seq(Objects) /\ Len(objs') = Len(objs)
          /\ \A i \in 1..Len(objs) : objs'[i] = IF i = k THEN e ELSE objs[i]
      BY <3>1, <3>2, <3>3, Replaced DEF IInv, TypeOK
    <3>5. ctx' \in [Coroutines -> 0..Len(objs')]
      BY <3>2, <3>4 DEF IInv, TypeOK
    <3> QED BY <1>3, <2>2, <3>2, <3>3, <3>4, <3>5
  <2> QED BY <2>1, <2>2
<1>10. TypeOK'
  <2>1. token' \in [Coroutines -> 0..Len(objs')]
    BY <1>3, <1>5, <1>9 DEF IInv, TypeOK
  <2> QED BY <1>5, <1>6, <1>7, <1>9, <2>1 DEF IInv, TypeOK
<1>11. Outside'
  <2>1. ASSUME NEW d \in Coroutines, owner[d] = 0
        PROVE  ctx'[d] = 0 \/ objs'[ctx'[d]].kind = None
    <3>1. ctx[d] = 0 \/ (ctx[d] \in 1..Len(objs) /\ objs[ctx[d]].kind = None)
      BY <2>1 DEF IInv, TypeOK, Outside
    <3> QED BY <1>9, <3>1
  <2>2. ASSUME NEW d \in Coroutines PROVE token[d] = 0 \/ objs'[token[d]].kind = None
    <3>1. token[d] = 0 \/ (token[d] \in 1..Len(objs) /\ objs[token[d]].kind = None)
      BY DEF IInv, TypeOK, Outside
    <3> QED BY <1>9, <3>1
  <2> QED BY <1>5, <2>1, <2>2 DEF Outside
<1>12. Inside'
  <2>1. ASSUME NEW d \in Coroutines, owner[d] # 0 PROVE ctx'[d] = scopes'[owner[d]].obj
    <3>1. owner[d] \in 1..Len(scopes) /\ ctx[d] = scopes[owner[d]].obj /\ ctx[d] # 0
      BY <2>1, Stamp DEF IInv, TypeOK, Inside
    <3> QED BY <1>7, <1>9, <3>1
  <2>2. ASSUME NEW s \in 1..Len(scopes)
        PROVE  (/\ scopes[s].obj \in 1..Len(objs)
                /\ scopes[s].kind \in {"http", "task"} => scopes[s].cause = 0
                /\ objs[scopes[s].obj] = HandlerContext(scopes[s].kind, scopes[s].flow, Cause(s)))'
    <3> DEFINE o == scopes[s].obj
    <3>1. /\ o \in 1..Len(objs) /\ objs[o].kind = scopes[s].kind
          /\ objs[o].flow = scopes[s].flow /\ objs[o].hop = Cause(s)
          /\ scopes[s].kind \in {"http", "task"} => scopes[s].cause = 0
      <4>1. objs[o] = HandlerContext(scopes[s].kind, scopes[s].flow, Cause(s))
        BY DEF IInv, Inside
      <4>2. o \in 1..Len(objs) /\ (scopes[s].kind \in {"http", "task"} => scopes[s].cause = 0)
        BY DEF IInv, Inside
      <4> HIDE DEF o
      <4> QED BY <4>1, <4>2 DEF HandlerContext
    <3>2. o = ctx[c] <=> s = owner[c]
      <4>1. CASE owner[c] = 0
        <5>1. ctx[c] = 0 \/ objs[ctx[c]].kind = None
          BY <4>1 DEF IInv, Outside
        <5>2. scopes[s].kind # None
          <6>1. scopes[s] \in Scopes
            BY DEF IInv, TypeOK
          <6> QED BY <6>1 DEF Scopes
        <5> QED BY <1>3, <3>1, <4>1, <5>1, <5>2
      <4>2. CASE owner[c] # 0
        <5>1. ctx[c] = scopes[owner[c]].obj /\ owner[c] \in 1..Len(scopes)
          BY <1>3, <4>2 DEF IInv, Inside
        <5> QED BY <5>1 DEF IInv, Inside
      <4> QED BY <4>1, <4>2
    <3>3. objs'[o] \in Objects /\ scopes'[s].obj = o /\ o \in 1..Len(objs')
      BY <1>3, <1>7, <1>9, <3>1
    <3>4. objs'[o].flow = scopes'[s].flow
      BY <1>7, <1>9, <3>1, <3>2
    <3>5. /\ objs'[o].kind = scopes'[s].kind /\ objs'[o].hop = Cause(s)' 
          /\ scopes'[s].kind \in {"http", "task"} => scopes'[s].cause = 0
      BY <1>7, <1>8, <1>9, <3>1
    <3> HIDE DEF o
    <3>6. objs'[o] = HandlerContext(scopes'[s].kind, scopes'[s].flow, Cause(s)')
      BY <3>3, <3>4, <3>5 DEF Objects, HandlerContext
    <3> QED BY <3>3, <3>5, <3>6 DEF HandlerContext
  <2>3. \A s, t \in 1..Len(scopes) : scopes'[s].obj = scopes'[t].obj => s = t
    BY <1>7 DEF IInv, Inside
  <2> QED BY <1>5, <1>7, <2>1, <2>2, <2>3 DEF Inside
<1>13. Owners'
  <2>1. \A i \in 1..Len(msgs') : msgs'[i].scope \in 0..Len(scopes)
    BY <1>3, <1>4, <1>6 DEF IInv, Owners
  <2>2. \A s \in 1..Len(scopes) : scopes'[s].cause \in 0..Len(msgs')
    BY <1>3, <1>6, <1>7 DEF IInv, Owners
  <2> QED BY <1>5, <1>7, <2>1, <2>2 DEF IInv, Owners
<1>14. Errors'
  BY <1>5 DEF IInv, Errors, ErrorsAgree
<1>15. LineageIsCausal'
  <2>1. ASSUME NEW i \in 1..Len(msgs')
        PROVE  (msgs[i].parent = Cause(msgs[i].scope) /\ msgs[i].kind = KindOf(msgs[i].scope))'
    <3>1. CASE i \in 1..Len(msgs)
      BY <1>6, <1>8, <3>1 DEF IInv, Owners, LineageIsCausal
    <3>2. CASE msgs'[i] = m
      BY <1>3, <1>4, <1>8, <3>2
    <3> QED BY <1>6, <3>1, <3>2
  <2>2. \A r \in records : (r.hop = Cause(r.scope) /\ r.kind = KindOf(r.scope))'
    BY <1>8 DEF IInv, Owners, LineageIsCausal
  <2> QED BY <1>5, <2>1, <2>2 DEF LineageIsCausal
<1>16. ASSUME NEW i \in 1..Len(msgs') \ 1..Len(msgs), msgs'[i].scope # 0
       PROVE  msgs'[i].flow = scopes'[msgs'[i].scope].flow
  BY <1>3, <1>4, <1>6, <1>7, <1>16
<1> QED BY <1>10, <1>11, <1>12, <1>13, <1>14, <1>15, <1>16 DEF IInv

LEMMA DeliverKeeps ==
  ASSUME IInv, NEW c \in Workers, NEW m \in 1..Len(msgs), Deliver(c, m) PROVE IInv'
<1>1. m \in 0..Len(msgs) /\ m # 0
  BY DEF IInv, TypeOK
<1> QED BY <1>1, EnterKeeps DEF Deliver

LEMMA EnterLoopKeeps ==
  ASSUME IInv, NEW c \in Loops, EnterLoop(c) PROVE IInv'
<1>1. 0 \in 0..Len(msgs)
  BY DEF IInv, TypeOK
<1> QED BY <1>1, EnterKeeps DEF EnterLoop

LEMMA NextKeeps == IInv /\ [Next]_vars => IInv'
<1> SUFFICES ASSUME IInv, [Next]_vars PROVE IInv'
  OBVIOUS
<1>1. CASE Foreign
  BY <1>1, ForeignKeeps
<1>2. ASSUME NEW c \in Handlers, Start(c) \/ Return(c) \/ Raise(c) \/ Failed(c) PROVE IInv'
  BY <1>2, StartKeeps, ReturnKeeps, RaiseKeeps, FailedKeeps
<1>3. ASSUME NEW c \in Loops, EnterLoop(c) PROVE IInv'
  BY <1>3, EnterLoopKeeps
<1>4. ASSUME NEW c \in Workers, NEW m \in 1..Len(msgs), Deliver(c, m) PROVE IInv'
  BY <1>4, DeliverKeeps
<1>5. ASSUME NEW c \in Coroutines, NEW d \in Children, Spawn(c, d) PROVE IInv'
  BY <1>5, SpawnKeeps
<1>6. ASSUME NEW c \in Coroutines, Annotate(c) PROVE IInv'
  BY <1>6, AnnotateKeeps
<1>7. ASSUME NEW c \in Coroutines, NEW f \in Choices \cup {None}, Send(c, f) PROVE IInv'
  BY <1>7, SendKeeps
<1>8. CASE UNCHANGED vars
  BY <1>8 DEF vars, IInv, TypeOK, Outside, Inside, Owners, Errors, ErrorsAgree,
              LineageIsCausal, Cause, KindOf
<1> QED BY <1>1, <1>2, <1>3, <1>4, <1>5, <1>6, <1>7, <1>8 DEF Next

LEMMA Invariant == Spec => []IInv
  BY InitHolds, NextKeeps, PTL DEF Spec

\* Every message and every registry record names the message whose handling
\* produced it (parent_hop_id, hop_id) and the entrypoint of that handler.
THEOREM LineageHolds == Spec => []LineageIsCausal
<1>1. IInv => LineageIsCausal
  BY DEF IInv
<1> QED BY <1>1, Invariant, PTL

\* Between handlers no coroutine has a handler context (reset_handler_scope).
THEOREM OutsideHolds == Spec => []OutsideIsOutside
<1>1. IInv => OutsideIsOutside
  BY DEF IInv, Outside, OutsideIsOutside, current_handler_context
<1> QED BY <1>1, Invariant, PTL

\* A 500 response and the exception record of its handler name one flow.
THEOREM ErrorsHold == Spec => []ErrorsAgree
<1>1. IInv => ErrorsAgree
  BY DEF IInv, Errors
<1> QED BY <1>1, Invariant, PTL

LEMMA EnterFlows ==
  ASSUME IInv, NEW c \in Handlers, NEW cause, NEW f, NEW h, Enter(c, cause, f, h),
         cause # 0 => f = msgs[cause].flow
  PROVE  FlowStep
<1>1. PICK g \in Flows : scopes' = Append(scopes,
        [kind |-> Kind[c], cause |-> cause,
         flow |-> IF f \in {None, Empty} THEN g ELSE f, obj |-> Len(objs) + 1])
  BY DEF Enter
<1> DEFINE z == [kind |-> Kind[c], cause |-> cause,
                 flow |-> IF f \in {None, Empty} THEN g ELSE f, obj |-> Len(objs) + 1]
<1>2. z.cause = cause /\ z.flow = IF f \in {None, Empty} THEN g ELSE f
  OBVIOUS
<1> HIDE DEF z
<1>3. scopes' = Append(scopes, z) /\ scopes \in Seq(Scopes)
  BY <1>1 DEF z, IInv, TypeOK
<1>4. \A s \in 1..Len(scopes') \ 1..Len(scopes) : scopes'[s] = z
  BY <1>3
<1>5. UNCHANGED <<msgs, records, replies>>
  BY DEF Enter, wire
<1> QED BY <1>2, <1>4, <1>5 DEF FlowStep

LEMMA FlowSteps == IInv /\ [Next]_vars => [FlowStep]_vars
<1> SUFFICES ASSUME IInv, Next PROVE FlowStep
  OBVIOUS
<1>1. CASE Foreign
  <2>1. /\ UNCHANGED <<records, replies, scopes>>
        /\ msgs' = Append(msgs, [flow |-> None, hop |-> 0, parent |-> 0, kind |-> None, scope |-> 0])
    BY <1>1 DEF Foreign
  <2>2. \A i \in 1..Len(msgs') \ 1..Len(msgs) : msgs'[i].scope = 0
    BY <2>1 DEF IInv, TypeOK
  <2> QED BY <2>1, <2>2 DEF FlowStep
<1>2. ASSUME NEW c \in Handlers, Start(c) PROVE FlowStep
  BY <1>2 DEF Start, wire, FlowStep
<1>3. ASSUME NEW c \in Handlers, Return(c) PROVE FlowStep
  <2>1. owner[c] # 0
    BY <1>3 DEF Return, IInv, Owners
  <2>2. current_flow_id(c) = scopes[owner[c]].flow
    BY <2>1, Stamp
  <2>3. UNCHANGED <<msgs, records, scopes>>
    BY <1>3 DEF Return, Leave
  <2>4. \A r \in replies' \ replies : r.scope = owner[c] /\ r.flow = current_flow_id(c)
    BY <1>3 DEF Return
  <2> QED BY <2>2, <2>3, <2>4 DEF FlowStep
<1>4. ASSUME NEW c \in Handlers, Failed(c) PROVE FlowStep
  <2>1. UNCHANGED <<msgs, records, scopes>>
    BY <1>4 DEF Failed, Leave
  <2>2. \A r \in replies' \ replies : r.error
    BY <1>4 DEF Failed
  <2> QED BY <2>1, <2>2 DEF FlowStep
<1>5. ASSUME NEW c \in Coroutines, NEW b \in BOOLEAN, Reported(c, b),
             UNCHANGED <<msgs, replies, scopes>>
      PROVE  FlowStep
  <2>1. \A r \in records' \ records : r = Record(c, b)
    BY <1>5 DEF Reported
  <2>2. owner[c] # 0 => Record(c, b).flow = scopes[owner[c]].flow
    BY RecordOf, Stamp
  <2> QED BY <1>5, <2>1, <2>2, RecordOf DEF FlowStep
<1>6. ASSUME NEW c \in Handlers, Raise(c) PROVE FlowStep
  BY <1>5, <1>6 DEF Raise
<1>7. ASSUME NEW c \in Coroutines, Annotate(c) PROVE FlowStep
  BY <1>5, <1>7 DEF Annotate
<1>8. ASSUME NEW c \in Loops, EnterLoop(c) PROVE FlowStep
  BY <1>8, EnterFlows DEF EnterLoop
<1>9. ASSUME NEW c \in Workers, NEW m \in 1..Len(msgs), Deliver(c, m) PROVE FlowStep
  BY <1>9, EnterFlows DEF Deliver
<1>10. ASSUME NEW c \in Coroutines, NEW d \in Children, Spawn(c, d) PROVE FlowStep
  BY <1>10 DEF Spawn, wire, FlowStep
<1>11. ASSUME NEW c \in Coroutines, NEW f \in Choices \cup {None}, Send(c, f) PROVE FlowStep
  <2>1. UNCHANGED <<records, replies>> /\ Len(scopes') = Len(scopes)
    BY <1>11 DEF Send, IInv, TypeOK
  <2> QED BY <1>11, <2>1, SendKeeps DEF FlowStep
<1> QED BY <1>1, <1>2, <1>3, <1>4, <1>6, <1>7, <1>8, <1>9, <1>10, <1>11 DEF Next

\* A handler starts with its message's flow, and what is sent for it carries
\* the flow decided last in it, whatever other handlers do meanwhile.
THEOREM FlowHolds == Spec => FlowIsKept
  BY Invariant, FlowSteps, PTL DEF Spec, FlowIsKept
================================================================================
