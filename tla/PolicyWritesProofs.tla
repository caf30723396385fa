------------------------- MODULE PolicyWritesProofs -------------------------
(***************************************************************************)
(* Proofs about the writers of a policy, for any number of clients of the  *)
(* interceptor and any documents of any length: the API server stores only *)
(* what a client wrote, with the API version replaced, a status that       *)
(* claims the current generation describes the current spec, and the       *)
(* versions stay within their bound.                                       *)
(***************************************************************************)
EXTENDS PolicyWrites, FiniteSetTheorems, TLAPS

-----------------------------------------------------------------------------
(* The inductive invariant *)

Request ==
  [op : WithBody \cup WithoutBody \cup {"none"},
   rv : 0..MaxRV, state : {"idle", "sent", "streaming", "responding", "answered"},
   body : Document, in : Document, out : Document,
   pump : BOOLEAN, gone : BOOLEAN, ok : BOOLEAN]

\* What becomes of a document on its way through the pump, and what may thus
\* be stored.
Rewritten(body) == [j \in DOMAIN body |-> ReplaceAll(body[j], native, crd)]
Stored == {Rewritten(b) : b \in Bodies}

\* While the API server has not answered, what the pump has written and what
\* it has still to read make up the client's body, which is one of Bodies or
\* was read from the API server.
Pumped(r) ==
  r.state = "sent" =>
    /\ r.op \in WithBody => Rewritten(r.body) \in Stored
    /\ Len(r.out) + Len(r.in) = Len(r.body)
    /\ \A i \in 1..Len(r.out) : r.out[i] = ReplaceAll(r.body[i], native, crd)
    /\ \A i \in 1..Len(r.in) : r.in[i] = r.body[Len(r.out) + i]

\* The status of a policy is not ahead of it, and a status of the policy's
\* generation was made from its spec.
StatusSound(p) ==
  /\ p.status.observedGeneration <= p.generation
  /\ p # Absent /\ p.status.observedGeneration = p.generation =>
       p.status.checked = p.spec

\* A generation is reached by at least as many writes.
Versions ==
  \A i \in 1..Len(log) :
    /\ log[i].generation <= i
    /\ StatusSound(log[i])
    /\ log[i] # Absent => log[i].spec \in Stored

\* What the controller holds is a copy of some version, and it holds one to
\* reconcile only if the status of that version is behind.
Copy(n) ==
  /\ n.rv <= Len(log)
  /\ n.generation = Version(n.rv).generation
  /\ n.spec = Version(n.rv).spec
  /\ n.status = Version(n.rv).status
Copies ==
  /\ Copy(cache) /\ Copy(busy)
  /\ busy # Nobody => busy.status.observedGeneration < busy.generation

\* Every client's write pays for two versions: its own, and the one status
\* update that the version owes.
Pending == {c \in Clients : req[c].state = "sent" /\ req[c].op \notin Reads}
Owed == IF Current.status.observedGeneration < Current.generation THEN 1 ELSE 0
Budget ==
  /\ IsFiniteSet(Pending)
  /\ Len(log) + Owed + 2 * Cardinality(Pending) <= 2 * writes

\* Clients know only versions that there are.
Known == \A c \in Clients : seen[c] <= Len(log) /\ req[c].rv <= Len(log)

Inv ==
  /\ TypeOK
  /\ req \in [Clients -> Request]
  /\ \A c \in Clients : Pumped(req[c])
  /\ Known
  /\ Versions
  /\ Copies
  /\ Budget
  /\ ConfigErrorOfSpec

-----------------------------------------------------------------------------
(* Lemmas *)

USE DEF vars, proxyVars, interceptorVars, controllerVars

\* Every write accounts for at most two versions: its own and that of a status.
LEMMA MaxRVNat == MaxRV \in Nat /\ MaxRV = 2 * MaxWrites
  BY StoreAssumption DEF MaxRV

\* Nobody is a copy of the version before the first.
LEMMA NobodyFixed ==
  /\ Nobody' = Nobody
  /\ Nobody.rv = 0 /\ Nobody.generation = 0 /\ Nobody.spec = NoSpec
  /\ Nobody.status = NoStatus
  BY DEF Nobody, Transformed, Version, CRDToNativePolicy, Renamed, Absent

\* The record of a client that has no request under way.
LEMMA NoRequestType ==
  /\ NoRequest \in Request
  /\ NoRequest.state = "idle"
  /\ NoRequest.rv = 0
<1>1. <<>> \in Document
    BY DEF Document
<1> QED
    BY <1>1, MaxRVNat DEF NoRequest, Request

\* ReplaceAll changes the API versions of a line and nothing else; replaced
\* there and back, they are what they were, unless the line had the other one.
LEMMA LineReplaced ==
  ASSUME NEW l \in Line
  PROVE  /\ ReplaceAll(l, native, crd) \in Line /\ ReplaceAll(l, crd, native) \in Line
         /\ crd \notin l.versions =>
              ReplaceAll(ReplaceAll(l, native, crd), crd, native) = l
         /\ native \notin l.versions =>
              ReplaceAll(ReplaceAll(l, crd, native), native, crd) = l
         /\ native \notin ReplaceAll(l, native, crd).versions
<1> DEFINE to(V) == {IF v = native THEN crd ELSE v : v \in V}
           back(V) == {IF v = crd THEN native ELSE v : v \in V}
           line(w, V) == [word |-> w, versions |-> V]
<1>1. /\ l.word \in Words /\ l.versions \in SUBSET APIVersion
      /\ l = line(l.word, l.versions)
    BY DEF Line
<1>2. native # crd /\ APIVersion = {native, crd}
    BY DEF native, crd, APIVersion
<1> HIDE DEF native, crd
<1>3. \A V \in SUBSET APIVersion :
        /\ to(V) \in SUBSET APIVersion /\ back(V) \in SUBSET APIVersion
        /\ native \notin to(V)
        /\ crd \notin V => back(to(V)) = V
        /\ native \notin V => to(back(V)) = V
    BY <1>2
<1>4. \A w, V : line(w, V).versions = V
    OBVIOUS
<1>5. \A w \in Words, V \in SUBSET APIVersion : line(w, V) \in Line
    BY DEF Line
<1>6. \A w, V, W : [line(w, V) EXCEPT !.versions = W] = line(w, W)
    OBVIOUS
<1> HIDE DEF line
<1>7. ASSUME NEW w, NEW V PROVE ReplaceAll(line(w, V), native, crd) = line(w, to(V))
  <2>1. ReplaceAll(line(w, V), native, crd) =
          [line(w, V) EXCEPT !.versions = to(line(w, V).versions)]
      BY DEF ReplaceAll
  <2> HIDE DEF to
  <2> QED
      BY <1>4, <1>6, <2>1
<1>8. ASSUME NEW w, NEW V PROVE ReplaceAll(line(w, V), crd, native) = line(w, back(V))
  <2>1. ReplaceAll(line(w, V), crd, native) =
          [line(w, V) EXCEPT !.versions = back(line(w, V).versions)]
      BY DEF ReplaceAll
  <2> HIDE DEF back
  <2> QED
      BY <1>4, <1>6, <2>1
<1> HIDE DEF to, back
<1>9. /\ ReplaceAll(l, native, crd) = line(l.word, to(l.versions))
      /\ ReplaceAll(l, crd, native) = line(l.word, back(l.versions))
    BY <1>1, <1>7, <1>8
<1>10. /\ to(l.versions) \in SUBSET APIVersion /\ back(l.versions) \in SUBSET APIVersion
       /\ native \notin to(l.versions)
       /\ crd \notin l.versions => back(to(l.versions)) = l.versions
       /\ native \notin l.versions => to(back(l.versions)) = l.versions
    BY <1>1, <1>3
<1>11. /\ ReplaceAll(ReplaceAll(l, native, crd), crd, native) =
            line(l.word, back(to(l.versions)))
       /\ ReplaceAll(ReplaceAll(l, crd, native), native, crd) =
            line(l.word, to(back(l.versions)))
    BY <1>7, <1>8, <1>9
<1>12. ReplaceAll(l, native, crd).versions = to(l.versions)
    BY <1>4, <1>9
<1>13. ReplaceAll(l, native, crd) \in Line /\ ReplaceAll(l, crd, native) \in Line
    BY <1>1, <1>5, <1>9, <1>10
<1> QED
    BY <1>1, <1>10, <1>11, <1>12, <1>13

\* What is stored are documents; written back as they were read, they are
\* stored as they are.
LEMMA StoredDocuments ==
  ASSUME NEW s \in Stored
  PROVE  /\ s \in Document /\ s # NoSpec
         /\ LET d == [i \in DOMAIN s |-> ReplaceAll(s[i], crd, native)]
            IN  d \in Document /\ Rewritten(d) = s
<1>1. PICK b \in Bodies : s = Rewritten(b)
    BY DEF Stored
<1>2. b \in Seq(Line) /\ b # <<>> /\ DOMAIN b = 1..Len(b) /\ Len(b) \in Nat
    BY BodiesAssumption DEF Document, NoSpec
<1>3. \A i \in 1..Len(b) : b[i] \in Line
    BY <1>2
<1>4. /\ DOMAIN s = 1..Len(b)
      /\ \A i \in 1..Len(b) : s[i] = ReplaceAll(b[i], native, crd)
    BY <1>1, <1>2 DEF Rewritten
<1>5. \A i \in 1..Len(b) : s[i] \in Line /\ native \notin s[i].versions
    BY <1>3, <1>4, LineReplaced
<1>6. s \in Seq(Line) /\ Len(s) = Len(b)
  <2>1. s = [i \in 1..Len(b) |-> s[i]]
      BY <1>1, <1>2 DEF Rewritten
  <2> QED
      BY <1>2, <1>5, <2>1
<1>7. s # <<>>
    BY <1>2, <1>6
<1> DEFINE d == [i \in DOMAIN s |-> ReplaceAll(s[i], crd, native)]
<1>8. /\ DOMAIN d = 1..Len(b)
      /\ \A i \in 1..Len(b) : d[i] = ReplaceAll(s[i], crd, native)
      /\ \A i \in 1..Len(b) : d[i] \in Line
    BY <1>4, <1>5, LineReplaced
<1>9. d \in Seq(Line)
  <2>1. d = [i \in 1..Len(b) |-> d[i]]
      BY <1>4
  <2> HIDE DEF d
  <2> QED
      BY <1>2, <1>8, <2>1
<1>10. Rewritten(d) = s
  <2>1. \A i \in 1..Len(b) : ReplaceAll(d[i], native, crd) = s[i]
      BY <1>5, <1>8, LineReplaced
  <2>2. s = [i \in 1..Len(b) |-> s[i]]
      BY <1>1, <1>2 DEF Rewritten
  <2> HIDE DEF d
  <2> QED
      BY <1>8, <2>1, <2>2 DEF Rewritten
<1> QED
    BY <1>6, <1>7, <1>9, <1>10 DEF Document, NoSpec

\* The fields of a request.
LEMMA RequestTypes ==
  ASSUME req \in [Clients -> Request], seen \in [Clients -> 0..MaxRV],
         writes \in 0..MaxWrites
  PROVE  InterceptorTypeOK
<1>1. ASSUME NEW c \in Clients
      PROVE  /\ req[c].op \in WithBody \cup WithoutBody \cup {"none"}
             /\ req[c].state \in {"idle", "sent", "streaming", "responding", "answered"}
             /\ req[c].rv \in 0..MaxRV
             /\ req[c].out \in Document
             /\ req[c].pump \in BOOLEAN
  <2>1. req[c] \in Request
      OBVIOUS
  <2> QED
      BY <2>1 DEF Request
<1> QED
    BY <1>1 DEF InterceptorTypeOK

\* The fields of a version of the policy.
LEMMA PolicyTypes ==
  /\ Absent \in Policy
  /\ StatusSound(Absent)
  /\ Absent.generation = 0 /\ Absent.spec = NoSpec /\ Absent.status = NoStatus
  /\ NoStatus \in Status /\ NoStatus.observedGeneration = 0
<1>1. NoStatus \in Status /\ NoStatus.observedGeneration = 0
    BY MaxRVNat DEF NoStatus, Status, NoSpec, Document
<1>2. /\ Absent \in Policy
      /\ Absent.generation = 0 /\ Absent.spec = NoSpec /\ Absent.status = NoStatus
    BY <1>1, MaxRVNat DEF Absent, Policy, NoSpec, Document
<1> QED
    BY <1>1, <1>2 DEF StatusSound

\* What the informer delivers is a native policy and a copy of its version.
LEMMA TransformedType ==
  ASSUME NEW rv \in 0..MaxRV, NEW listed \in BOOLEAN, Version(rv) \in Policy
  PROVE  /\ Transformed(rv, listed) \in Native
         /\ Transformed(rv, listed).rv = rv
         /\ Transformed(rv, listed).generation = Version(rv).generation
         /\ Transformed(rv, listed).spec = Version(rv).spec
         /\ Transformed(rv, listed).status = Version(rv).status
<1> DEFINE object(version) ==
             [rv |-> rv, apiVersion |-> version, generation |-> Version(rv).generation,
              spec |-> Version(rv).spec, status |-> Version(rv).status]
<1>1. /\ Version(rv).generation \in 0..MaxRV /\ Version(rv).status \in Status
      /\ Version(rv).spec \in Document
    BY DEF Policy
<1>2. \A v, w : [object(v) EXCEPT !.apiVersion = w] = object(w)
    OBVIOUS
<1>3. \A v : /\ object(v).rv = rv
             /\ object(v).apiVersion = v
             /\ object(v).generation = Version(rv).generation
             /\ object(v).spec = Version(rv).spec
             /\ object(v).status = Version(rv).status
    OBVIOUS
<1>4. \A v \in {"", nativeVersion} : object(v) \in Native
    BY <1>1 DEF Native
<1>5. Transformed(rv, listed) =
        LET o == object(IF listed THEN crdVersion ELSE "")
        IN  [o EXCEPT !.apiVersion = IF o.apiVersion = "" THEN "" ELSE nativeVersion]
    BY DEF Transformed, CRDToNativePolicy, Renamed
<1>6. \E v \in {"", nativeVersion} : Transformed(rv, listed) = object(v)
  <2> HIDE DEF object
  <2> QED
      BY <1>2, <1>3, <1>5 DEF crdVersion
<1> HIDE DEF object
<1> QED
    BY <1>3, <1>4, <1>6

\* The current version is a policy with a sound status.
LEMMA CurrentSound ==
  ASSUME StoreTypeOK, Versions
  PROVE  /\ Len(log) \in Nat
         /\ Current \in Policy
         /\ Current.generation \in 0..MaxRV
         /\ Current.status \in Status
         /\ Current.status.observedGeneration \in 0..MaxRV
         /\ Current.generation <= Len(log)
         /\ StatusSound(Current)
         /\ Current # Absent => Current.spec \in Stored
<1>1. log \in Seq(Policy) /\ Len(log) \in Nat
    BY DEF StoreTypeOK
<1>2. /\ Current \in Policy
      /\ Current.generation <= Len(log)
      /\ StatusSound(Current)
      /\ Current # Absent => Current.spec \in Stored
  <2>1. CASE Len(log) = 0
      BY <2>1, PolicyTypes DEF Current, Version
  <2>2. CASE Len(log) # 0
    <3>1. Len(log) \in 1..Len(log) /\ Current = log[Len(log)]
        BY <1>1, <2>2 DEF Current, Version
    <3> QED
        BY <1>1, <3>1 DEF Versions
  <2> QED
      BY <2>1, <2>2
<1>3. Current.status \in Status /\ Current.generation \in 0..MaxRV
    BY <1>2 DEF Policy
<1>4. Current.status.observedGeneration \in 0..MaxRV
    BY <1>3 DEF Status
<1> QED
    BY <1>1, <1>2, <1>3, <1>4

\* What a write of a new version preserves.
LEMMA AppendLemma ==
  ASSUME StoreTypeOK, Versions, Len(log) < MaxRV,
         NEW p \in Policy, log' = Append(log, p),
         p.generation <= Len(log) + 1, StatusSound(p), p # Absent => p.spec \in Stored
  PROVE  /\ StoreTypeOK' /\ Versions'
         /\ Len(log') = Len(log) + 1
         /\ Current' = p
         /\ \A n \in Native : Copy(n) => Copy(n)'
<1>1. log \in Seq(Policy) /\ Len(log) \in Nat /\ MaxRV \in Nat
    BY MaxRVNat DEF StoreTypeOK
<1>2. /\ log' \in Seq(Policy)
      /\ Len(log') = Len(log) + 1
      /\ log'[Len(log) + 1] = p
      /\ \A i \in 1..Len(log) : log'[i] = log[i]
    BY <1>1
<1>3. StoreTypeOK'
    BY <1>1, <1>2 DEF StoreTypeOK
<1>4. Versions'
  <2> SUFFICES ASSUME NEW i \in 1..Len(log')
               PROVE  /\ log'[i].generation <= i
                      /\ StatusSound(log'[i])
                      /\ log'[i] # Absent => log'[i].spec \in Stored
      BY DEF Versions, StatusSound
  <2>1. CASE i = Len(log) + 1
      BY <1>2, <2>1
  <2>2. CASE i # Len(log) + 1
    <3>1. i \in 1..Len(log) /\ log'[i] = log[i]
        BY <1>1, <1>2, <2>2
    <3> QED
        BY <3>1 DEF Versions
  <2> QED
      BY <2>1, <2>2
<1>5. Current' = p
    BY <1>1, <1>2 DEF Current, Version
<1>6. ASSUME NEW n \in Native, Copy(n) PROVE Copy(n)'
  <2>1. n.rv \in 0..MaxRV
      BY DEF Native
  <2>3. n.rv \in Nat /\ n.rv <= Len(log)
      BY <1>1, <1>6, <2>1 DEF Copy
  <2>2. Version(n.rv)' = Version(n.rv)
      BY <1>1, <1>2, <2>3 DEF Version
  <2> QED
      BY <1>1, <1>2, <1>6, <2>2, <2>3 DEF Copy
<1> QED
    BY <1>2, <1>3, <1>4, <1>5, <1>6

\* What a step that only moves the request of one client has to show.
LEMMA RequestMoves ==
  ASSUME Inv, NEW c \in Clients, NEW r \in Request, Pumped(r),
         req' = [req EXCEPT ![c] = r],
         r.state = "sent" => req[c].state = "sent" /\ r.op = req[c].op,
         seen' \in [Clients -> 0..MaxRV],
         r.rv <= Len(log), \A d \in Clients : seen'[d] <= Len(log),
         UNCHANGED <<log, writes, controllerVars>>
  PROVE  Inv'
<1>1. /\ TypeOK /\ req \in [Clients -> Request]
      /\ \A d \in Clients : Pumped(req[d])
      /\ Known /\ Versions /\ Copies /\ Budget /\ ConfigErrorOfSpec
    BY DEF Inv
<1>2. /\ req' \in [Clients -> Request]
      /\ req'[c] = r
      /\ \A d \in Clients : d # c => req'[d] = req[d]
    BY <1>1
<1>3. writes \in 0..MaxWrites /\ MaxWrites \in Nat
    BY <1>1, StoreAssumption DEF TypeOK, InterceptorTypeOK
<1>4. InterceptorTypeOK'
  <2>1. seen' \in [Clients -> 0..MaxRV] /\ writes' \in 0..MaxWrites
      BY <1>3
  <2>2. ASSUME NEW d \in Clients
        PROVE  /\ req'[d].op \in WithBody \cup WithoutBody \cup {"none"}
               /\ req'[d].state \in {"idle", "sent", "streaming", "responding", "answered"}
               /\ req'[d].rv \in 0..MaxRV
               /\ req'[d].out \in Document
               /\ req'[d].pump \in BOOLEAN
    <3>1. req'[d] \in Request
        BY <1>2
    <3> QED
        BY <3>1 DEF Request
  <2> QED
      BY <2>1, <2>2 DEF InterceptorTypeOK
<1>5. TypeOK'
    BY <1>1, <1>4, NobodyFixed DEF TypeOK, StoreTypeOK
<1>6. \A d \in Clients : Pumped(req'[d])
    BY <1>1, <1>2
<1>7. Versions' /\ Copies' /\ ConfigErrorOfSpec'
    BY <1>1 DEF Versions, Copies, Copy, Version, ConfigErrorOfSpec, StatusSound, Nobody,
      Transformed
<1>8. Budget'
  <2>1. Pending' \subseteq Pending
      BY <1>2 DEF Pending
  <2>2. IsFiniteSet(Pending) /\ IsFiniteSet(Pending') /\ Cardinality(Pending) \in Nat
        /\ Cardinality(Pending') \in Nat /\ Cardinality(Pending') <= Cardinality(Pending)
      BY <1>1, <2>1, FS_Subset, FS_CardinalityType DEF Budget
  <2>3. Owed' = Owed /\ Owed \in Nat
      BY DEF Owed, Current, Version
  <2>4. Len(log) \in Nat
      BY <1>1 DEF TypeOK, StoreTypeOK
  <2> QED
      BY <1>1, <1>3, <2>2, <2>3, <2>4 DEF Budget
<1>9. Known'
    BY <1>1, <1>2 DEF Known
<1> QED
    BY <1>2, <1>5, <1>6, <1>7, <1>8, <1>9 DEF Inv, Pumped

\* Before the first request.
LEMMA InitInv == Init => Inv
<1> SUFFICES ASSUME Init PROVE Inv
    OBVIOUS
<1> USE DEF Init, InterceptorInit
<1>1. log = <<>> /\ log \in Seq(Policy) /\ Len(log) = 0
    OBVIOUS
<1>2. req \in [Clients -> Request] /\ \A c \in Clients : Pumped(req[c])
    BY NoRequestType DEF Pumped
<1>3. seen \in [Clients -> 0..MaxRV] /\ writes \in 0..MaxWrites
    BY MaxRVNat, StoreAssumption
<1>4. Nobody \in Native
  <2>1. Version(0) \in Policy /\ 0 \in 0..MaxRV
      BY MaxRVNat, PolicyTypes DEF Version
  <2> QED
      BY <2>1, TransformedType DEF Nobody
<1>5. TypeOK
  <2>1. StoreTypeOK /\ InterceptorTypeOK
      BY <1>1, <1>2, <1>3, MaxRVNat, RequestTypes DEF StoreTypeOK
  <2>2. cache \in Native /\ busy \in Native /\ (busy # Nobody => busy.spec # NoSpec)
      BY <1>4
  <2>3. queued \in BOOLEAN /\ cfgErr \in BOOLEAN
      OBVIOUS
  <2>4. last \in Document /\ lost \in 0..MaxRV
      BY MaxRVNat DEF Document, NoSpec
  <2> QED
      BY <2>1, <2>2, <2>3, <2>4 DEF TypeOK
<1>6. Versions
    BY <1>1 DEF Versions
<1>7. Copies
    BY <1>1, NobodyFixed, PolicyTypes DEF Copies, Copy, Version
<1>8. Budget
  <2>1. Pending = {}
      BY NoRequestType DEF Pending
  <2>2. Owed = 0
      BY <1>1, PolicyTypes DEF Owed, Current, Version
  <2> QED
      BY <1>1, <2>1, <2>2, FS_EmptySet DEF Budget
<1>9. ConfigErrorOfSpec /\ Known
    BY <1>1, NoRequestType DEF ConfigErrorOfSpec, Known
<1> QED
    BY <1>2, <1>5, <1>6, <1>7, <1>8, <1>9 DEF Inv

\* The pump copies a line, or ends.
LEMMA PumpLemma ==
  ASSUME Inv, NEW c \in Clients, Pump(c), UNCHANGED controllerVars
  PROVE  Inv'
<1>1. /\ req \in [Clients -> Request] /\ req[c] \in Request /\ Pumped(req[c])
      /\ seen \in [Clients -> 0..MaxRV]
      /\ req[c].rv <= Len(log) /\ \A d \in Clients : seen[d] <= Len(log)
      /\ Len(log) \in Nat
    BY DEF Inv, TypeOK, StoreTypeOK, InterceptorTypeOK, Known
<1>2. CASE PumpLine(c)
  <2> DEFINE line == ReplaceAll(Head(req[c].in), native, crd)
             r == [req[c] EXCEPT !.in = Tail(@), !.out = Append(@, line)]
  <2>1. /\ req[c].in \in Document /\ req[c].out \in Document /\ req[c].body \in Document
      BY <1>1 DEF Request
  <2>2. req[c].in # <<>> /\ Head(req[c].in) \in Line /\ line \in Line
    <3>1. req[c].in # <<>> /\ Head(req[c].in) \in Line
        BY <1>2, <2>1 DEF PumpLine, Scannable, Document
    <3> QED
        BY <3>1, LineReplaced
  <2>3. req' = [req EXCEPT ![c] = r] /\ UNCHANGED <<log, seen, writes>>
      BY <1>1, <1>2 DEF PumpLine
  <2> HIDE DEF line
  <2>4. Tail(req[c].in) \in Document /\ Append(req[c].out, line) \in Document
      BY <2>1, <2>2 DEF Document
  <2>5. /\ r \in Request /\ r.in = Tail(req[c].in) /\ r.out = Append(req[c].out, line)
        /\ r.body = req[c].body /\ r.op = req[c].op
        /\ r.state = req[c].state
      BY <1>1, <2>4 DEF Request
  <2>6. r.rv = req[c].rv
      BY <1>1 DEF Request
  <2> HIDE DEF r
  <2>7. Pumped(r)
    <3> SUFFICES ASSUME r.state = "sent"
                 PROVE  /\ r.op \in WithBody => Rewritten(r.body) \in Stored
                        /\ Len(r.out) + Len(r.in) = Len(r.body)
                        /\ \A i \in 1..Len(r.out) : r.out[i] = ReplaceAll(r.body[i], native, crd)
                        /\ \A i \in 1..Len(r.in) : r.in[i] = r.body[Len(r.out) + i]
        BY DEF Pumped
    <3> DEFINE in == req[c].in
               out == req[c].out
               body == req[c].body
    <3>1. /\ Len(out) + Len(in) = Len(body)
          /\ \A i \in 1..Len(out) : out[i] = ReplaceAll(body[i], native, crd)
          /\ \A i \in 1..Len(in) : in[i] = body[Len(out) + i]
          /\ r.op \in WithBody => Rewritten(r.body) \in Stored
        BY <1>1, <2>5 DEF Pumped
    <3>2. /\ in \in Seq(Line) /\ out \in Seq(Line) /\ in # <<>>
          /\ line = ReplaceAll(in[1], native, crd)
          /\ r.in = Tail(in) /\ r.out = Append(out, line) /\ r.body = body
        BY <2>1, <2>2, <2>5 DEF Document, line
    <3> HIDE DEF in, out, body
    <3>3. /\ Len(in) \in Nat \ {0} /\ Len(out) \in Nat
          /\ Len(Tail(in)) = Len(in) - 1
          /\ \A i \in 1..Len(in) - 1 : Tail(in)[i] = in[i + 1]
        BY <3>2
    <3>4. /\ Len(Append(out, line)) = Len(out) + 1
          /\ Append(out, line)[Len(out) + 1] = line
          /\ \A i \in 1..Len(out) : Append(out, line)[i] = out[i]
        BY <3>2
    <3>5. body[Len(out) + 1] = in[1]
        BY <3>1, <3>3
    <3>6. \A i \in 1..Len(r.out) : r.out[i] = ReplaceAll(r.body[i], native, crd)
        BY <3>1, <3>2, <3>3, <3>4, <3>5
    <3>7. ASSUME NEW i \in 1..Len(r.in) PROVE r.in[i] = r.body[Len(r.out) + i]
      <4>1. i + 1 \in 1..Len(in) /\ r.in[i] = in[i + 1]
          BY <3>2, <3>3
      <4>2. Len(r.out) + i = Len(out) + (i + 1)
          BY <3>2, <3>3, <3>4
      <4> QED
          BY <3>1, <3>2, <4>1, <4>2
    <3> QED
        BY <3>1, <3>2, <3>3, <3>4, <3>6, <3>7
  <2> QED
      BY <1>1, <2>5, <2>6, <2>7, <2>3, RequestMoves
<1>3. CASE PumpEnd(c)
  <2>1. /\ req' = [req EXCEPT ![c] = IF req[c].state = "answered" THEN NoRequest
                                     ELSE [req[c] EXCEPT !.pump = FALSE]]
        /\ UNCHANGED <<log, seen, writes>>
      BY <1>1, <1>3 DEF PumpEnd, PumpReturns
  <2>2. CASE req[c].state = "answered"
    <3>1. Pumped(NoRequest) /\ NoRequest.rv <= Len(log)
        BY <1>1, NoRequestType DEF Pumped
    <3> QED
        BY <1>1, <2>1, <2>2, <3>1, NoRequestType, RequestMoves
  <2>3. CASE req[c].state # "answered"
    <3> DEFINE r == [req[c] EXCEPT !.pump = FALSE]
    <3>1. /\ r \in Request /\ r.in = req[c].in /\ r.out = req[c].out
          /\ r.body = req[c].body /\ r.op = req[c].op
          /\ r.state = req[c].state /\ r.rv = req[c].rv
        BY <1>1 DEF Request
    <3>2. req' = [req EXCEPT ![c] = r]
        BY <2>1, <2>3
    <3> HIDE DEF r
    <3>3. Pumped(r)
        BY <1>1, <3>1 DEF Pumped
    <3> QED
        BY <1>1, <2>1, <3>1, <3>2, <3>3, RequestMoves
  <2> QED
      BY <2>2, <2>3
<1> QED
    BY <1>2, <1>3 DEF Pump

\* A client is answered, with or without an error.
LEMMA RespondLemma ==
  ASSUME Inv, NEW c \in Clients, Respond(c), UNCHANGED controllerVars
  PROVE  Inv'
<1>1. /\ req \in [Clients -> Request] /\ req[c] \in Request
      /\ seen \in [Clients -> 0..MaxRV] /\ req[c].rv \in 0..MaxRV
      /\ req[c].rv <= Len(log) /\ (\A d \in Clients : seen[d] <= Len(log))
      /\ Len(log) \in Nat
    BY DEF Inv, TypeOK, StoreTypeOK, InterceptorTypeOK, Known
<1>2. /\ seen' \in [Clients -> 0..MaxRV] /\ UNCHANGED <<log, writes>> /\ Return(c)
      /\ \A d \in Clients : seen'[d] <= Len(log)
    BY <1>1 DEF Respond, Answer, AnswerFails
<1>3. CASE req[c].pump
  <2> DEFINE r == [req[c] EXCEPT !.state = "answered"]
  <2>1. r \in Request /\ r.state = "answered" /\ r.rv = req[c].rv
      BY <1>1 DEF Request
  <2>2. req' = [req EXCEPT ![c] = r]
      BY <1>2, <1>3 DEF Return
  <2> HIDE DEF r
  <2> QED
      BY <1>1, <1>2, <2>1, <2>2, RequestMoves DEF Pumped
<1>4. CASE ~req[c].pump
  <2>1. req' = [req EXCEPT ![c] = NoRequest]
      BY <1>2, <1>4 DEF Return
  <2>2. Pumped(NoRequest) /\ NoRequest.rv <= Len(log)
      BY <1>1, NoRequestType DEF Pumped
  <2> QED
      BY <1>2, <2>1, <2>2, NoRequestType, RequestMoves
<1> QED
    BY <1>3, <1>4

\* A request moves on without a write at the API server.
LEMMA StateLemma ==
  ASSUME Inv, NEW c \in Clients, Reject(c) \/ ServeWatch(c) \/ WatchEnds(c) \/ HangUp(c),
         UNCHANGED controllerVars
  PROVE  Inv'
<1>1. /\ req \in [Clients -> Request] /\ req[c] \in Request /\ Pumped(req[c])
      /\ seen \in [Clients -> 0..MaxRV]
      /\ req[c].rv <= Len(log) /\ (\A d \in Clients : seen[d] <= Len(log))
      /\ Len(log) \in Nat
    BY DEF Inv, TypeOK, StoreTypeOK, InterceptorTypeOK, Known
<1>2. UNCHANGED <<log, seen, writes>>
    BY DEF Reject, ServeWatch, WatchEnds, HangUp
<1>3. CASE Reject(c)
  <2> DEFINE r == [NoRequest EXCEPT !.op = req[c].op, !.state = "responding",
                     !.in = req[c].in, !.pump = req[c].pump, !.gone = req[c].gone]
  <2>1. r \in Request /\ r.state = "responding" /\ r.rv = 0
      BY <1>1, NoRequestType DEF Request
  <2>2. req' = [req EXCEPT ![c] = r]
      BY <1>3 DEF Reject
  <2> HIDE DEF r
  <2>3. Pumped(r) /\ r.rv <= Len(log)
      BY <1>1, <2>1 DEF Pumped
  <2> QED
      BY <1>1, <1>2, <2>1, <2>2, <2>3, RequestMoves
<1>4. CASE ServeWatch(c)
  <2> DEFINE r == [req[c] EXCEPT !.state = "streaming"]
  <2>1. r \in Request /\ r.state = "streaming" /\ r.rv = req[c].rv
      BY <1>1 DEF Request
  <2>2. req' = [req EXCEPT ![c] = r]
      BY <1>1, <1>4 DEF ServeWatch
  <2> HIDE DEF r
  <2> QED
      BY <1>1, <1>2, <2>1, <2>2, RequestMoves DEF Pumped
<1>5. CASE WatchEnds(c)
  <2> DEFINE r == [req[c] EXCEPT !.state = "responding", !.ok = ~req[c].gone]
  <2>1. r \in Request /\ r.state = "responding" /\ r.rv = req[c].rv
      BY <1>1 DEF Request
  <2>2. req' = [req EXCEPT ![c] = r]
      BY <1>1, <1>5 DEF WatchEnds
  <2> HIDE DEF r
  <2> QED
      BY <1>1, <1>2, <2>1, <2>2, RequestMoves DEF Pumped
<1>6. CASE HangUp(c)
  <2> DEFINE r == [req[c] EXCEPT !.gone = TRUE]
  <2>1. /\ r \in Request /\ r.in = req[c].in /\ r.out = req[c].out
        /\ r.body = req[c].body /\ r.op = req[c].op
        /\ r.state = req[c].state /\ r.rv = req[c].rv
      BY <1>1 DEF Request
  <2>2. req' = [req EXCEPT ![c] = r]
      BY <1>1, <1>6 DEF HangUp
  <2> HIDE DEF r
  <2>3. Pumped(r)
      BY <1>1, <2>1 DEF Pumped
  <2> QED
      BY <1>1, <1>2, <2>1, <2>2, <2>3, RequestMoves
<1> QED
    BY <1>3, <1>4, <1>5, <1>6

\* A client sends a request.
LEMMA SendLemma ==
  ASSUME Inv, NEW c \in Clients, Rewrite(c), UNCHANGED controllerVars
  PROVE  Inv'
<1>1. /\ TypeOK /\ req \in [Clients -> Request]
      /\ \A d \in Clients : Pumped(req[d])
      /\ Known /\ Versions /\ Copies /\ Budget /\ ConfigErrorOfSpec
    BY DEF Inv
<1>2. <<>> \in Document /\ Bodies \subseteq Document
    BY BodiesAssumption DEF Document
<1>3. PICK op \in WithBody \cup WithoutBody, body \in Document :
        /\ op \in WithBody => Rewritten(body) \in Stored
        /\ Send(c, op, body)
  <2>1. CASE \E op \in WithBody, body \in Bodies : Send(c, op, body)
      BY <1>2, <2>1 DEF Stored
  <2>2. CASE \E op \in WithoutBody : Send(c, op, <<>>)
      BY <1>2, <2>2 DEF WithBody, WithoutBody
  <2>3. CASE Version(seen[c]) # Absent /\ Send(c, "Update", ModifyResponse(seen[c]))
    <3>1. seen[c] \in 1..Len(log) /\ Version(seen[c]) = log[seen[c]]
        BY <1>1, <2>3 DEF Known, TypeOK, StoreTypeOK, InterceptorTypeOK, Version
    <3>2. Version(seen[c]).spec \in Stored
        BY <1>1, <2>3, <3>1 DEF Versions
    <3>3. ModifyResponse(seen[c]) \in Document
          /\ Rewritten(ModifyResponse(seen[c])) \in Stored
        BY <3>2, StoredDocuments DEF ModifyResponse
    <3> QED
        BY <2>3, <3>3 DEF WithBody
  <2> QED
      BY <2>1, <2>2, <2>3 DEF Rewrite
<1> DEFINE r == [NoRequest EXCEPT !.op = op, !.rv = seen[c],
                   !.state = "sent", !.body = body, !.in = body, !.pump = TRUE]
<1>4. seen \in [Clients -> 0..MaxRV] /\ writes \in 0..MaxWrites /\ MaxWrites \in Nat
    BY <1>1, StoreAssumption DEF TypeOK, InterceptorTypeOK
<1>5. /\ r \in Request /\ r.state = "sent" /\ r.op = op /\ r.rv = seen[c]
      /\ r.body = body /\ r.in = body /\ r.out = <<>>
    BY <1>2, <1>3, <1>4, MaxRVNat DEF NoRequest, Request
<1>6. /\ req' = [req EXCEPT ![c] = r]
      /\ req[c] = NoRequest
      /\ writes' = IF op \in Reads THEN writes ELSE writes + 1
      /\ writes' <= MaxWrites
      /\ UNCHANGED <<log, seen>>
    BY <1>3 DEF Send
<1> HIDE DEF r
<1>7. Pumped(r)
  <2>1. Len(r.out) = 0 /\ Len(r.in) \in Nat
      BY <1>5 DEF Document
  <2> QED
      BY <1>3, <1>5, <2>1 DEF Pumped
<1>8. /\ req' \in [Clients -> Request]
      /\ req'[c] = r
      /\ \A d \in Clients : d # c => req'[d] = req[d]
    BY <1>1, <1>5, <1>6
<1>9. writes' \in 0..MaxWrites /\ writes' \in Nat /\ writes \in Nat
    BY <1>4, <1>6
<1>10. InterceptorTypeOK'
  <2>1. ASSUME NEW d \in Clients
        PROVE  /\ req'[d].op \in WithBody \cup WithoutBody \cup {"none"}
               /\ req'[d].state \in {"idle", "sent", "streaming", "responding", "answered"}
               /\ req'[d].rv \in 0..MaxRV
               /\ req'[d].out \in Document
               /\ req'[d].pump \in BOOLEAN
    <3>1. req'[d] \in Request
        BY <1>8
    <3> QED
        BY <3>1 DEF Request
  <2> QED
      BY <1>4, <1>6, <1>9, <2>1 DEF InterceptorTypeOK
<1>11. TypeOK'
    BY <1>1, <1>6, <1>10, NobodyFixed DEF TypeOK, StoreTypeOK
<1>12. \A d \in Clients : Pumped(req'[d])
    BY <1>1, <1>7, <1>8
<1>13. Versions' /\ Copies' /\ ConfigErrorOfSpec'
    BY <1>1, <1>6 DEF Versions, Copies, Copy, Version, ConfigErrorOfSpec, StatusSound, Nobody,
      Transformed
<1>14. Budget'
  <2>1. c \notin Pending
      BY <1>6, NoRequestType DEF Pending
  <2>2. IsFiniteSet(Pending) /\ Cardinality(Pending) \in Nat
      BY <1>1, FS_CardinalityType DEF Budget
  <2>3. Owed' = Owed /\ Owed \in Nat
      BY <1>6 DEF Owed, Current, Version
  <2>4. Len(log) \in Nat /\ Len(log) + Owed + 2 * Cardinality(Pending) <= 2 * writes
      BY <1>1 DEF TypeOK, StoreTypeOK, Budget
  <2>5. CASE op \in Reads
    <3>1. Pending' = Pending
        BY <1>5, <1>8, <2>1, <2>5 DEF Pending
    <3> QED
        BY <1>6, <2>2, <2>3, <2>4, <2>5, <3>1 DEF Budget
  <2>6. CASE op \notin Reads
    <3>1. Pending' = Pending \cup {c}
        BY <1>5, <1>8, <2>1, <2>6 DEF Pending
    <3>2. IsFiniteSet(Pending') /\ Cardinality(Pending') = Cardinality(Pending) + 1
        BY <2>1, <2>2, <3>1, FS_AddElement
    <3> QED
        BY <1>6, <1>9, <2>2, <2>3, <2>4, <2>6, <3>2 DEF Budget
  <2> QED
      BY <2>5, <2>6
<1>15. Known'
    BY <1>1, <1>5, <1>6, <1>8 DEF Known
<1> QED
    BY <1>8, <1>11, <1>12, <1>13, <1>14, <1>15 DEF Inv, Pumped

\* What a request writes: nothing, or a policy with the client's whole spec
\* whose status is still sound, and that only if it is a writing request.
LEMMA OutcomeLemma ==
  ASSUME Inv, NEW c \in Clients, req[c].state = "sent", req[c].op # "Watch"
  PROVE  LET p == Outcome(c).policy IN
         \/ p = Current
         \/ /\ c \in Pending
            /\ Len(log) + 2 <= MaxRV
            /\ p \in Policy /\ p.generation <= Len(log) + 1
            /\ StatusSound(p) /\ (p # Absent => p.spec \in Stored)
<1>1. /\ StoreTypeOK /\ Versions /\ Budget /\ Pumped(req[c]) /\ req[c] \in Request
      /\ writes \in 0..MaxWrites /\ MaxWrites \in Nat
    BY StoreAssumption DEF Inv, TypeOK, InterceptorTypeOK
<1> DEFINE p == Outcome(c).policy
           r == req[c]
<1>2. SUFFICES ASSUME p # Current
               PROVE  /\ c \in Pending
                      /\ Len(log) + 2 <= MaxRV
                      /\ p \in Policy /\ p.generation <= Len(log) + 1
                      /\ StatusSound(p) /\ (p # Absent => p.spec \in Stored)
    OBVIOUS
<1>3. /\ \A x : Ok(x).policy = x
      /\ \A why : Refused(why).policy = Current
    BY DEF Ok, Refused
<1>4. ~Cut(c)
    BY <1>2, <1>3 DEF Outcome
<1>5. r.out = Rewritten(r.body)
  <2>1. /\ r.out \in Document /\ r.body \in Document /\ r.in \in Document
      BY <1>1 DEF Request
  <2>2. /\ Len(r.out) + Len(r.in) = Len(r.body)
        /\ \A i \in 1..Len(r.out) : r.out[i] = ReplaceAll(r.body[i], native, crd)
      BY <1>1 DEF Pumped
  <2>3. Len(r.out) >= Len(r.body) \/ r.in = <<>>
      BY <1>4, <2>1 DEF Cut, Document
  <2> HIDE DEF r
  <2>5. Len(r.in) \in Nat /\ Len(r.out) \in Nat /\ Len(r.body) \in Nat
      BY <2>1 DEF Document
  <2>6. r.in = <<>> => Len(r.in) = 0
      OBVIOUS
  <2>4. Len(r.in) = 0 /\ Len(r.out) = Len(r.body)
    <3> DEFINE a == Len(r.in)
               b == Len(r.out)
               n == Len(r.body)
    <3>1. b + a = n /\ (b >= n \/ a = 0) /\ a \in Nat /\ b \in Nat /\ n \in Nat
        BY <2>2, <2>3, <2>5, <2>6
    <3> HIDE DEF a, b, n
    <3>2. a = 0 /\ b = n
        BY <3>1
    <3> QED
        BY <3>2 DEF a, b, n
  <2>7. r.out = [i \in 1..Len(r.out) |-> r.out[i]] /\ DOMAIN r.body = 1..Len(r.body)
      BY <2>1 DEF Document
  <2> QED
      BY <2>2, <2>4, <2>7 DEF Rewritten
<1>6. ASSUME r.op \in WithBody PROVE r.out \in Stored /\ r.out \in Document
    BY <1>1, <1>5, <1>6, StoredDocuments DEF Pumped
<1>7. /\ Current \in Policy /\ Current.status \in Status
      /\ Current.generation \in 0..MaxRV
      /\ Current.status.observedGeneration \in 0..MaxRV
      /\ Current.generation <= Len(log) /\ Len(log) \in Nat
      /\ StatusSound(Current)
      /\ MaxRV \in Nat
    BY <1>1, CurrentSound, MaxRVNat
<1>8. ASSUME r.op \notin Reads
      PROVE  c \in Pending /\ Len(log) + 2 <= MaxRV
  <2>1. c \in Pending
      BY <1>8 DEF Pending
  <2>2. Cardinality(Pending) \in Nat /\ Cardinality(Pending) # 0
      BY <1>1, <2>1, FS_CardinalityType, FS_EmptySet DEF Budget
  <2>3. Owed \in Nat
      BY DEF Owed
  <2> QED
      BY <1>1, <1>7, <2>1, <2>2, <2>3, MaxRVNat DEF Budget
<1>9. CASE r.op = "Create"
  <2>1. p = Create(r.out).policy
      BY <1>4, <1>9 DEF Outcome
  <2> DEFINE q == [Absent EXCEPT !.generation = 1, !.spec = r.out]
  <2>2. p = q
      BY <1>2, <1>3, <2>1 DEF Create
  <2>3. r.out \in Stored /\ r.out \in Document /\ c \in Pending /\ Len(log) + 2 <= MaxRV
      BY <1>6, <1>8, <1>9 DEF WithBody, Reads
  <2>4. q.generation = 1 /\ q.spec = r.out /\ q.status = NoStatus
      BY DEF Absent
  <2>5. q \in Policy
    <3>1. 1 \in 0..MaxRV /\ r.out \in Document
        BY <1>7, <2>3
    <3> HIDE DEF r
    <3> QED
        BY <3>1, PolicyTypes DEF Policy
  <2> HIDE DEF q
  <2> QED
      BY <1>7, <2>2, <2>3, <2>4, <2>5, PolicyTypes DEF StatusSound
<1>10. CASE r.op \in {"Update", "Patch"}
  <2>1. p = WithSpec(r.out) /\ Exists
      BY <1>2, <1>3, <1>4, <1>10 DEF Outcome, Update, Patch, IfCurrent
  <2> DEFINE q == [Current EXCEPT !.spec = r.out, !.generation = @ + 1]
  <2>2. p = q
      BY <1>2, <2>1 DEF WithSpec
  <2>3. r.out \in Stored /\ r.out \in Document /\ c \in Pending /\ Len(log) + 2 <= MaxRV
      BY <1>6, <1>8, <1>10 DEF WithBody, Reads
  <2>4. /\ q.generation = Current.generation + 1
        /\ q.spec = r.out /\ q.status = Current.status
      BY <1>7 DEF Policy
  <2>5. q \in Policy
    <3>1. /\ Current.generation + 1 \in 0..MaxRV
          /\ r.out \in Document
        BY <1>7, <2>3
    <3> HIDE DEF r
    <3> QED
        BY <1>7, <3>1 DEF Policy
  <2> HIDE DEF q
  <2> QED
      BY <1>7, <2>2, <2>3, <2>4, <2>5 DEF StatusSound
<1>11. CASE r.op \in {"Delete", "DeleteCollection"}
  <2>1. p = Absent
      BY <1>2, <1>3, <1>4, <1>11 DEF Outcome, Delete, DeleteCollection
  <2>2. c \in Pending /\ Len(log) + 2 <= MaxRV
      BY <1>8, <1>11 DEF Reads
  <2> QED
      BY <1>7, <2>1, <2>2, PolicyTypes
<1>12. CASE r.op \notin {"Create", "Update", "Patch", "Delete", "DeleteCollection"}
  <2>1. p = Current
      BY <1>3, <1>4, <1>12 DEF Outcome, Get
  <2> QED
      BY <1>2, <2>1
<1> QED
    BY <1>9, <1>10, <1>11, <1>12

\* The API server serves a request.
LEMMA ServeLemma ==
  ASSUME Inv, NEW c \in Clients, Serve(c), UNCHANGED controllerVars
  PROVE  Inv'
<1>1. /\ TypeOK /\ req \in [Clients -> Request] /\ req[c] \in Request
      /\ \A d \in Clients : Pumped(req[d])
      /\ Known /\ Versions /\ Copies /\ Budget /\ ConfigErrorOfSpec
      /\ StoreTypeOK /\ seen \in [Clients -> 0..MaxRV] /\ writes \in 0..MaxWrites
      /\ cache \in Native /\ busy \in Native
    BY DEF Inv, TypeOK, InterceptorTypeOK
<1> DEFINE p == Outcome(c).policy
           r == [NoRequest EXCEPT !.op = req[c].op, !.state = "responding", !.rv = Len(log'),
                   !.ok = Outcome(c).reply = "ok" /\ ~req[c].gone]
<1>2. /\ req[c].state = "sent" /\ req[c].op # "Watch"
      /\ log' = IF p = Current THEN log ELSE Append(log, p)
      /\ req' = [req EXCEPT ![c] = r]
      /\ UNCHANGED <<seen, writes>>
    BY DEF Serve, Commit
<1>3. ASSUME Len(log') \in 0..MaxRV PROVE r \in Request /\ r.state = "responding" /\ r.rv = Len(log')
    BY <1>1, <1>3, NoRequestType DEF Request
<1> HIDE DEF r
<1>4. Len(log) \in Nat /\ Len(log) <= MaxRV /\ MaxRV \in Nat
    BY <1>1, MaxRVNat DEF StoreTypeOK
<1>5. CASE p = Current
  <2>1. log' = log
      BY <1>2, <1>5
  <2>2. r \in Request /\ r.state = "responding" /\ r.rv = Len(log)
      BY <1>3, <1>4, <2>1
  <2>3. Pumped(r) /\ r.rv <= Len(log) /\ \A d \in Clients : seen'[d] <= Len(log)
      BY <1>1, <1>2, <1>4, <2>2 DEF Pumped, Known
  <2> QED
      BY <1>1, <1>2, <2>1, <2>2, <2>3, RequestMoves
<1>6. CASE p # Current
  <2>1. /\ c \in Pending
        /\ Len(log) + 2 <= MaxRV
        /\ p \in Policy /\ p.generation <= Len(log) + 1
        /\ StatusSound(p) /\ (p # Absent => p.spec \in Stored)
        /\ log' = Append(log, p)
      BY <1>2, <1>6, OutcomeLemma
  <2> HIDE DEF p
  <2>2. /\ StoreTypeOK' /\ Versions'
        /\ Len(log') = Len(log) + 1
        /\ Current' = p
        /\ \A n \in Native : Copy(n) => Copy(n)'
      BY <1>1, <1>4, <2>1, AppendLemma
  <2>3. r \in Request /\ r.state = "responding" /\ r.rv = Len(log')
      BY <1>3, <1>4, <2>1, <2>2
  <2>4. /\ req' \in [Clients -> Request]
        /\ req'[c] = r
        /\ \A d \in Clients : d # c => req'[d] = req[d]
      BY <1>1, <1>2, <2>3
  <2>5. InterceptorTypeOK'
    <3>1. ASSUME NEW d \in Clients
          PROVE  /\ req'[d].op \in WithBody \cup WithoutBody \cup {"none"}
                 /\ req'[d].state \in {"idle", "sent", "streaming", "responding", "answered"}
                 /\ req'[d].rv \in 0..MaxRV
                 /\ req'[d].out \in Document
                 /\ req'[d].pump \in BOOLEAN
      <4>1. req'[d] \in Request
          BY <2>4
      <4> QED
          BY <4>1 DEF Request
    <3> QED
        BY <1>1, <1>2, <3>1 DEF InterceptorTypeOK
  <2>6. TypeOK'
      BY <1>1, <2>2, <2>5, NobodyFixed DEF TypeOK
  <2>7. \A d \in Clients : Pumped(req'[d])
    <3>1. Pumped(r)
        BY <2>3 DEF Pumped
    <3> QED
        BY <1>1, <2>4, <3>1
  <2>8. Copies' /\ ConfigErrorOfSpec'
    <3>1. Copy(cache) /\ Copy(busy)
          /\ (busy # Nobody => busy.status.observedGeneration < busy.generation)
        BY <1>1 DEF Copies
    <3>2. Copy(cache)' /\ Copy(busy)'
        BY <1>1, <2>2, <3>1 DEF Copy
    <3> QED
        BY <1>1, <3>1, <3>2, NobodyFixed DEF Copies, ConfigErrorOfSpec
  <2>9. Budget'
    <3>1. Pending' = Pending \ {c}
        BY <2>3, <2>4 DEF Pending
    <3>2. IsFiniteSet(Pending) /\ Cardinality(Pending) \in Nat
        BY <1>1, FS_CardinalityType DEF Budget
    <3>3. IsFiniteSet(Pending') /\ Cardinality(Pending') = Cardinality(Pending) - 1
        BY <2>1, <3>1, <3>2, FS_RemoveElement
    <3>4. Owed \in {0, 1} /\ Owed' \in {0, 1} /\ writes \in Nat
        BY <1>1, StoreAssumption DEF Owed
    <3>5. Len(log) + Owed + 2 * Cardinality(Pending) <= 2 * writes /\ writes' = writes
        BY <1>1, <1>2 DEF Budget
    <3> QED
        BY <1>4, <2>2, <3>2, <3>3, <3>4, <3>5 DEF Budget
  <2>10. Known'
    <3>1. \A d \in Clients : /\ seen[d] \in Nat /\ seen[d] <= Len(log)
                              /\ req[d].rv \in Nat /\ req[d].rv <= Len(log)
        BY <1>1, <1>4 DEF Known, TypeOK, InterceptorTypeOK
    <3> QED
        BY <1>2, <1>4, <2>2, <2>3, <2>4, <3>1 DEF Known
  <2> QED
      BY <2>2, <2>4, <2>6, <2>7, <2>8, <2>9, <2>10 DEF Inv, Pumped
<1> QED
    BY <1>5, <1>6

\* The controller's informer delivers a version.
LEMMA DeliverLemma == ASSUME Inv, Deliver PROVE Inv'
<1>1. /\ TypeOK /\ Known /\ Versions /\ Copies /\ Budget /\ ConfigErrorOfSpec
      /\ StoreTypeOK /\ cache \in Native
    BY DEF Inv, TypeOK
<1>2. Len(log) \in Nat /\ Len(log) <= MaxRV /\ MaxRV \in Nat
    BY <1>1, MaxRVNat DEF StoreTypeOK
<1>3. cache.rv \in 0..MaxRV
    BY <1>1 DEF Native
<1>4. PICK rv \in cache.rv + 1..Len(log) :
        /\ cache' = Transformed(rv, rv # cache.rv + 1)
        /\ queued' = TRUE
        /\ lost' = 0
        /\ UNCHANGED <<proxyVars, busy, last, cfgErr>>
    BY DEF Deliver
<1>5. rv \in 1..Len(log) /\ rv \in 0..MaxRV /\ rv <= Len(log)
    BY <1>2, <1>3
<1>6. Version(rv) \in Policy
    BY <1>1, <1>5 DEF Version, StoreTypeOK
<1>7. /\ cache' \in Native
      /\ cache'.rv = rv
      /\ cache'.generation = Version(rv).generation
      /\ cache'.spec = Version(rv).spec
      /\ cache'.status = Version(rv).status
  <2>1. (rv # cache.rv + 1) \in BOOLEAN
      OBVIOUS
  <2> QED
      BY <1>4, <1>5, <1>6, <2>1, TransformedType
<1>8. \A k : Version(k)' = Version(k)
    BY <1>4 DEF Version
<1>9. Copies'
  <2>1. Copy(cache)'
      BY <1>4, <1>5, <1>7, <1>8 DEF Copy
  <2>2. Copy(busy)'
      BY <1>1, <1>4, <1>8 DEF Copies, Copy
  <2> QED
      BY <1>1, <1>4, <2>1, <2>2, NobodyFixed DEF Copies
<1>10. TypeOK'
  <2>1. queued' \in BOOLEAN
      BY <1>4
  <2>2. lost' \in 0..MaxRV
      BY <1>2, <1>4
  <2>3. StoreTypeOK' /\ InterceptorTypeOK'
      BY <1>1, <1>4 DEF TypeOK, StoreTypeOK, InterceptorTypeOK
  <2> QED
      BY <1>1, <1>4, <1>7, <2>1, <2>2, <2>3, NobodyFixed DEF TypeOK
<1>11. Known' /\ Versions' /\ Budget' /\ ConfigErrorOfSpec'
    BY <1>1, <1>4 DEF Known, Versions, StatusSound, Budget, Pending, Owed, Current, Version,
      ConfigErrorOfSpec
<1> QED
    BY <1>4, <1>9, <1>10, <1>11 DEF Inv, Pumped

\* The controller reconciles, or loses a status update.
LEMMA WorkerLemma ==
  ASSUME Inv, (\E mapped \in BOOLEAN : Reconcile(mapped)) \/ UpdateStatusLost
  PROVE  Inv'
<1>1. /\ TypeOK /\ Known /\ Versions /\ Copies /\ Budget /\ ConfigErrorOfSpec
      /\ StoreTypeOK /\ InterceptorTypeOK /\ cache \in Native /\ busy \in Native
    BY DEF Inv, TypeOK
<1>2. UNCHANGED <<log, req, seen, writes, cache>>
    BY DEF Reconcile, UpdateStatusLost
<1>3. /\ StoreTypeOK' /\ InterceptorTypeOK' /\ Known' /\ Versions' /\ Budget'
      /\ req' \in [Clients -> Request] /\ \A c \in Clients : Pumped(req'[c])
    BY <1>1, <1>2 DEF StoreTypeOK, InterceptorTypeOK, Known, Versions, StatusSound, Budget, Pending,
      Owed, Current, Version, Inv
<1>4. /\ cache.spec \in Document
      /\ busy.rv \in 0..MaxRV /\ 0 \in 0..MaxRV
  <2>1. cache.spec \in Document /\ busy.rv \in 0..MaxRV
      BY <1>1 DEF Native
  <2> QED
      BY <2>1, MaxRVNat
<1>5. \A n : Copy(n) => n.rv <= Len(log') /\ n.generation = Version(n.rv)'.generation
               /\ n.spec = Version(n.rv)'.spec /\ n.status = Version(n.rv)'.status
    BY <1>2 DEF Copy, Version
<1>6. /\ Copy(cache) /\ Copy(busy) /\ Nobody \in Native
      /\ (busy # Nobody => busy.status.observedGeneration < busy.generation)
      /\ Copy(Nobody)
  <2>1. Version(0) \in Policy /\ 0 \in 0..MaxRV
      BY MaxRVNat, PolicyTypes DEF Version
  <2>2. Nobody \in Native
      BY <2>1, TransformedType DEF Nobody
  <2>3. Copy(Nobody)
      BY <1>1, NobodyFixed, PolicyTypes DEF Copy, Version, StoreTypeOK
  <2> QED
      BY <1>1, <2>2, <2>3 DEF Copies
<1>7. CASE UpdateStatusLost
  <2>1. /\ busy' = Nobody /\ lost' \in 0..MaxRV
        /\ UNCHANGED <<queued, last, cfgErr>>
      BY <1>4, <1>7 DEF UpdateStatusLost
  <2>2. TypeOK'
      BY <1>1, <1>2, <1>3, <1>6, <2>1, NobodyFixed DEF TypeOK
  <2>3. Copies' /\ ConfigErrorOfSpec'
      BY <1>1, <1>2, <1>5, <1>6, <2>1, NobodyFixed DEF Copies, Copy, ConfigErrorOfSpec
  <2> QED
      BY <1>3, <2>2, <2>3 DEF Inv, Pumped
<1>8. ASSUME NEW mapped \in BOOLEAN, Reconcile(mapped) PROVE Inv'
  <2>1. /\ last' = cache.spec
        /\ cfgErr' = IF cache.spec = last /\ last # NoSpec THEN cfgErr 
                     ELSE Misconfigured(cache.spec, mapped)
        /\ queued' = SpecFails(cache, mapped)
        /\ UNCHANGED lost
      BY <1>8 DEF Reconcile, reconcilePolicyDefinitionSpec
  <2>2. \/ busy' = Nobody
        \/ /\ busy' = cache /\ cache.spec # NoSpec
           /\ cache.status.observedGeneration < cache.generation
      BY <1>8 DEF Reconcile
  <2>3. queued' \in BOOLEAN /\ cfgErr' \in BOOLEAN
    <3>1. SpecFails(cache, mapped) \in BOOLEAN /\ Misconfigured(cache.spec, mapped) \in BOOLEAN
        BY DEF SpecFails, Misconfigured
    <3>2. cfgErr \in BOOLEAN
        BY <1>1 DEF TypeOK
    <3>3. queued' \in BOOLEAN
        BY <2>1, <3>1
    <3>4. cfgErr' \in BOOLEAN
        BY <2>1, <3>1, <3>2
    <3> QED
        BY <3>3, <3>4
  <2>4. busy' \in Native /\ (busy' # Nobody => busy'.spec # NoSpec)
      BY <1>1, <1>6, <2>2
  <2>5. TypeOK'
      BY <1>1, <1>2, <1>3, <1>4, <2>1, <2>3, <2>4, NobodyFixed DEF TypeOK
  <2>6. Copies'
      BY <1>2, <1>5, <1>6, <2>2, NobodyFixed DEF Copies, Copy
  <2>7. ConfigErrorOfSpec'
      BY <1>1, <2>1 DEF ConfigErrorOfSpec, Misconfigured
  <2> QED
      BY <1>3, <2>5, <2>6, <2>7 DEF Inv, Pumped
<1> QED
    BY <1>7, <1>8

\* The API server accepts the controller's status.
LEMMA UpdateStatusLemma == ASSUME Inv, UpdateStatusServed PROVE Inv'
<1>1. /\ TypeOK /\ Known /\ Versions /\ Copies /\ Budget /\ ConfigErrorOfSpec
      /\ StoreTypeOK /\ InterceptorTypeOK /\ cache \in Native /\ busy \in Native
      /\ writes \in 0..MaxWrites /\ MaxWrites \in Nat
    BY StoreAssumption DEF Inv, TypeOK, InterceptorTypeOK
<1> DEFINE status == [observedGeneration |-> busy.generation, checked |-> busy.spec]
           q == [Current EXCEPT !.status = status]
           o == TransformedUpdateStatus(calculatePolicyStatus(busy))
<1>2. /\ busy # Nobody /\ busy' = Nobody
      /\ log' = IF o.policy = Current THEN log ELSE Append(log, o.policy)
      /\ UNCHANGED <<req, seen, writes, cache, queued, last, cfgErr, lost>>
    BY DEF UpdateStatusServed, Commit
<1>3. /\ busy.rv \in 0..MaxRV /\ busy.generation \in 0..MaxRV /\ busy.status \in Status
      /\ busy.spec \in Document
    BY <1>1 DEF Native
<1>4. o = IfCurrent(busy.rv, q)
  <2> DEFINE updated == calculatePolicyStatus(busy)
  <2>1. updated = [busy EXCEPT !.status = status]
      BY DEF calculatePolicyStatus
  <2>2. updated.rv = busy.rv /\ updated.status = status
      BY <1>1, <2>1 DEF Native
  <2>3. updated \in [rv : 0..MaxRV, apiVersion : {"", nativeVersion}, generation : 0..MaxRV,
                    spec : Document, status : {status}]
      BY <1>1, <2>1 DEF Native
  <2> HIDE DEF updated, status
  <2>4. /\ NativeToCRDPolicy(updated).rv = busy.rv
        /\ NativeToCRDPolicy(updated).status = status
      BY <2>2, <2>3 DEF NativeToCRDPolicy, Renamed
  <2> QED
      BY <2>4 DEF TransformedUpdateStatus, UpdateStatus, updated
<1>5. /\ Nobody \in Native /\ Copy(Nobody) /\ Copy(cache)
      /\ Copy(busy) /\ busy.status.observedGeneration < busy.generation
  <2>1. Version(0) \in Policy /\ 0 \in 0..MaxRV
      BY MaxRVNat, PolicyTypes DEF Version
  <2>2. Nobody \in Native
      BY <2>1, TransformedType DEF Nobody
  <2>3. Copy(Nobody)
      BY <1>1, NobodyFixed, PolicyTypes DEF Copy, Version, StoreTypeOK
  <2> QED
      BY <1>1, <1>2, <2>2, <2>3 DEF Copies
<1>6. o.policy = Current \/ (Exists /\ busy.rv = Len(log) /\ o.policy = q)
    BY <1>4 DEF IfCurrent, Refused, Ok
<1>7. TypeOK' <=> /\ StoreTypeOK' /\ InterceptorTypeOK'
    BY <1>1, <1>2, <1>5, NobodyFixed DEF TypeOK
<1>8. /\ InterceptorTypeOK' /\ ConfigErrorOfSpec'
      /\ req' \in [Clients -> Request] /\ \A c \in Clients : Pumped(req'[c])
      /\ Pending' = Pending
    BY <1>1, <1>2 DEF InterceptorTypeOK, ConfigErrorOfSpec, Inv, Pending
<1> HIDE DEF o
<1>9. CASE o.policy = Current
  <2>1. log' = log
      BY <1>2, <1>9
  <2>2. StoreTypeOK' /\ Versions' /\ Budget'
      BY <1>1, <1>2, <1>8, <2>1 DEF StoreTypeOK, Versions, StatusSound, Budget, Owed, Current,
        Version
  <2>3. Copies' /\ Known'
      BY <1>1, <1>2, <1>5, <2>1, NobodyFixed DEF Copies, Copy, Version, Known
  <2> QED
      BY <1>7, <1>8, <2>2, <2>3 DEF Inv, Pumped
<1>10. CASE o.policy # Current
  <2>1. Exists /\ busy.rv = Len(log) /\ log' = Append(log, q)
      BY <1>2, <1>6, <1>10
  <2>2. /\ Len(log) \in Nat /\ Current \in Policy
        /\ Current.generation \in 0..MaxRV /\ Current.generation <= Len(log)
        /\ Current # Absent => Current.spec \in Stored
      BY <1>1, CurrentSound
  <2>3. /\ Current.generation = busy.generation /\ Current.spec = busy.spec
        /\ Current.status = busy.status
      BY <1>5, <2>1 DEF Copy, Current
  <2>4. Owed = 1
      BY <1>5, <2>3 DEF Owed
  <2>5. IsFiniteSet(Pending) /\ Cardinality(Pending) \in Nat
      BY <1>1, FS_CardinalityType DEF Budget
  <2>6. Len(log) < MaxRV
      BY <1>1, <2>2, <2>4, <2>5, MaxRVNat DEF Budget
  <2>7. /\ status \in Status /\ status.observedGeneration = busy.generation
        /\ status.checked = busy.spec
      BY <1>3 DEF Status
  <2> HIDE DEF status
  <2>8. /\ q \in Policy /\ q.generation = Current.generation /\ q.spec = Current.spec
        /\ q.status = status
      BY <2>2, <2>7 DEF Policy
  <2> HIDE DEF q
  <2>9. /\ q.generation <= Len(log) + 1 /\ StatusSound(q) /\ (q # Absent => q.spec \in Stored)
      BY <1>3, <2>1, <2>2, <2>3, <2>7, <2>8 DEF StatusSound, Exists
  <2>10. /\ StoreTypeOK' /\ Versions'
         /\ Len(log') = Len(log) + 1
         /\ Current' = q
         /\ \A n \in Native : Copy(n) => Copy(n)'
      BY <1>1, <2>1, <2>6, <2>8, <2>9, AppendLemma
  <2>11. Owed' = 0
      BY <1>3, <2>3, <2>7, <2>8, <2>10 DEF Owed
  <2>12. Budget'
      BY <1>1, <1>2, <1>8, <2>2, <2>4, <2>5, <2>10, <2>11 DEF Budget
  <2>13. Copies'
    <3>1. Copy(cache)' /\ Copy(busy)'
        BY <1>1, <1>2, <1>5, <2>10, NobodyFixed DEF Copy
    <3> QED
        BY <1>2, <3>1, NobodyFixed DEF Copies
  <2>14. Known'
    <3>1. \A d \in Clients : /\ seen[d] \in Nat /\ seen[d] <= Len(log)
                              /\ req[d].rv \in Nat /\ req[d].rv <= Len(log)
        BY <1>1, MaxRVNat DEF Known, InterceptorTypeOK
    <3> QED
        BY <1>2, <2>2, <2>10, <3>1 DEF Known
  <2> QED
      BY <1>7, <1>8, <2>10, <2>12, <2>13, <2>14 DEF Inv, Pumped
<1> QED
    BY <1>9, <1>10

\* A step of nobody.
LEMMA StutterLemma == ASSUME Inv, UNCHANGED vars PROVE Inv'
<1>1. TypeOK'
    BY NobodyFixed DEF Inv, TypeOK, StoreTypeOK, InterceptorTypeOK
<1>2. Known' /\ Versions' /\ Budget' /\ ConfigErrorOfSpec'
    BY DEF Inv, Known, Versions, StatusSound, Budget, Pending, Owed, Current, Version,
      ConfigErrorOfSpec
<1>3. Copies'
    BY NobodyFixed DEF Inv, Copies, Copy, Version
<1> QED
    BY <1>1, <1>2, <1>3 DEF Inv, Pumped

-----------------------------------------------------------------------------
(* The theorems *)

\* Every reachable state satisfies the inductive invariant.
THEOREM Invariance == Spec => []Inv
<1>1. ASSUME Inv, NEW c \in Clients, UNCHANGED controllerVars,
             \/ Rewrite(c) \/ HangUp(c) \/ Pump(c) \/ Respond(c)
             \/ Serve(c) \/ Reject(c) \/ ServeWatch(c) \/ WatchEnds(c)
      PROVE  Inv'
  <2>1. CASE Rewrite(c)
      BY <1>1, <2>1, SendLemma
  <2>2. CASE Pump(c)
      BY <1>1, <2>2, PumpLemma
  <2>3. CASE Respond(c)
      BY <1>1, <2>3, RespondLemma
  <2>4. CASE Serve(c)
      BY <1>1, <2>4, ServeLemma
  <2>5. CASE Reject(c) \/ ServeWatch(c) \/ WatchEnds(c) \/ HangUp(c)
      BY <1>1, <2>5, StateLemma
  <2> QED
      BY <1>1, <2>1, <2>2, <2>3, <2>4, <2>5
<1>2. ASSUME Inv, [Next]_vars PROVE Inv'
    BY <1>1, <1>2, DeliverLemma, WorkerLemma, UpdateStatusLemma, StutterLemma
      DEF Next, InterceptorNext, Worker
<1> QED
    BY InitInv, <1>2, PTL DEF Spec

\* The types; among them that the versions of the policy stay within twice
\* the number of writing requests: every such request costs at most its own
\* version and one update of the status, however often the controller
\* reconciles (controller_reconcile.go:446-459).
THEOREM TypeCorrect == Spec => []TypeOK
<1>1. Inv => TypeOK
    BY DEF Inv
<1> QED
    BY Invariance, <1>1, PTL

\* A status that claims the current generation was computed from the current
\* spec (controller_reconcile.go:446-459).
THEOREM StatusIsOfItsSpec == Spec => []StatusDescribesSpec
<1>1. ASSUME Inv PROVE StatusDescribesSpec
  <2>1. StatusSound(Current)
      BY <1>1, CurrentSound DEF Inv, TypeOK
  <2> QED
      BY <2>1 DEF StatusSound, StatusDescribesSpec, Exists
<1> QED
    BY Invariance, <1>1, PTL

\* A policy is held misconfigured only for a paramKind of the spec that was
\* reconciled last (controller_reconcile.go:204-250).
THEOREM ConfigErrorIsCurrent == Spec => []ConfigErrorOfSpec
<1>1. Inv => ConfigErrorOfSpec
    BY DEF Inv
<1> QED
    BY Invariance, <1>1, PTL

\* The API server stores only specs that clients wrote, whole, with the native
\* API version replaced, and clients read them as they were written unless
\* that spelled out the other one, for documents of any number of lines and
\* any API versions in them (interceptor main.go:62-84).
THEOREM OnlySentSpecsAreStored == Spec => []StoredAsSent
<1>1. ASSUME Inv, NEW i \in 1..Len(log), log[i] # Absent
      PROVE  \E b \in Bodies :
               /\ log[i].spec = [j \in DOMAIN b |-> ReplaceAll(b[j], native, crd)]
               /\ (\E j \in DOMAIN b : crd \in b[j].versions) \/ ModifyResponse(i) = b
  <2>1. PICK b \in Bodies : log[i].spec = Rewritten(b)
      BY <1>1 DEF Inv, Versions, Stored
  <2>2. b \in Seq(Line) /\ b = [j \in DOMAIN b |-> b[j]] /\ \A j \in DOMAIN b : b[j] \in Line
      BY BodiesAssumption DEF Document
  <2>3. Version(i) = log[i]
      BY <1>1 DEF Version, Inv, TypeOK, StoreTypeOK
  <2>4. ASSUME \A j \in DOMAIN b : crd \notin b[j].versions
        PROVE  ModifyResponse(i) = b
    <3>1. \A j \in DOMAIN b : ReplaceAll(ReplaceAll(b[j], native, crd), crd, native) = b[j]
        BY <2>2, <2>4, LineReplaced
    <3>2. ModifyResponse(i) =
            [j \in DOMAIN b |-> ReplaceAll(ReplaceAll(b[j], native, crd), crd, native)]
        BY <2>1, <2>3 DEF ModifyResponse, Rewritten
    <3> QED
        BY <2>2, <3>1, <3>2
  <2> QED
      BY <2>1, <2>4 DEF Rewritten
<1>2. Inv => StoredAsSent
    BY <1>1 DEF StoredAsSent
<1> QED
    BY Invariance, <1>2, PTL

=============================================================================
