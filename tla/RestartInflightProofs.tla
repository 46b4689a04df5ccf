----------------------- MODULE RestartInflightProofs -----------------------
(* Theorems about RestartInflight, for every pool size, number of PEs and  *)
(* choice of owners.                                                       *)
EXTENDS RestartInflight, FiniteSetTheorems, TLAPS

LEMMA InitType == Init => TypeOK
  BY InflightAssumption DEF Init, TypeOK, PE, Slots, None

LEMMA ApplyType ==
    ASSUME TypeOK, NEW s \in Slots, Apply(s) PROVE applied' \in [PE -> Nat]
  <1>1. applied \in [PE -> Nat]
    BY DEF TypeOK
  <1>2. CASE s \in flying
    <2>1. applied' = [applied EXCEPT ![inbuf[s]] = @ + 1]
      BY <1>2 DEF Apply
    <2>2. CASE inbuf[s] \in PE
      <3>1. applied[inbuf[s]] + 1 \in Nat
        BY <1>1, <2>2
      <3> QED
        BY <1>1, <2>1, <3>1
    <2>3. CASE inbuf[s] \notin PE
      BY <1>1, <2>1, <2>3
    <2> QED
      BY <2>2, <2>3
  <1>3. CASE s \notin flying
    BY <1>1, <1>3 DEF Apply
  <1> QED
    BY <1>2, <1>3

LEMMA StepType == TypeOK /\ [Next]_vars => TypeOK'
  <1> SUFFICES ASSUME TypeOK, [Next]_vars PROVE TypeOK'
    OBVIOUS
  <1>1. ASSUME NEW S \in SUBSET PE, Iterate(S) PROVE TypeOK'
    <2>1. own' \subseteq PE /\ flying' \subseteq Slots /\ pc' \in {"idle", "acquire", "waitall", "aborted"} /\ rget' \in Builds
      BY <1>1, InflightAssumption DEF TypeOK, PE, Slots, None, Iterate
    <2>2. srcPE' \in 0 .. NPE /\ in_use' \in 0 .. MaxInflight /\ remaining' \in 0 .. MaxInflight
      BY <1>1, InflightAssumption DEF TypeOK, PE, Slots, None, Iterate
    <2>3. next_activate' \in Slots /\ calls' \in 0 .. MaxCalls
      BY <1>1, InflightAssumption DEF TypeOK, PE, Slots, None, Iterate
    <2>4. inbuf' \in [Slots -> PE \cup {None}]
      BY <1>1, InflightAssumption DEF TypeOK, PE, Slots, None, Iterate
    <2>5. req' \in [Slots -> Slots \cup {0}] /\ map' \in [Slots -> Slots]
      BY <1>1, InflightAssumption DEF TypeOK, PE, Slots, None, Iterate
    <2>6. applied' \in [PE -> Nat]
      BY <1>1, InflightAssumption DEF TypeOK, PE, Slots, None, Iterate
    <2> QED
      BY <2>1, <2>2, <2>3, <2>4, <2>5, <2>6 DEF TypeOK
  <1>2. CASE SkipPE
    <2>1. own' \subseteq PE /\ flying' \subseteq Slots /\ pc' \in {"idle", "acquire", "waitall", "aborted"} /\ rget' \in Builds
      BY <1>2, InflightAssumption DEF TypeOK, PE, Slots, None, SkipPE
    <2>2. srcPE' \in 0 .. NPE /\ in_use' \in 0 .. MaxInflight /\ remaining' \in 0 .. MaxInflight
      BY <1>2, InflightAssumption DEF TypeOK, PE, Slots, None, SkipPE
    <2>3. next_activate' \in Slots /\ calls' \in 0 .. MaxCalls
      BY <1>2, InflightAssumption DEF TypeOK, PE, Slots, None, SkipPE
    <2>4. inbuf' \in [Slots -> PE \cup {None}]
      BY <1>2, InflightAssumption DEF TypeOK, PE, Slots, None, SkipPE
    <2>5. req' \in [Slots -> Slots \cup {0}] /\ map' \in [Slots -> Slots]
      BY <1>2, InflightAssumption DEF TypeOK, PE, Slots, None, SkipPE
    <2>6. applied' \in [PE -> Nat]
      BY <1>2, InflightAssumption DEF TypeOK, PE, Slots, None, SkipPE
    <2> QED
      BY <2>1, <2>2, <2>3, <2>4, <2>5, <2>6 DEF TypeOK
  <1>3. CASE AcquireFree
    <2>1. own' \subseteq PE /\ flying' \subseteq Slots /\ pc' \in {"idle", "acquire", "waitall", "aborted"} /\ rget' \in Builds
      <3>1. in_use + 1 \in Slots /\ flying \subseteq Slots
        BY <1>3, InflightAssumption DEF TypeOK, Slots, AcquireFree
      <3> QED
        BY <1>3, <3>1 DEF TypeOK, AcquireFree
    <2>2. srcPE' \in 0 .. NPE /\ in_use' \in 0 .. MaxInflight /\ remaining' \in 0 .. MaxInflight
      BY <1>3, InflightAssumption DEF TypeOK, PE, Slots, None, AcquireFree, Launch
    <2>3. next_activate' \in Slots /\ calls' \in 0 .. MaxCalls
      BY <1>3, InflightAssumption DEF TypeOK, PE, Slots, None, AcquireFree, Launch
    <2>4. inbuf' \in [Slots -> PE \cup {None}]
      BY <1>3, InflightAssumption DEF TypeOK, PE, Slots, None, AcquireFree, Launch
    <2>5. req' \in [Slots -> Slots \cup {0}] /\ map' \in [Slots -> Slots]
      BY <1>3, InflightAssumption DEF TypeOK, PE, Slots, None, AcquireFree, Launch
    <2>6. applied' \in [PE -> Nat]
      BY <1>3, InflightAssumption DEF TypeOK, PE, Slots, None, AcquireFree, Launch
    <2> QED
      BY <2>1, <2>2, <2>3, <2>4, <2>5, <2>6 DEF TypeOK
  <1>4. CASE AcquireReuse
    <2>1. own' \subseteq PE /\ flying' \subseteq Slots /\ pc' \in {"idle", "acquire", "waitall", "aborted"} /\ rget' \in Builds
      BY <1>4, InflightAssumption DEF TypeOK, PE, Slots, None, AcquireReuse, Launch, Apply, NextActivate
    <2>2. srcPE' \in 0 .. NPE /\ in_use' \in 0 .. MaxInflight /\ remaining' \in 0 .. MaxInflight
      BY <1>4, InflightAssumption DEF TypeOK, PE, Slots, None, AcquireReuse, Launch, Apply, NextActivate
    <2>3. next_activate' \in Slots /\ calls' \in 0 .. MaxCalls
      BY <1>4, InflightAssumption DEF TypeOK, PE, Slots, None, AcquireReuse, Launch, Apply, NextActivate
    <2>4. inbuf' \in [Slots -> PE \cup {None}]
      BY <1>4, InflightAssumption DEF TypeOK, PE, Slots, None, AcquireReuse, Launch, Apply, NextActivate
    <2>5. req' \in [Slots -> Slots \cup {0}] /\ map' \in [Slots -> Slots]
      <3>1. PICK s \in Slots : Apply(s) /\ Launch(s)
        BY <1>4, InflightAssumption DEF AcquireReuse, TypeOK, Slots
      <3>2. req' \in [Slots -> Slots \cup {0}]
        BY <3>1 DEF TypeOK, Launch
      <3> QED
        BY <1>4, <3>2 DEF AcquireReuse, TypeOK
    <2>6. applied' \in [PE -> Nat]
      <3>1. PICK s \in Slots : Apply(s) /\ Launch(s)
        BY <1>4, InflightAssumption DEF AcquireReuse, TypeOK, Slots
      <3> QED
        BY <3>1, ApplyType
    <2> QED
      BY <2>1, <2>2, <2>3, <2>4, <2>5, <2>6 DEF TypeOK
  <1>5. CASE BeginWaitall
    <2>1. own' \subseteq PE /\ flying' \subseteq Slots /\ pc' \in {"idle", "acquire", "waitall", "aborted"} /\ rget' \in Builds
      BY <1>5, InflightAssumption DEF TypeOK, PE, Slots, None, BeginWaitall, Pending
    <2>2. srcPE' \in 0 .. NPE /\ in_use' \in 0 .. MaxInflight /\ remaining' \in 0 .. MaxInflight
      BY <1>5, InflightAssumption DEF TypeOK, PE, Slots, None, BeginWaitall, Pending
    <2>3. next_activate' \in Slots /\ calls' \in 0 .. MaxCalls
      BY <1>5, InflightAssumption DEF TypeOK, PE, Slots, None, BeginWaitall, Pending
    <2>4. inbuf' \in [Slots -> PE \cup {None}]
      BY <1>5, InflightAssumption DEF TypeOK, PE, Slots, None, BeginWaitall, Pending
    <2>5. req' \in [Slots -> Slots \cup {0}] /\ map' \in [Slots -> Slots]
      BY <1>5, InflightAssumption DEF TypeOK, PE, Slots, None, BeginWaitall, Pending
    <2>6. applied' \in [PE -> Nat]
      BY <1>5, InflightAssumption DEF TypeOK, PE, Slots, None, BeginWaitall, Pending
    <2> QED
      BY <2>1, <2>2, <2>3, <2>4, <2>5, <2>6 DEF TypeOK
  <1>6. CASE WaitRequest
    <2>1. own' \subseteq PE /\ flying' \subseteq Slots /\ pc' \in {"idle", "acquire", "waitall", "aborted"} /\ rget' \in Builds
      BY <1>6, InflightAssumption DEF TypeOK, PE, Slots, None, WaitRequest, Apply, MovedMap
    <2>2. srcPE' \in 0 .. NPE /\ in_use' \in 0 .. MaxInflight /\ remaining' \in 0 .. MaxInflight
      BY <1>6, InflightAssumption DEF TypeOK, PE, Slots, None, WaitRequest, Apply, MovedMap
    <2>3. next_activate' \in Slots /\ calls' \in 0 .. MaxCalls
      BY <1>6, InflightAssumption DEF TypeOK, PE, Slots, None, WaitRequest, Apply, MovedMap
    <2>4. inbuf' \in [Slots -> PE \cup {None}]
      BY <1>6, InflightAssumption DEF TypeOK, PE, Slots, None, WaitRequest, Apply, MovedMap
    <2>5. req' \in [Slots -> Slots \cup {0}] /\ map' \in [Slots -> Slots]
      <3>1. PICK i \in 1 .. remaining :
               /\ map' = MovedMap(i)
               /\ req' = [req EXCEPT ![i] = req[remaining], ![remaining] = 0]
        BY <1>6 DEF WaitRequest
      <3>2. i \in Slots /\ remaining \in Slots
        BY <1>6, InflightAssumption DEF WaitRequest, TypeOK, Slots
      <3> QED
        BY <3>1, <3>2 DEF MovedMap, TypeOK
    <2>6. applied' \in [PE -> Nat]
      <3>1. PICK i \in 1 .. remaining :
               IF map[i] = req[i] THEN Apply(map[i]) ELSE UNCHANGED applied
        BY <1>6 DEF WaitRequest
      <3>2. i \in Slots
        BY InflightAssumption DEF TypeOK, Slots
      <3>3. map[i] \in Slots
        BY <3>2 DEF TypeOK
      <3> QED
        BY <3>1, <3>3, ApplyType DEF TypeOK
    <2> QED
      BY <2>1, <2>2, <2>3, <2>4, <2>5, <2>6 DEF TypeOK
  <1>7. CASE WaitUnlock
    <2>1. own' \subseteq PE /\ flying' \subseteq Slots /\ pc' \in {"idle", "acquire", "waitall", "aborted"} /\ rget' \in Builds
      BY <1>7, InflightAssumption DEF TypeOK, PE, Slots, None, WaitUnlock, Apply
    <2>2. srcPE' \in 0 .. NPE /\ in_use' \in 0 .. MaxInflight /\ remaining' \in 0 .. MaxInflight
      <3>1. remaining' \in {remaining, remaining - 1} /\ remaining > 0
        BY <1>7 DEF WaitUnlock
      <3> QED
        BY <1>7, <3>1, InflightAssumption DEF TypeOK, WaitUnlock
    <2>3. next_activate' \in Slots /\ calls' \in 0 .. MaxCalls
      BY <1>7, InflightAssumption DEF TypeOK, PE, Slots, None, WaitUnlock, Apply
    <2>4. inbuf' \in [Slots -> PE \cup {None}]
      BY <1>7, InflightAssumption DEF TypeOK, PE, Slots, None, WaitUnlock, Apply
    <2>5. req' \in [Slots -> Slots \cup {0}] /\ map' \in [Slots -> Slots]
      BY <1>7, InflightAssumption DEF TypeOK, PE, Slots, None, WaitUnlock, Apply
    <2>6. applied' \in [PE -> Nat]
      <3>1. Acquired \in Slots
        BY InflightAssumption DEF TypeOK, Slots, Acquired
      <3>2. Apply(Acquired) \/ UNCHANGED applied
        BY <1>7 DEF WaitUnlock
      <3> QED
        BY <3>1, <3>2, ApplyType DEF TypeOK
    <2> QED
      BY <2>1, <2>2, <2>3, <2>4, <2>5, <2>6 DEF TypeOK
  <1>8. CASE EndWaitall
    <2>1. own' \subseteq PE /\ flying' \subseteq Slots /\ pc' \in {"idle", "acquire", "waitall", "aborted"} /\ rget' \in Builds
      BY <1>8, InflightAssumption DEF TypeOK, PE, Slots, None, EndWaitall
    <2>2. srcPE' \in 0 .. NPE /\ in_use' \in 0 .. MaxInflight /\ remaining' \in 0 .. MaxInflight
      BY <1>8, InflightAssumption DEF TypeOK, PE, Slots, None, EndWaitall
    <2>3. next_activate' \in Slots /\ calls' \in 0 .. MaxCalls
      BY <1>8, InflightAssumption DEF TypeOK, PE, Slots, None, EndWaitall
    <2>4. inbuf' \in [Slots -> PE \cup {None}]
      BY <1>8, InflightAssumption DEF TypeOK, PE, Slots, None, EndWaitall
    <2>5. req' \in [Slots -> Slots \cup {0}] /\ map' \in [Slots -> Slots]
      BY <1>8, InflightAssumption DEF TypeOK, PE, Slots, None, EndWaitall
    <2>6. applied' \in [PE -> Nat]
      BY <1>8, InflightAssumption DEF TypeOK, PE, Slots, None, EndWaitall
    <2> QED
      BY <2>1, <2>2, <2>3, <2>4, <2>5, <2>6 DEF TypeOK
  <1>9. CASE UNCHANGED vars
    <2>1. own' \subseteq PE /\ flying' \subseteq Slots /\ pc' \in {"idle", "acquire", "waitall", "aborted"} /\ rget' \in Builds
      BY <1>9, InflightAssumption DEF TypeOK, PE, Slots, None, vars
    <2>2. srcPE' \in 0 .. NPE /\ in_use' \in 0 .. MaxInflight /\ remaining' \in 0 .. MaxInflight
      BY <1>9, InflightAssumption DEF TypeOK, PE, Slots, None, vars
    <2>3. next_activate' \in Slots /\ calls' \in 0 .. MaxCalls
      BY <1>9, InflightAssumption DEF TypeOK, PE, Slots, None, vars
    <2>4. inbuf' \in [Slots -> PE \cup {None}]
      BY <1>9, InflightAssumption DEF TypeOK, PE, Slots, None, vars
    <2>5. req' \in [Slots -> Slots \cup {0}] /\ map' \in [Slots -> Slots]
      BY <1>9, InflightAssumption DEF TypeOK, PE, Slots, None, vars
    <2>6. applied' \in [PE -> Nat]
      BY <1>9, InflightAssumption DEF TypeOK, PE, Slots, None, vars
    <2> QED
      BY <2>1, <2>2, <2>3, <2>4, <2>5, <2>6 DEF TypeOK
  <1> QED
    BY <1>1, <1>2, <1>3, <1>4, <1>5, <1>6, <1>7, <1>8, <1>9 DEF Next, Finished

LEMMA Bounds ==
    ASSUME TypeOK
    PROVE  /\ None = NPE /\ None \notin PE /\ NPE \in Nat
           /\ \A s \in Slots : s \in Nat /\ s > 0 /\ s <= MaxInflight
           /\ \A p \in PE : p \in Nat /\ p < NPE
           /\ \A n \in Nat : n > 0 /\ n <= MaxInflight => n \in Slots
           /\ \A n \in Nat : n < NPE => n \in PE
           /\ srcPE \in Nat /\ in_use \in Nat /\ in_use <= MaxInflight
           /\ remaining \in Nat /\ remaining <= MaxInflight /\ srcPE <= NPE
           /\ inbuf \in [Slots -> PE \cup {None}] /\ req \in [Slots -> Slots \cup {0}]
           /\ map \in [Slots -> Slots] /\ flying \subseteq Slots
           /\ applied \in [PE -> Nat] /\ own \subseteq PE
  <1>1. /\ None = NPE /\ None \notin PE /\ NPE \in Nat
        /\ \A s \in Slots : s \in Nat /\ s > 0 /\ s <= MaxInflight
        /\ \A p \in PE : p \in Nat /\ p < NPE
        /\ \A n \in Nat : n > 0 /\ n <= MaxInflight => n \in Slots
        /\ \A n \in Nat : n < NPE => n \in PE
    BY InflightAssumption DEF None, PE, Slots
  <1>2. /\ srcPE \in Nat /\ in_use \in Nat /\ in_use <= MaxInflight
        /\ remaining \in Nat /\ remaining <= MaxInflight /\ srcPE <= NPE
        /\ inbuf \in [Slots -> PE \cup {None}] /\ req \in [Slots -> Slots \cup {0}]
        /\ map \in [Slots -> Slots] /\ flying \subseteq Slots
        /\ applied \in [PE -> Nat] /\ own \subseteq PE
    BY InflightAssumption DEF TypeOK
  <1> QED
    BY <1>1, <1>2

(* A get into a free slot: no slot was fetching from that PE yet.          *)
LEMMA FreeParts ==
    ASSUME TypeOK, PartsMatch, flying = 1 .. in_use, AcquireFree
    PROVE  /\ PartsMatch' /\ flying' = 1 .. in_use'
           /\ in_use + 1 \in Slots /\ in_use' = in_use + 1
  <1> DEFINE s == in_use + 1
  <1>1. s \in Slots /\ s \notin flying /\ flying' = flying \cup {s} /\ flying' = 1 .. s
    <2>1. in_use < MaxInflight /\ flying' = flying \cup {s}
      BY DEF AcquireFree
    <2>2. s \in Slots
      BY <2>1, Bounds, InflightAssumption DEF Slots
    <2> QED
      BY <2>1, <2>2, Bounds
  <1>2. /\ inbuf' = [inbuf EXCEPT ![s] = srcPE]
        /\ srcPE' = srcPE + 1 /\ in_use' = s /\ srcPE \in own /\ srcPE < NPE
        /\ pc = "acquire" /\ pc' = pc /\ own' = own /\ applied' = applied
    BY Bounds DEF AcquireFree, Launch
  <1> HIDE DEF s
  <1>3. /\ \A t \in Slots \ flying' : inbuf'[t] = None
        /\ \A t \in flying' : inbuf'[t] \in own' /\ inbuf'[t] < srcPE'
        /\ \A t, u \in flying' : inbuf'[t] = inbuf'[u] => t = u
    <2>1. \A t \in Slots \ {s} : inbuf'[t] = inbuf[t]
      BY <1>1, <1>2, Bounds
    <2>2. inbuf'[s] = srcPE
      BY <1>1, <1>2, Bounds
    <2>3. \A t \in flying : inbuf[t] \in own /\ inbuf[t] < srcPE /\ inbuf[t] \in Nat
      BY Bounds DEF PartsMatch
    <2>4. \A t \in flying' : inbuf'[t] \in own' /\ inbuf'[t] < srcPE'
      BY <1>1, <1>2, <2>1, <2>2, <2>3, Bounds
    <2>5. \A t, u \in flying' : inbuf'[t] = inbuf'[u] => t = u
      <3>1. \A t, u \in flying : inbuf[t] = inbuf[u] => t = u
        BY DEF PartsMatch
      <3>2. srcPE \in Nat /\ flying \subseteq Slots
        BY Bounds
      <3> QED
        BY <1>1, <2>1, <2>2, <2>3, <3>1, <3>2
    <2>6. \A t \in Slots \ flying' : inbuf'[t] = None
      BY <1>1, <2>1 DEF PartsMatch
    <2> QED
      BY <2>4, <2>5, <2>6
  <1>4. ASSUME NEW p \in PE
        PROVE  applied'[p] = IF /\ p \in own' /\ p < srcPE'
                                /\ \A t \in flying' : inbuf'[t] # p
                             THEN 1 ELSE 0
    <2>1. applied[p] = IF p \in own /\ p < srcPE /\ \A t \in flying : inbuf[t] # p
                       THEN 1 ELSE 0
      BY <1>2 DEF PartsMatch
    <2>2. CASE p = srcPE
      BY <1>1, <1>2, <2>1, <2>2, Bounds
    <2>3. CASE p # srcPE
      BY <1>1, <1>2, <2>1, <2>3, Bounds
    <2> QED
      BY <2>2, <2>3
  <1>5. PartsMatch'
    BY <1>3, <1>4 DEF PartsMatch
  <1> QED
    BY <1>1, <1>2, <1>5 DEF s

(* The part in slot s is applied, and the slot fetches from the next PE.   *)
LEMMA ReuseParts ==
    ASSUME TypeOK, PartsMatch, NEW s \in flying, Apply(s),
           inbuf' = [inbuf EXCEPT ![s] = srcPE], srcPE' = srcPE + 1,
           srcPE \in own, pc = "acquire", UNCHANGED <<pc, own, flying>>
    PROVE  PartsMatch'
  <1>1. s \in Slots /\ srcPE < NPE
    BY Bounds
  <1>2. applied' = [applied EXCEPT ![inbuf[s]] = @ + 1]
    BY DEF Apply
  <1>3. inbuf[s] \in own /\ inbuf[s] < srcPE
    BY DEF PartsMatch
  <1>4. /\ \A t \in Slots \ flying' : inbuf'[t] = None
        /\ \A t \in flying' : inbuf'[t] \in own' /\ inbuf'[t] < srcPE'
        /\ \A t, u \in flying' : inbuf'[t] = inbuf'[u] => t = u
    <2>1. \A t \in Slots \ {s} : inbuf'[t] = inbuf[t]
      BY <1>1, Bounds
    <2>2. inbuf'[s] = srcPE
      BY <1>1, Bounds
    <2>3. \A t \in flying : inbuf[t] \in own /\ inbuf[t] < srcPE /\ inbuf[t] \in Nat
      BY Bounds DEF PartsMatch
    <2>4. \A t \in flying' : inbuf'[t] \in own' /\ inbuf'[t] < srcPE'
      BY <1>1, <2>1, <2>2, <2>3, Bounds
    <2>5. \A t, u \in flying' : inbuf'[t] = inbuf'[u] => t = u
      <3>1. \A t, u \in flying : inbuf[t] = inbuf[u] => t = u
        BY DEF PartsMatch
      <3>2. srcPE \in Nat /\ flying \subseteq Slots
        BY Bounds
      <3> QED
        BY <1>1, <2>1, <2>2, <2>3, <3>1, <3>2
    <2>6. \A t \in Slots \ flying' : inbuf'[t] = None
      BY <1>1, <2>1 DEF PartsMatch
    <2> QED
      BY <2>4, <2>5, <2>6
  <1>5. ASSUME NEW p \in PE
        PROVE  applied'[p] = IF /\ p \in own' /\ p < srcPE'
                                /\ \A t \in flying' : inbuf'[t] # p
                             THEN 1 ELSE 0
    <2>1. applied[p] = IF p \in own /\ p < srcPE /\ \A t \in flying : inbuf[t] # p
                       THEN 1 ELSE 0
      BY DEF PartsMatch
    <2>2. CASE p = srcPE
      <3>1. applied'[p] = 0
        BY <1>2, <1>3, <2>1, <2>2, Bounds
      <3>2. s \in flying' /\ inbuf'[s] = p
        BY <1>1, <2>2, Bounds
      <3> QED
        BY <3>1, <3>2
    <2>3. CASE p = inbuf[s]
      <3>1. applied'[p] = 1
        BY <1>2, <2>1, <2>3, Bounds
      <3>2. \A t \in flying' : inbuf'[t] # p
        BY <1>1, <1>3, <2>3, Bounds DEF PartsMatch
      <3> QED
        BY <1>3, <2>3, <3>1, <3>2, Bounds
    <2>4. CASE p # srcPE /\ p # inbuf[s]
      <3>1. applied'[p] = applied[p]
        BY <1>2, <2>4, Bounds
      <3>2. (\A t \in flying' : inbuf'[t] # p) <=> (\A t \in flying : inbuf[t] # p)
        BY <2>4, Bounds
      <3> QED
        BY <2>1, <2>4, <3>1, <3>2, Bounds
    <2> QED
      BY <2>2, <2>3, <2>4
  <1> QED
    BY <1>4, <1>5 DEF PartsMatch

(* The part in slot s is applied, and the slot is free.                    *)
LEMMA FreedParts ==
    ASSUME TypeOK, PartsMatch, NEW s \in flying, Apply(s),
           inbuf' = [inbuf EXCEPT ![s] = None], flying' = flying \ {s},
           pc = "waitall", UNCHANGED <<pc, own, srcPE>>
    PROVE  PartsMatch'
  <1>1. s \in Slots
    BY Bounds
  <1>2. applied' = [applied EXCEPT ![inbuf[s]] = @ + 1]
    BY DEF Apply
  <1>3. inbuf[s] \in own /\ inbuf[s] < srcPE
    BY DEF PartsMatch
  <1>4. /\ \A t \in Slots \ flying' : inbuf'[t] = None
        /\ \A t \in flying' : inbuf'[t] \in own' /\ inbuf'[t] < srcPE'
        /\ \A t, u \in flying' : inbuf'[t] = inbuf'[u] => t = u
    BY <1>1, Bounds DEF PartsMatch
  <1>5. ASSUME NEW p \in PE
        PROVE  applied'[p] = IF /\ p \in own' /\ p < srcPE'
                                /\ \A t \in flying' : inbuf'[t] # p
                             THEN 1 ELSE 0
    <2>1. applied[p] = IF p \in own /\ p < srcPE /\ \A t \in flying : inbuf[t] # p
                       THEN 1 ELSE 0
      BY DEF PartsMatch
    <2>2. CASE p = inbuf[s]
      <3>1. applied'[p] = 1
        BY <1>2, <2>1, <2>2, Bounds
      <3>2. \A t \in flying' : inbuf'[t] # p
        BY <1>1, <2>2, Bounds DEF PartsMatch
      <3> QED
        BY <1>3, <2>2, <3>1, <3>2
    <2>3. CASE p # inbuf[s]
      <3>1. applied'[p] = applied[p]
        BY <1>2, <2>3, Bounds
      <3>2. (\A t \in flying' : inbuf'[t] # p) <=> (\A t \in flying : inbuf[t] # p)
        BY <1>1, <2>3, Bounds
      <3> QED
        BY <2>1, <3>1, <3>2
    <2> QED
      BY <2>2, <2>3
  <1> QED
    BY <1>4, <1>5 DEF PartsMatch

LEMMA InitPool == Init => PoolInv
  BY InflightAssumption DEF Init, PoolInv, RequestsMatch, PartsMatch, Slots, PE, None

LEMMA PoolStep ==
    ASSUME rget, TypeOK, PoolInv, [Next]_vars PROVE PoolInv'
  <1>0. /\ None = NPE /\ None \notin PE /\ NPE \in Nat
        /\ \A s \in Slots : s \in Nat /\ s > 0 /\ s <= MaxInflight
        /\ \A p \in PE : p \in Nat /\ p < NPE
        /\ \A n \in Nat : n > 0 /\ n <= MaxInflight => n \in Slots
        /\ \A n \in Nat : n < NPE => n \in PE
    BY InflightAssumption DEF None, PE, Slots
  <1>t. /\ srcPE \in Nat /\ in_use \in Nat /\ in_use <= MaxInflight
        /\ remaining \in Nat /\ remaining <= MaxInflight /\ srcPE <= NPE
        /\ inbuf \in [Slots -> PE \cup {None}] /\ req \in [Slots -> Slots \cup {0}]
        /\ map \in [Slots -> Slots] /\ flying \subseteq Slots
        /\ applied \in [PE -> Nat] /\ own \subseteq PE
    BY InflightAssumption DEF TypeOK
  <1>1. ASSUME NEW S \in SUBSET PE, Iterate(S) PROVE PoolInv'
    <2>1. RequestsMatch'
      BY <1>1, <1>0, <1>t DEF Iterate, PoolInv, RequestsMatch
    <2>2. PartsMatch'
      BY <1>1, <1>0, <1>t DEF Iterate, PoolInv, RequestsMatch, PartsMatch
    <2> QED
      BY <1>1, <2>1, <2>2 DEF PoolInv, Iterate
  <1>2. CASE SkipPE
    <2>1. RequestsMatch'
      BY <1>2, <1>0, <1>t DEF SkipPE, PoolInv, RequestsMatch
    <2>2. PartsMatch'
      BY <1>2, <1>0, <1>t DEF SkipPE, PoolInv, PartsMatch
    <2> QED
      BY <1>2, <2>1, <2>2 DEF PoolInv, SkipPE
  <1>3. CASE AcquireFree
    <2> DEFINE s == in_use + 1
    <2>1. flying = 1 .. in_use /\ pc = "acquire" /\ pc' = pc /\ PartsMatch
      BY <1>3 DEF AcquireFree, PoolInv, RequestsMatch
    <2>2. PartsMatch' /\ flying' = 1 .. in_use' /\ s \in Slots /\ in_use' = s
      BY <1>3, <2>1, FreeParts
    <2>3. req' = [req EXCEPT ![s] = s] /\ flying' = flying \cup {s}
      BY <1>3 DEF AcquireFree, Launch
    <2>4. \A t \in Slots : req'[t] = IF t \in flying' THEN t ELSE 0
      BY <2>1, <2>2, <2>3, <1>t DEF PoolInv, RequestsMatch
    <2>5. RequestsMatch'
      BY <2>1, <2>2, <2>4 DEF RequestsMatch
    <2> QED
      BY <2>1, <2>2, <2>5 DEF PoolInv
  <1>4. CASE AcquireReuse
    <2>1. PICK s \in Slots : req[s] # 0 /\ Apply(s) /\ Launch(s)
      BY <1>4 DEF AcquireReuse
    <2>2. s \in flying /\ req[s] = s
      BY <1>4, <2>1 DEF AcquireReuse, PoolInv, RequestsMatch
    <2>3. /\ inbuf' = [inbuf EXCEPT ![s] = srcPE] /\ req' = [req EXCEPT ![s] = s]
          /\ srcPE' = srcPE + 1 /\ in_use' = in_use /\ srcPE \in own
          /\ pc = "acquire" /\ UNCHANGED <<pc, own, flying>>
      BY <1>4, <2>1 DEF AcquireReuse, Launch
    <2>4. RequestsMatch'
      BY <2>2, <2>3, <1>t DEF PoolInv, RequestsMatch
    <2>5. PartsMatch'
      BY <2>1, <2>2, <2>3, ReuseParts DEF PoolInv
    <2> QED
      BY <2>3, <2>4, <2>5 DEF PoolInv
  <1>5. CASE BeginWaitall
    <2>1. /\ pc = "acquire" /\ pc' = "waitall" /\ srcPE = NPE /\ srcPE' = srcPE
          /\ remaining' = in_use /\ map' = [s \in Slots |-> s]
          /\ inbuf' = inbuf /\ req' = req /\ flying' = flying /\ own' = own
          /\ applied' = applied
      BY <1>5 DEF BeginWaitall, Pending
    <2>2. flying = 1 .. in_use
      BY <2>1 DEF PoolInv, RequestsMatch
    <2>3. RequestsMatch'
      BY <2>1, <2>2, <1>0, <1>t DEF PoolInv, RequestsMatch
    <2>4. PartsMatch'
      BY <2>1 DEF PoolInv, PartsMatch
    <2> QED
      BY <2>1, <2>3, <2>4 DEF PoolInv
  <1>6. CASE WaitRequest
    <2>1. PICK i \in 1 .. remaining :
             /\ req[i] # 0
             /\ IF map[i] = req[i] THEN Apply(map[i]) ELSE UNCHANGED applied
             /\ flying' = flying \ {req[i]}
             /\ inbuf' = [inbuf EXCEPT ![map[i]] = None]
             /\ map' = MovedMap(i)
             /\ req' = [req EXCEPT ![i] = req[remaining], ![remaining] = 0]
      BY <1>6 DEF WaitRequest
    <2>2. /\ pc = "waitall" /\ pc' = pc /\ srcPE' = srcPE /\ own' = own
          /\ remaining > 0 /\ remaining' = remaining - 1
      BY <1>6 DEF WaitRequest
    <2> DEFINE s == map[i]
    <2>3. i \in Slots /\ remaining \in Slots /\ i <= remaining
      BY <2>2, <1>t, InflightAssumption DEF Slots
    <2>4. s \in Slots /\ req[i] = s /\ s \in flying
      BY <2>1, <2>2, <2>3, <1>t DEF PoolInv, RequestsMatch
    <2>5. applied' = [applied EXCEPT ![inbuf[s]] = @ + 1] /\ flying' = flying \ {s}
      BY <2>1, <2>4 DEF Apply
    <2>6. map' = [map EXCEPT ![i] = map[remaining], ![remaining] = s]
      BY <2>1 DEF MovedMap
    <2>7. RequestsMatch'
      <3>1. \A j, k \in Slots : map'[j] = map'[k] => j = k
        BY <2>2, <2>3, <2>6, <1>t DEF PoolInv, RequestsMatch
      <3>2. \A j \in Slots : req'[j] = IF j <= remaining' THEN map'[j] ELSE 0
        BY <2>1, <2>2, <2>3, <2>6, <1>0, <1>t DEF PoolInv, RequestsMatch
      <3>3. ASSUME NEW t \in Slots
            PROVE  t \in flying' <=> \E j \in 1 .. remaining' : map'[j] = t
        <4>1. t \in flying <=> \E j \in 1 .. remaining : map[j] = t
          BY <2>2 DEF PoolInv, RequestsMatch
        <4>2. ASSUME NEW j \in 1 .. remaining, map[j] = t, t # s
              PROVE  \E k \in 1 .. remaining' : map'[k] = t
          <5>1. CASE j = remaining
            <6>1. i # remaining /\ i \in 1 .. remaining'
              BY <2>1, <2>2, <4>2, <5>1, <1>t
            <6>2. map'[i] = t
              BY <2>3, <2>6, <4>2, <5>1, <6>1, <1>t
            <6> QED
              BY <6>1, <6>2
          <5>2. CASE j # remaining
            <6>1. j # i /\ j \in 1 .. remaining' /\ j \in Slots
              BY <2>2, <4>2, <5>2, <1>t, InflightAssumption DEF s, Slots
            <6>2. map'[j] = t
              BY <2>3, <2>6, <4>2, <5>2, <6>1, <1>t
            <6> QED
              BY <6>1, <6>2
          <5> QED
            BY <5>1, <5>2
        <4>3. ASSUME NEW j \in 1 .. remaining', map'[j] = t
              PROVE  t # s /\ \E k \in 1 .. remaining : map[k] = t
          <5>1. j \in Slots /\ j # remaining /\ j \in 1 .. remaining
            BY <2>2, <1>t, InflightAssumption DEF Slots
          <5>2. map'[remaining] = s
            BY <2>3, <2>6, <1>t
          <5>3. t # s
            BY <3>1, <4>3, <5>1, <5>2, <2>3
          <5>4. map'[j] \in {map[j], map[remaining]}
            BY <2>3, <2>6, <5>1, <1>t
          <5> QED
            BY <2>3, <4>3, <5>1, <5>3, <5>4, <1>t
        <4> QED
          BY <2>5, <4>1, <4>2, <4>3
      <3>4. srcPE' = NPE
        BY <2>2 DEF PoolInv, RequestsMatch
      <3> QED
        BY <2>2, <3>1, <3>2, <3>3, <3>4 DEF RequestsMatch
    <2> HIDE DEF s
    <2>8. inbuf' = [inbuf EXCEPT ![s] = None]
      BY <2>1 DEF s
    <2>9. PartsMatch'
      BY <2>1, <2>2, <2>4, <2>5, <2>8, FreedParts DEF PoolInv, s
    <2> QED
      BY <2>2, <2>7, <2>9 DEF PoolInv
  <1>7. CASE WaitUnlock
    BY <1>7 DEF WaitUnlock
  <1>8. CASE EndWaitall
    <2>1. /\ pc = "waitall" /\ pc' = "idle" /\ remaining = 0 /\ in_use' = 0
          /\ srcPE' = srcPE /\ inbuf' = inbuf /\ req' = req /\ flying' = flying
          /\ own' = own /\ applied' = applied
      BY <1>8 DEF EndWaitall
    <2>2. flying = {}
      BY <2>1, <1>t DEF PoolInv, RequestsMatch
    <2>3. \A i \in Slots : req[i] = 0
      BY <2>1, <1>0 DEF PoolInv, RequestsMatch
    <2> QED
      BY <2>1, <2>2, <2>3 DEF PoolInv, RequestsMatch, PartsMatch
  <1>9. CASE UNCHANGED vars
    BY <1>9 DEF vars, PoolInv, RequestsMatch, PartsMatch
  <1> QED
    BY <1>1, <1>2, <1>3, <1>4, <1>5, <1>6, <1>7, <1>8, <1>9 DEF Next, Finished

LEMMA BuildKept == [Next]_vars => rget' = rget
  BY DEF Next, Iterate, SkipPE, AcquireFree, AcquireReuse, BeginWaitall,
     WaitRequest, WaitUnlock, EndWaitall, Finished, vars

(* With MPI_Rget the pool serves any number of PEs: requests, slots and    *)
(* parts stay matched, whatever the order of completion.                   *)
THEOREM PoolMatched == Spec => []PoolInv
  <1>1. ASSUME TypeOK, PoolInv, [Next]_vars PROVE TypeOK' /\ PoolInv'
    <2>1. CASE rget
      BY <1>1, <2>1, PoolStep, StepType
    <2>2. CASE ~rget
      <3>1. ~rget'
        BY <1>1, <2>2, BuildKept
      <3> QED
        BY <1>1, <3>1, StepType DEF PoolInv
    <2> QED
      BY <2>1, <2>2
  <1> QED
    BY <1>1, InitType, InitPool, PTL DEF Spec

(* Why, without MPI_Rget: there are as many gets under way as waitall has  *)
(* yet to unlock, so that, unless an unlock hits a free slot and the call  *)
(* aborts, it ends with all of them unlocked.                              *)
EpochInv ==
    ~rget =>
        /\ PartsMatch
        /\ \A s \in Slots : req[s] = 0
        /\ pc = "idle" => flying = {} /\ in_use = 0
        /\ pc = "acquire" => flying = 1 .. in_use
        /\ pc = "waitall" =>
              /\ srcPE = NPE
              /\ IsFiniteSet(flying) /\ Cardinality(flying) = remaining

LEMMA InitEpoch == Init => EpochInv
  BY InflightAssumption DEF Init, EpochInv, PartsMatch, Slots, PE, None

LEMMA EpochStep ==
    ASSUME ~rget, TypeOK, EpochInv, [Next]_vars PROVE EpochInv'
  <1>0. /\ None = NPE /\ None \notin PE /\ NPE \in Nat /\ MaxInflight \in Nat \ {0}
        /\ \A s \in Slots : s \in Nat /\ s > 0 /\ s <= MaxInflight
        /\ \A p \in PE : p \in Nat /\ p < NPE
        /\ srcPE \in Nat /\ in_use \in Nat /\ in_use <= MaxInflight /\ srcPE <= NPE
        /\ remaining \in Nat /\ remaining <= MaxInflight
        /\ inbuf \in [Slots -> PE \cup {None}] /\ flying \subseteq Slots
        /\ applied \in [PE -> Nat] /\ own \subseteq PE
    BY Bounds, InflightAssumption
  <1>i. /\ PartsMatch
        /\ \A s \in Slots : req[s] = 0
        /\ pc = "idle" => flying = {} /\ in_use = 0
        /\ pc = "acquire" => flying = 1 .. in_use
        /\ pc = "waitall" => /\ srcPE = NPE
                             /\ IsFiniteSet(flying) /\ Cardinality(flying) = remaining
    BY DEF EpochInv
  <1>1. ASSUME NEW S \in SUBSET PE, Iterate(S) PROVE EpochInv'
    <2>1. /\ pc = "idle" /\ pc' = "acquire" /\ own' = S /\ srcPE' = 0
          /\ applied' = [p \in PE |-> 0] /\ UNCHANGED <<rget, in_use, inbuf, req, flying>>
      BY <1>1 DEF Iterate
    <2>2. flying' = 1 .. in_use'
      BY <1>i, <2>1
    <2>3. PartsMatch'
      BY <1>0, <1>i, <2>1 DEF PartsMatch
    <2> QED
      BY <1>i, <2>1, <2>2, <2>3 DEF EpochInv
  <1>2. CASE SkipPE
    <2>1. /\ pc = "acquire" /\ srcPE < NPE /\ srcPE \notin own /\ srcPE' = srcPE + 1
          /\ UNCHANGED <<rget, pc, own, in_use, inbuf, req, flying, applied>>
      BY <1>2 DEF SkipPE
    <2>2. PartsMatch'
      BY <1>0, <1>i, <2>1 DEF PartsMatch
    <2> QED
      BY <1>i, <2>1, <2>2 DEF EpochInv
  <1>3. CASE AcquireFree
    <2>1. pc = "acquire" /\ UNCHANGED <<rget, pc, req>>
      BY <1>3 DEF AcquireFree, Launch
    <2>2. PartsMatch' /\ flying' = 1 .. in_use'
      BY <1>3, <1>i, <2>1, FreeParts
    <2> QED
      BY <1>i, <2>1, <2>2 DEF EpochInv
  <1>4. CASE AcquireReuse
    <2> DEFINE s == next_activate
    <2>1. /\ Apply(s) /\ inbuf' = [inbuf EXCEPT ![s] = srcPE] /\ srcPE' = srcPE + 1
          /\ pc = "acquire" /\ srcPE \in own /\ in_use = MaxInflight
          /\ UNCHANGED <<rget, pc, own, flying, in_use, req>>
      BY <1>4 DEF AcquireReuse, Launch
    <2>2. s \in flying
      BY <1>0, <1>i, <2>1 DEF TypeOK, Slots
    <2>3. PartsMatch'
      BY <1>i, <2>1, <2>2, ReuseParts
    <2> QED
      BY <1>i, <2>1, <2>3 DEF EpochInv
  <1>5. CASE BeginWaitall
    <2>1. /\ pc = "acquire" /\ srcPE = NPE /\ pc' = "waitall" /\ remaining' = in_use
          /\ UNCHANGED <<rget, own, srcPE, inbuf, req, flying, applied>>
      BY <1>5 DEF BeginWaitall, Pending
    <2>2. IsFiniteSet(1 .. in_use) /\ Cardinality(1 .. in_use) = in_use
      BY <1>0, FS_Interval
    <2>3. PartsMatch'
      BY <1>i, <2>1 DEF PartsMatch
    <2> QED
      BY <1>i, <2>1, <2>2, <2>3 DEF EpochInv
  <1>6. CASE WaitRequest
    BY <1>6 DEF WaitRequest
  <1>7. CASE WaitUnlock
    <2> DEFINE s == Acquired
    <2>0. /\ pc = "waitall" /\ remaining > 0
          /\ UNCHANGED <<rget, own, srcPE, req>>
      BY <1>7 DEF WaitUnlock
    <2>1. CASE inbuf[s] = None
      <3>1. pc' = "aborted" /\ UNCHANGED <<inbuf, flying, applied>>
        BY <1>7, <2>1 DEF WaitUnlock
      <3>2. PartsMatch'
        BY <1>i, <2>0, <3>1 DEF PartsMatch
      <3> QED
        BY <1>i, <2>0, <3>1, <3>2 DEF EpochInv
    <2>2. CASE inbuf[s] # None
      <3>1. /\ Apply(s) /\ flying' = flying \ {s} /\ inbuf' = [inbuf EXCEPT ![s] = None]
            /\ remaining' = remaining - 1 /\ UNCHANGED pc
        BY <1>7, <2>2 DEF WaitUnlock
      <3>2. s \in flying
        <4>1. s \in Slots
          BY InflightAssumption DEF TypeOK, Slots, Acquired
        <4> QED
          BY <1>i, <2>2, <4>1 DEF PartsMatch
      <3>3. PartsMatch'
        BY <1>i, <2>0, <3>1, <3>2, FreedParts
      <3>4. IsFiniteSet(flying \ {s}) /\ Cardinality(flying \ {s}) = remaining - 1
        BY <1>i, <2>0, <3>2, FS_RemoveElement
      <3> QED
        BY <1>i, <2>0, <3>1, <3>3, <3>4 DEF EpochInv
    <2> QED
      BY <2>1, <2>2
  <1>8. CASE EndWaitall
    <2>1. /\ pc = "waitall" /\ remaining = 0 /\ pc' = "idle" /\ in_use' = 0
          /\ UNCHANGED <<rget, own, srcPE, inbuf, req, flying, applied>>
      BY <1>8 DEF EndWaitall
    <2>2. flying = {}
      BY <1>i, <2>1, FS_EmptySet
    <2> QED
      BY <1>i, <2>1, <2>2 DEF EpochInv, PartsMatch
  <1>9. CASE UNCHANGED vars
    BY <1>9 DEF vars, EpochInv, PartsMatch
  <1> QED
    BY <1>1, <1>2, <1>3, <1>4, <1>5, <1>6, <1>7, <1>8, <1>9 DEF Next, Finished

LEMMA EpochsHold == Spec => []EpochInv
  <1>1. ASSUME TypeOK, EpochInv, [Next]_vars PROVE TypeOK' /\ EpochInv'
    <2>1. CASE ~rget
      BY <1>1, <2>1, EpochStep, StepType
    <2>2. CASE rget
      <3>1. rget'
        BY <1>1, <2>2, BuildKept
      <3> QED
        BY <1>1, <3>1, StepType DEF EpochInv
    <2> QED
      BY <2>1, <2>2
  <1> QED
    BY <1>1, InitType, InitEpoch, PTL DEF Spec

(* What the two builds have in common.                                     *)
LEMMA PoolFacts ==
    ASSUME TypeOK, PoolInv, EpochInv
    PROVE  /\ PartsMatch
           /\ pc = "idle" => in_use = 0 /\ flying = {} /\ \A s \in Slots : req[s] = 0
           /\ pc = "acquire" => flying = 1 .. in_use
           /\ pc = "waitall" /\ remaining = 0 => srcPE = NPE /\ flying = {}
  <1>1. CASE rget
    BY <1>1 DEF TypeOK, PoolInv, RequestsMatch
  <1>2. CASE ~rget
    BY <1>2, FS_EmptySet DEF TypeOK, EpochInv
  <1> QED
    BY <1>1, <1>2

(* Nothing is under way and every slot and request is free whenever        *)
(* iterate is not running, whatever the build.                             *)
THEOREM Drained == Spec => []PoolDrained
  <1>1. Spec => []TypeOK
    BY InitType, StepType, PTL DEF Spec
  <1>2. TypeOK /\ PoolInv /\ EpochInv => PoolDrained
    BY PoolFacts DEF PartsMatch, PoolDrained
  <1> QED
    BY <1>1, <1>2, PoolMatched, EpochsHold, PTL

(* With a pool of one slot, which is what the program has with an MPI      *)
(* library older than 3.1, every MPI_Win_unlock ends an epoch that exists. *)
(* (With more slots it may not: UnlockSucceeds is violated.)               *)
THEOREM OneSlotUnlocks == MaxInflight = 1 => (Spec => []UnlockSucceeds)
  <1> SUFFICES ASSUME MaxInflight = 1 PROVE Spec => []UnlockSucceeds
    OBVIOUS
  <1>1. Spec => []TypeOK
    BY InitType, StepType, PTL DEF Spec
  <1>2. Init => UnlockSucceeds
    BY DEF Init, UnlockSucceeds
  <1>3. ASSUME TypeOK, PoolInv, EpochInv, UnlockSucceeds, [Next]_vars
        PROVE  UnlockSucceeds'
    <2>1. CASE WaitUnlock
      <3>1. Slots = {1} /\ Acquired \in Slots
        BY <1>3, InflightAssumption DEF TypeOK, Slots, Acquired
      <3>2. flying # {} /\ flying \subseteq Slots
        BY <1>3, <2>1, FS_EmptySet DEF WaitUnlock, EpochInv, TypeOK
      <3>3. Acquired \in flying /\ PartsMatch
        BY <1>3, <2>1, <3>1, <3>2 DEF WaitUnlock, EpochInv
      <3>4. inbuf[Acquired] # None
        BY <1>3, <3>3, Bounds DEF PartsMatch
      <3> QED
        BY <2>1, <3>4 DEF WaitUnlock, UnlockSucceeds
    <2>2. CASE ~WaitUnlock
      BY <1>3, <2>2 DEF UnlockSucceeds, Next, Iterate, SkipPE, AcquireFree, AcquireReuse,
         BeginWaitall, WaitRequest, EndWaitall, Finished, vars
    <2> QED
      BY <2>1, <2>2
  <1> QED
    BY <1>1, <1>2, <1>3, PoolMatched, EpochsHold, PTL DEF Spec

LEMMA EachStep ==
    ASSUME TypeOK, PoolInv, EpochInv, EachPartOnce, [Next]_vars PROVE EachPartOnce'
  <1>1. CASE EndWaitall
    <2>1. /\ pc = "waitall" /\ remaining = 0 /\ own' = own /\ applied' = applied
      BY <1>1 DEF EndWaitall
    <2>2. flying = {} /\ srcPE = NPE /\ PartsMatch
      BY <2>1, PoolFacts
    <2>3. \A p \in PE : p < NPE
      BY InflightAssumption DEF PE
    <2>4. \A p \in PE : applied[p] = IF p \in own THEN 1 ELSE 0
      BY <2>1, <2>2, <2>3 DEF PartsMatch
    <2>5. applied \in [PE -> Nat]
      BY DEF TypeOK
    <2> QED
      BY <2>1, <2>4, <2>5 DEF EachPartOnce
  <1>2. ASSUME pc' = "idle" PROVE EndWaitall \/ UNCHANGED vars
    BY <1>2 DEF Next, Iterate, SkipPE, AcquireFree, AcquireReuse, BeginWaitall,
       WaitRequest, WaitUnlock, Finished
  <1>3. CASE UNCHANGED vars
    BY <1>3 DEF vars, EachPartOnce
  <1>4. CASE pc' # "idle"
    BY <1>4 DEF EachPartOnce
  <1> QED
    BY <1>1, <1>2, <1>3, <1>4

(* Every call of iterate applies each PE's part exactly once, whatever the *)
(* build and the order in which the gets complete.                         *)
THEOREM PartsGathered == Spec => []EachPartOnce
  <1>1. Spec => []TypeOK
    BY InitType, StepType, PTL DEF Spec
  <1>2. Init => EachPartOnce
    BY DEF Init, EachPartOnce
  <1> QED
    BY <1>1, <1>2, EachStep, PoolMatched, EpochsHold, PTL DEF Spec

(* No buffer is handed on before its part was applied, in either build.    *)
THEOREM BuffersKept == Spec => NoOverwrite
  <1> DEFINE Kept == \A s \in Slots : s \in flying /\ inbuf'[s] # inbuf[s] =>
                         applied'[inbuf[s]] = applied[inbuf[s]] + 1
  <1>1. ASSUME TypeOK, PoolInv, EpochInv, [Next]_vars PROVE [Kept]_vars
    <2> SUFFICES ASSUME NEW s \in Slots, s \in flying, inbuf'[s] # inbuf[s], Next
                 PROVE  applied'[inbuf[s]] = applied[inbuf[s]] + 1
      BY <1>1
    <2>0. PartsMatch /\ (pc = "acquire" => flying = 1 .. in_use)
      BY <1>1, PoolFacts
    <2>1. inbuf[s] \in PE /\ applied \in [PE -> Nat] /\ inbuf \in [Slots -> PE \cup {None}]
      BY <1>1, <2>0 DEF TypeOK, PartsMatch
    <2>2. CASE AcquireFree
      <3>1. inbuf' = [inbuf EXCEPT ![in_use + 1] = srcPE] /\ flying = 1 .. in_use
            /\ in_use \in Nat
        BY <1>1, <2>0, <2>2 DEF AcquireFree, Launch, TypeOK
      <3> QED
        BY <2>1, <3>1
    <2>3. CASE AcquireReuse
      <3>1. PICK t : Apply(t) /\ inbuf' = [inbuf EXCEPT ![t] = srcPE]
        BY <2>3 DEF AcquireReuse, Launch
      <3>2. s = t
        BY <2>1, <3>1
      <3> QED
        BY <2>1, <3>1, <3>2 DEF Apply
    <2>4. CASE WaitRequest
      <3>1. PICK i \in 1 .. remaining :
               /\ IF map[i] = req[i] THEN Apply(map[i]) ELSE UNCHANGED applied
               /\ inbuf' = [inbuf EXCEPT ![map[i]] = None]
        BY <2>4 DEF WaitRequest
      <3>2. i \in Slots /\ i <= remaining
        BY <1>1, InflightAssumption DEF TypeOK, Slots
      <3>3. map[i] = req[i]
        BY <1>1, <2>4, <3>2 DEF WaitRequest, PoolInv, RequestsMatch
      <3>4. s = map[i]
        BY <2>1, <3>1
      <3> QED
        BY <2>1, <3>1, <3>3, <3>4 DEF Apply
    <2>5. CASE WaitUnlock
      <3>1. inbuf' # inbuf
        BY <2>1
      <3>2. Apply(Acquired) /\ inbuf' = [inbuf EXCEPT ![Acquired] = None]
        BY <2>5, <3>1 DEF WaitUnlock
      <3>3. s = Acquired
        BY <2>1, <3>2
      <3> QED
        BY <2>1, <3>2, <3>3 DEF Apply
    <2>6. CASE ~(AcquireFree \/ AcquireReuse \/ WaitRequest \/ WaitUnlock)
      <3>1. pc # "idle"
        BY <1>1, PoolFacts
      <3> QED
        BY <2>6 DEF Next, Iterate, SkipPE, BeginWaitall, EndWaitall, Finished, vars
    <2> QED
      BY <2>2, <2>3, <2>4, <2>5, <2>6
  <1>2. Spec => []TypeOK
    BY InitType, StepType, PTL DEF Spec
  <1> QED
    BY <1>1, <1>2, PoolMatched, EpochsHold, PTL DEF Spec, NoOverwrite
=============================================================================
