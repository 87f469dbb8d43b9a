------------------------ MODULE MfFeedbackCache_proofs ------------------------
(***************************************************************************)
(* Proofs about MfFeedbackCache, for any sessions, names, backends, themes *)
(* and directories.  The types and the lock of the setups hold whatever    *)
(* the backends do.  The reference counts, the cache, the freshness of the *)
(* handles and what each feedback ends up with hold as long as no backend  *)
(* runs an event loop of its own (~Nested), for any number of losses,      *)
(* reconnections and theme changes.                                        *)
(***************************************************************************)
EXTENDS MfFeedbackCache, FiniteSetTheorems, FunctionTheorems, SequenceTheorems, TLAPS

-----------------------------------------------------------------------------
(* The invariants.                                                         *)

\* The name and the backend a slot has come to at a position.
NameAt(p) == NameList[((p - 1) \div Len(BackendList)) + 1]
BackendAt(p) == BackendList[((p - 1) % Len(BackendList)) + 1]

\* A slot uploads from a directory of the feedback it has come to; themeChanged() is inside
\* a feedback only if setup() had inserted it.
FrameRight(f) ==
    /\ f.busy => f.pos <= Slots /\ f.dir <= Len(DirList[f.theme][NameAt(f.pos)])
    /\ f.kind = "themeChanged" /\ session[f.on] # "none" /\ f.pos <= Slots
         /\ NameAt(f.pos) \notin feedbackHash[f.on] =>
              ~f.busy /\ f.dir = 1 /\ (f.pos - 1) % Len(BackendList) = 0

\* The flag is set while a session is in setup(), and only the slot of that session is one.
Locked ==
    /\ \A s \in Sessions : session[s] = "setup" => setupInProgress
    /\ OneSetupAtATime
    /\ \A i \in DOMAIN stack : stack[i].kind = "setup" => session[stack[i].on] = "setup"
    /\ \A i, j \in DOMAIN stack : stack[i].kind = "setup" /\ stack[j].kind = "setup" => i = j

IInv == TypeOK /\ Locked /\ \A i \in DOMAIN stack : FrameRight(stack[i])

\* A connection that was the backend's e-th and is up, or is lost without the manager
\* having dealt with it.
Lost(b) == [slot |-> "backendDisconnected", on |-> b] \in Range(events)
Current(b, e) == e = epoch[b] /\ (connected[b] \/ Lost(b))

\* A feedback holds a living handle of its own backend, or none.
Pointed ==
    \A x \in DOMAIN feedbackHandles :
        feedbackHandles[x] # Null => /\ feedbackHandles[x] \in DOMAIN heap
                                     /\ heap[feedbackHandles[x]].key[2] = x[3]

\* The cache finds each handle, under its own key only.
Cache ==
    /\ CacheExact
    /\ \A k \in DOMAIN feedbackHandleHash : heap[feedbackHandleHash[k]].key = k

Fresh == \A h \in DOMAIN heap : Current(heap[h].key[2], heap[h].epoch)

\* The slot that runs: the handle it replaces is still there, and what it uploads is neither
\* in the cache nor over a connection whose loss has been dealt with.
Atomic ==
    /\ Len(stack) <= 1
    /\ stack # <<>> /\ (top.busy \/ top.dir # 1) => top.old = feedbackHandles[here]
    /\ stack # <<>> /\ top.busy => /\ <<dirs[top.dir], backend>> \notin DOMAIN feedbackHandleHash
                                   /\ Current(backend, top.epoch)

AInv == IInv /\ Pointed /\ RefCountExact /\ Cache /\ Fresh /\ Atomic
-----------------------------------------------------------------------------
(* Positions.                                                              *)

LEMMA Constants ==
  /\ Len(NameList) \in Nat \ {0} /\ Len(BackendList) \in Nat \ {0}
  /\ NameList \in Seq(Names) /\ BackendList \in Seq(Backends)
  /\ Slots \in Nat
  /\ \A t \in Themes, n \in Names : /\ DirList[t][n] \in Seq(Dirs)
                                    /\ Len(DirList[t][n]) \in Nat
  <1>1. /\ NameList \in Seq(Names) /\ NameList # <<>>
        /\ BackendList \in Seq(Backends) /\ BackendList # <<>>
        /\ \A t \in Themes, n \in Names : DirList[t][n] \in Seq(Dirs)
    BY CacheAssumption
  <1>2. Len(NameList) \in Nat \ {0} /\ Len(BackendList) \in Nat \ {0}
    BY <1>1, EmptySeq
  <1>3. Slots \in Nat
    BY <1>2 DEF Slots
  <1>4. \A t \in Themes, n \in Names : Len(DirList[t][n]) \in Nat
    BY <1>1, LenProperties
  <1>5. QED
    BY <1>1, <1>2, <1>3, <1>4

LEMMA Place ==
  ASSUME NEW p \in 1 .. Slots
  PROVE  /\ NameAt(p) \in Names /\ BackendAt(p) \in Backends
         /\ ~((p + 1 - 1) % Len(BackendList) = 0) => NameAt(p + 1) = NameAt(p)
  <1> DEFINE N == Len(NameList)
             L == Len(BackendList)
  <1>1. N \in Nat \ {0} /\ L \in Nat \ {0} /\ p \in 1 .. N * L
    BY Constants DEF Slots
  <1> HIDE DEF N, L
  <1>2. (p - 1) \div L + 1 \in 1 .. N
    BY <1>1
  <1>3. ((p - 1) % L) + 1 \in 1 .. L
    <2>1. p - 1 \in Nat
      BY <1>1
    <2>2. \A q \in Nat : (q % L) + 1 \in 1 .. L
      BY <1>1
    <2>3. QED
      BY <2>1, <2>2
  <1>4. NameAt(p) \in Names /\ BackendAt(p) \in Backends
    BY <1>2, <1>3, Constants, ElementOfSeq DEF N, L, NameAt, BackendAt
  <1>5. ~((p + 1 - 1) % L = 0) => (p + 1 - 1) \div L = (p - 1) \div L
    <2>1. \A q \in Nat : (q + 1) % L # 0 => (q + 1) \div L = q \div L
      BY <1>1
    <2>2. p - 1 \in Nat /\ p - 1 + 1 = p /\ p + 1 - 1 = p
      BY <1>1
    <2>3. QED
      BY <2>1, <2>2
  <1>6. QED
    BY <1>4, <1>5 DEF NameAt, L

\* The next feedback is not beyond the last, and its first backend comes first.
LEMMA NextFeedback ==
  ASSUME NEW p \in 1 .. Slots, (p - 1) % Len(BackendList) = 0
  PROVE  /\ p + Len(BackendList) \in 1 .. Slots + 1
         /\ (p + Len(BackendList) - 1) % Len(BackendList) = 0
  <1> DEFINE N == Len(NameList)
             L == Len(BackendList)
             q == (p - 1) \div L
  <1>1. N \in Nat \ {0} /\ L \in Nat \ {0} /\ p \in 1 .. N * L /\ p - 1 \in Nat
    BY Constants DEF Slots
  <1>2. (p - 1) % L = 0
    OBVIOUS
  <1> HIDE DEF L, N
  <1>3. q \in Nat /\ p - 1 = q * L
    <2>1. \A r \in Nat : r \div L \in Nat
      BY <1>1
    <2>2. \A r \in Nat : r % L = 0 => r = (r \div L) * L
      BY <1>1
    <2>3. QED
      BY <1>1, <1>2, <2>1, <2>2
  <1> HIDE DEF q
  <1>4. q < N
    <2>1. q * L < N * L
      <3>1. N * L \in Nat
        BY <1>1
      <3>2. QED
        BY <1>1, <1>3, <3>1
    <2>2. QED
      BY <1>1, <1>3, <2>1
  <1>5. q * L + L <= N * L /\ q * L \in Nat /\ N * L \in Nat
    BY <1>1, <1>3, <1>4
  <1>6. p + L \in 1 .. N * L + 1
    <2>1. p = q * L + 1
      BY <1>1, <1>3, <1>5
    <2>2. QED
      BY <1>1, <1>5, <2>1
  <1>7. p + L - 1 = (q + 1) * L
    <2>1. (q + 1) * L = q * L + L
      BY <1>1, <1>3
    <2>2. QED
      BY <1>1, <1>3, <1>5, <2>1
  <1>8. ((q + 1) * L) % L = 0
    BY <1>1, <1>3
  <1>9. QED
    BY <1>6, <1>7, <1>8 DEF L, N, Slots

-----------------------------------------------------------------------------
(* The queue.                                                              *)

\* One call for each session that is alive.
LEMMA PostedIs ==
  ASSUME NEW queue \in Seq(Calls), NEW theme \in Themes
  PROVE  \E n \in Nat : \E to \in Surjection(1 .. n, {s \in Sessions : session[s] # "none"}) :
           PostThemeChanged(queue, theme) =
             queue \o [i \in 1 .. n |-> [slot |-> "themeChanged", on |-> to[i], theme |-> theme]]
  <1> DEFINE live == {s \in Sessions : session[s] # "none"}
             n == Cardinality(live)
             to == SetToSeq(live)
  <1>1. IsFiniteSet(live) /\ n \in Nat /\ ExistsBijection(1 .. n, live)
    BY CacheAssumption, FS_Subset, FS_CardinalityType
  <1>2. \E f \in [1 .. n -> live] : IsInjective(f)
    BY <1>1 DEF ExistsBijection, Bijection, Injection, IsInjective
  <1>3. to \in [1 .. n -> live] /\ IsInjective(to)
    BY <1>2 DEF SetToSeq
  <1>4. PostThemeChanged(queue, theme) =
          queue \o [i \in 1 .. n |-> [slot |-> "themeChanged", on |-> to[i], theme |-> theme]]
    BY DEF PostThemeChanged
  <1> HIDE DEF n, to
  <1>5. to \in Surjection(1 .. n, live)
    <2>1. IsFiniteSet(1 .. n) /\ Cardinality(1 .. n) = n
      BY <1>1, FS_Interval
    <2>2. to \in Injection(1 .. n, live)
      BY <1>3 DEF Injection, IsInjective
    <2>3. QED
      BY <1>1, <2>1, <2>2, FS_Injection DEF n
  <1>6. QED
    BY <1>1, <1>4, <1>5

LEMMA Posted ==
  ASSUME NEW queue \in Seq(Calls), NEW theme \in Themes
  PROVE  /\ PostThemeChanged(queue, theme) \in Seq(Calls)
         /\ Range(queue) \subseteq Range(PostThemeChanged(queue, theme))
         /\ \A x \in Range(PostThemeChanged(queue, theme)) :
              x.slot # "themeChanged" => x \in Range(queue)
  <1> DEFINE live == {s \in Sessions : session[s] # "none"}
  <1>1. PICK n \in Nat : \E to \in Surjection(1 .. n, live) :
          PostThemeChanged(queue, theme) =
            queue \o [i \in 1 .. n |-> [slot |-> "themeChanged", on |-> to[i], theme |-> theme]]
    BY PostedIs
  <1>2. PICK to \in Surjection(1 .. n, live) :
          PostThemeChanged(queue, theme) =
            queue \o [i \in 1 .. n |-> [slot |-> "themeChanged", on |-> to[i], theme |-> theme]]
    BY <1>1
  <1> DEFINE call(i) == [slot |-> "themeChanged", on |-> to[i], theme |-> theme]
             new == [i \in 1 .. n |-> call(i)]
  <1>3. \A i \in 1 .. n : call(i) \in Calls /\ call(i).slot = "themeChanged"
    BY <1>2 DEF Surjection, Calls
  <1> HIDE DEF call
  <1>4. new \in Seq(Calls) /\ \A x \in Range(new) : x.slot = "themeChanged"
    BY <1>3 DEF Range
  <1>5. PostThemeChanged(queue, theme) = queue \o new
    BY <1>2 DEF call
  <1> HIDE DEF new
  <1>6. queue \o new \in Seq(Calls) /\ Range(queue \o new) = Range(queue) \cup Range(new)
    BY <1>4, ConcatProperties, RangeConcatenation
  <1>7. QED
    BY <1>4, <1>5, <1>6

\* The queue without its oldest call.
LEMMA Taken ==
  ASSUME NEW queue \in Seq(Calls), queue # <<>>
  PROVE  /\ Head(queue) \in Calls /\ Tail(queue) \in Seq(Calls)
         /\ \A x \in Range(queue) : x # Head(queue) => x \in Range(Tail(queue))
         /\ Range(Tail(queue)) \subseteq Range(queue)
  <1>1. /\ Head(queue) \in Calls /\ Tail(queue) \in Seq(Calls) /\ Len(Tail(queue)) = Len(queue) - 1
        /\ \A i \in 1 .. Len(Tail(queue)) : Tail(queue)[i] = queue[i + 1]
    BY HeadTailProperties
  <1>2. Len(queue) \in Nat /\ DOMAIN queue = 1 .. Len(queue) /\ DOMAIN Tail(queue) = 1 .. Len(Tail(queue))
    BY <1>1, LenProperties
  <1>3. ASSUME NEW x \in Range(queue), x # Head(queue)
        PROVE  x \in Range(Tail(queue))
    <2>1. PICK i \in 1 .. Len(queue) : x = queue[i]
      BY <1>2 DEF Range
    <2>2. i # 1
      BY <1>3, <2>1
    <2>3. i - 1 \in 1 .. Len(Tail(queue)) /\ i - 1 + 1 = i
      BY <1>1, <1>2, <2>1, <2>2
    <2>4. Tail(queue)[i - 1] = x
      BY <1>1, <2>1, <2>3
    <2>5. QED
      BY <1>2, <2>3, <2>4 DEF Range
  <1>4. Range(Tail(queue)) \subseteq Range(queue)
    <2>1. \A i \in 1 .. Len(Tail(queue)) : i + 1 \in 1 .. Len(queue)
      BY <1>1, <1>2
    <2>2. QED
      BY <1>1, <1>2, <2>1 DEF Range
  <1>5. QED
    BY <1>1, <1>3, <1>4

LEMMA Appended ==
  ASSUME NEW queue \in Seq(Calls), NEW x \in Calls
  PROVE  /\ Append(queue, x) \in Seq(Calls)
         /\ Range(Append(queue, x)) = Range(queue) \cup {x}
  <1>1. /\ Append(queue, x) \in Seq(Calls) /\ Len(Append(queue, x)) = Len(queue) + 1
        /\ \A i \in 1 .. Len(queue) : Append(queue, x)[i] = queue[i]
        /\ Append(queue, x)[Len(queue) + 1] = x
    BY AppendProperties
  <1>2. /\ Len(queue) \in Nat /\ DOMAIN queue = 1 .. Len(queue)
        /\ DOMAIN Append(queue, x) = 1 .. Len(Append(queue, x))
    BY <1>1, LenProperties
  <1>3. DOMAIN Append(queue, x) = DOMAIN queue \cup {Len(queue) + 1}
    BY <1>1, <1>2
  <1>4. QED
    BY <1>1, <1>2, <1>3 DEF Range

\* The queue without the calls posted to s: the others, in their order, for the places of the
\* calls that are kept count through the new queue.
LEMMA Kept ==
  ASSUME NEW queue \in Seq(Calls), NEW s
  PROVE  \E n \in Nat : \E at \in [1 .. n -> DOMAIN queue] :
           /\ DropCalls(queue, s) = [m \in 1 .. n |-> queue[at[m]]]
           /\ \A i, j \in 1 .. n : i < j => at[i] < at[j]
           /\ \A i \in DOMAIN queue :
                (\E m \in 1 .. n : at[m] = i) <=>
                  (queue[i].slot = "themeChanged" => queue[i].on # s)
  <1> DEFINE kept == {i \in DOMAIN queue : queue[i].slot = "themeChanged" => queue[i].on # s}
             upTo(i) == {j \in kept : j <= i}
             place(i) == Cardinality(upTo(i))
             n == Cardinality(kept)
             pick(m) == CHOOSE i \in kept : place(i) = m
             f == [i \in kept |-> place(i)]
             at == [m \in 1 .. n |-> pick(m)]
  <1>1. Len(queue) \in Nat /\ DOMAIN queue = 1 .. Len(queue) /\ kept \subseteq 1 .. Len(queue)
    BY LenProperties
  <1>2. IsFiniteSet(kept) /\ n \in Nat
    <2>1. IsFiniteSet(1 .. Len(queue)) /\ kept \in SUBSET (1 .. Len(queue))
      BY <1>1, FS_Interval
    <2>2. IsFiniteSet(kept)
      BY <2>1, FS_Subset
    <2>3. QED
      BY <2>2, FS_CardinalityType
  <1>3. \A i \in kept : upTo(i) \in SUBSET kept /\ i \in upTo(i)
    BY <1>1
  <1>4. ASSUME NEW i \in kept
        PROVE  IsFiniteSet(upTo(i)) /\ place(i) \in 1 .. n
    <2>1. IsFiniteSet(upTo(i)) /\ place(i) <= n /\ place(i) \in Nat
      BY <1>2, <1>3, FS_Subset, FS_CardinalityType
    <2>2. place(i) # 0
      BY <1>3, <2>1, FS_EmptySet
    <2>3. QED
      BY <1>2, <2>1, <2>2
  <1>5. ASSUME NEW i \in kept, NEW j \in kept, i < j
        PROVE  place(i) # place(j) /\ place(i) <= place(j)
    <2>1. upTo(i) \in SUBSET upTo(j) /\ j \notin upTo(i) /\ j \in upTo(j)
      BY <1>1, <1>5
    <2>2. QED
      BY <1>4, <2>1, FS_Subset
  <1> HIDE DEF place, n
  <1>6. \A i, j \in kept : place(i) = place(j) => i = j
    <2>1. \A i, j \in kept : i < j \/ j < i \/ i = j
      BY <1>1
    <2>2. QED
      BY <1>5, <2>1
  <1> HIDE DEF kept
  <1>7. f \in Surjection(kept, 1 .. n)
    <2>1. f \in [kept -> 1 .. n] /\ \A i \in kept : f[i] = place(i)
      BY <1>4
    <2>2. f \in Injection(kept, 1 .. n)
      BY <1>6, <2>1, Fun_IsInj
    <2>3. IsFiniteSet(1 .. n) /\ Cardinality(1 .. n) = n
      BY <1>2, FS_Interval
    <2>4. QED
      BY <2>2, <2>3, FS_Injection DEF n
  <1>8. ASSUME NEW m \in 1 .. n
        PROVE  pick(m) \in kept /\ place(pick(m)) = m
    <2>1. \E i \in kept : f[i] = m
      BY <1>7 DEF Surjection
    <2>2. \E i \in kept : place(i) = m
      BY <2>1
    <2>3. QED
      BY <2>2
  <1> HIDE DEF pick
  <1>9. DropCalls(queue, s) = [m \in 1 .. n |-> queue[at[m]]]
    <2>1. DropCalls(queue, s) = [m \in 1 .. n |-> queue[pick(m)]]
      BY DEF DropCalls, kept, place, n, pick
    <2>2. \A m \in 1 .. n : at[m] = pick(m)
      OBVIOUS
    <2> HIDE DEF at
    <2>3. QED
      BY <2>1, <2>2
  <1>10. at \in [1 .. n -> DOMAIN queue] /\ \A m \in 1 .. n : at[m] \in kept /\ place(at[m]) = m
    BY <1>8 DEF kept
  <1> HIDE DEF at
  <1>11. ASSUME NEW i \in 1 .. n, NEW j \in 1 .. n, i < j
         PROVE  at[i] < at[j]
    <2>1. /\ at[i] \in kept /\ at[j] \in kept /\ at[i] \in Int /\ at[j] \in Int
          /\ place(at[i]) = i /\ place(at[j]) = j
      BY <1>1, <1>10
    <2>2. at[j] < at[i] => j <= i
      BY <1>5, <2>1
    <2>3. at[i] # at[j]
      BY <1>2, <1>11, <2>1
    <2>4. QED
      BY <1>2, <1>11, <2>1, <2>2, <2>3
  <1>12. ASSUME NEW i \in DOMAIN queue
         PROVE  (\E m \in 1 .. n : at[m] = i) <=>
                  (queue[i].slot = "themeChanged" => queue[i].on # s)
    <2>1. i \in kept => \E m \in 1 .. n : at[m] = i
      BY <1>4, <1>6, <1>10
    <2>2. (\E m \in 1 .. n : at[m] = i) => i \in kept
      BY <1>10
    <2>3. i \in kept <=> (queue[i].slot = "themeChanged" => queue[i].on # s)
      BY DEF kept
    <2>4. QED
      BY <2>1, <2>2, <2>3
  <1>13. QED
    BY <1>2, <1>9, <1>10, <1>11, <1>12

\* Whatever is not posted to s is kept, and nothing is added.
LEMMA Dropped ==
  ASSUME NEW queue \in Seq(Calls), NEW s
  PROVE  /\ DropCalls(queue, s) \in Seq(Calls)
         /\ \A x \in Range(queue) : x.slot # "themeChanged" => x \in Range(DropCalls(queue, s))
         /\ Range(DropCalls(queue, s)) \subseteq Range(queue)
  <1>1. PICK n \in Nat : \E at \in [1 .. n -> DOMAIN queue] :
           /\ DropCalls(queue, s) = [m \in 1 .. n |-> queue[at[m]]]
           /\ \A i, j \in 1 .. n : i < j => at[i] < at[j]
           /\ \A i \in DOMAIN queue :
                (\E m \in 1 .. n : at[m] = i) <=>
                  (queue[i].slot = "themeChanged" => queue[i].on # s)
    BY Kept
  <1>2. PICK at \in [1 .. n -> DOMAIN queue] :
           /\ DropCalls(queue, s) = [m \in 1 .. n |-> queue[at[m]]]
           /\ \A i, j \in 1 .. n : i < j => at[i] < at[j]
           /\ \A i \in DOMAIN queue :
                (\E m \in 1 .. n : at[m] = i) <=>
                  (queue[i].slot = "themeChanged" => queue[i].on # s)
    BY <1>1
  <1>3. \A i \in DOMAIN queue : queue[i] \in Calls
    BY LenProperties
  <1>4. DropCalls(queue, s) \in Seq(Calls)
    BY <1>2, <1>3
  <1>5. ASSUME NEW x \in Range(queue), x.slot # "themeChanged"
        PROVE  x \in Range(DropCalls(queue, s))
    <2>1. PICK i \in DOMAIN queue : x = queue[i]
      BY DEF Range
    <2>2. PICK m \in 1 .. n : at[m] = i
      BY <1>2, <1>5, <2>1
    <2>3. QED
      BY <1>2, <2>1, <2>2 DEF Range
  <1>6. Range(DropCalls(queue, s)) \subseteq Range(queue)
    BY <1>2 DEF Range
  <1>7. QED
    BY <1>4, <1>5, <1>6

-----------------------------------------------------------------------------
(* What is true of the stack.                                              *)

LEMMA FrameFields ==
  ASSUME NEW f \in Frames
  PROVE  /\ f.kind \in {"setup", "themeChanged"} /\ f.on \in Sessions /\ f.theme \in Themes
         /\ f.pos \in 1 .. Slots + 1 /\ f.dir \in Nat \ {0} /\ f.old \in Handles \cup {Null}
         /\ f.busy \in BOOLEAN /\ f.epoch \in Nat
  BY DEF Frames

LEMMA StackType ==
  ASSUME TypeOK
  PROVE  /\ stack \in Seq(Frames) /\ Len(stack) \in Nat /\ DOMAIN stack = 1 .. Len(stack)
         /\ \A i \in DOMAIN stack : stack[i] \in Frames
         /\ stack # <<>> => 1 \in DOMAIN stack /\ top \in Frames
  <1>1. stack \in Seq(Frames)
    BY DEF TypeOK
  <1>2. Len(stack) \in Nat /\ DOMAIN stack = 1 .. Len(stack) /\ stack \in [1 .. Len(stack) -> Frames]
    BY <1>1, LenProperties
  <1>3. stack # <<>> => 1 \in 1 .. Len(stack)
    BY <1>1, <1>2, EmptySeq
  <1>4. QED
    BY <1>1, <1>2, <1>3 DEF top

\* Steps that leave sessions and slots alone.
LEMMA SlotsKept ==
  ASSUME IInv, UNCHANGED <<session, feedbackHash, setupInProgress, stack>>
  PROVE  Locked' /\ \A i \in DOMAIN stack' : FrameRight(stack[i])'
  BY DEF IInv, Locked, OneSetupAtATime, FrameRight, NameAt

\* The slot that runs goes on, and may insert feedbacks.
LEMMA TopMoves ==
  ASSUME IInv, stack # <<>>, UNCHANGED <<session, setupInProgress>>,
         stack' \in Seq(Frames), Len(stack') = Len(stack),
         \A i \in 2 .. Len(stack) : stack'[i] = stack[i],
         stack'[1].kind = top.kind, stack'[1].on = top.on,
         \A s \in Sessions : feedbackHash[s] \subseteq feedbackHash'[s],
         FrameRight(stack[1])'
  PROVE  Locked' /\ \A i \in DOMAIN stack' : FrameRight(stack[i])'
  <1>1. TypeOK /\ Locked
    BY DEF IInv
  <1>2. /\ Len(stack) \in Nat /\ DOMAIN stack = 1 .. Len(stack) /\ 1 \in DOMAIN stack
        /\ \A i \in DOMAIN stack : stack[i] \in Frames
    BY <1>1, StackType
  <1>3. DOMAIN stack' = DOMAIN stack
    BY <1>2, LenProperties
  <1>4. \A i \in DOMAIN stack : i = 1 \/ stack'[i] = stack[i]
    BY <1>2
  <1>5. \A i \in DOMAIN stack : stack'[i].kind = stack[i].kind /\ stack'[i].on = stack[i].on
    BY <1>4 DEF top
  <1>6. Locked'
    BY <1>1, <1>3, <1>5 DEF Locked, OneSetupAtATime
  <1>7. ASSUME NEW i \in DOMAIN stack, i # 1
        PROVE  FrameRight(stack[i])'
    <2>1. stack'[i] = stack[i] /\ FrameRight(stack[i]) /\ stack[i].on \in Sessions
      BY <1>2, <1>4, <1>7, FrameFields DEF IInv
    <2>2. QED
      BY <2>1 DEF FrameRight, NameAt
  <1>8. QED
    BY <1>3, <1>6, <1>7

\* A slot returns.
LEMMA Popped ==
  ASSUME IInv, stack # <<>>, stack' = Tail(stack)
  PROVE  /\ stack' \in Seq(Frames) /\ DOMAIN stack' \subseteq Nat
         /\ \A i \in DOMAIN stack' : i + 1 \in DOMAIN stack /\ stack'[i] = stack[i + 1]
  <1>1. stack \in Seq(Frames) /\ Len(stack) \in Nat /\ DOMAIN stack = 1 .. Len(stack)
    BY StackType DEF IInv
  <1>2. /\ stack' \in Seq(Frames) /\ Len(stack') = Len(stack) - 1
        /\ \A i \in 1 .. Len(stack') : stack'[i] = stack[i + 1]
    BY <1>1, HeadTailProperties
  <1>3. DOMAIN stack' = 1 .. Len(stack')
    BY <1>2, LenProperties
  <1>4. QED
    BY <1>1, <1>2, <1>3

\* A slot is called.
LEMMA Pushed ==
  ASSUME IInv, NEW kind \in {"setup", "themeChanged"}, NEW s \in Sessions, NEW theme \in Themes,
         Enter(kind, s, theme)
  PROVE  /\ stack' \in Seq(Frames) /\ 1 \in DOMAIN stack' /\ DOMAIN stack' \subseteq Nat
         /\ stack'[1].kind = kind /\ stack'[1].on = s /\ stack'[1].pos = 1 /\ stack'[1].dir = 1
         /\ ~stack'[1].busy
         /\ \A i \in DOMAIN stack' : i # 1 => i - 1 \in DOMAIN stack /\ stack'[i] = stack[i - 1]
         /\ FrameRight(stack[1])'
  <1> DEFINE f == [kind |-> kind, on |-> s, theme |-> theme, pos |-> 1, dir |-> 1,
                   old |-> Null, busy |-> FALSE, epoch |-> 0]
  <1>1. f \in Frames
    <2>1. 1 \in 1 .. Slots + 1
      BY Constants
    <2>2. QED
      BY <2>1 DEF Frames
  <1>2. stack' = <<f>> \o stack
    BY DEF Enter
  <1>3. /\ f.kind = kind /\ f.on = s /\ f.pos = 1 /\ f.dir = 1 /\ ~f.busy
    OBVIOUS
  <1> HIDE DEF f
  <1>4. stack \in Seq(Frames) /\ Len(stack) \in Nat /\ DOMAIN stack = 1 .. Len(stack)
    BY StackType DEF IInv
  <1>5. <<f>> \in Seq(Frames) /\ Len(<<f>>) = 1 /\ <<f>>[1] = f
    BY <1>1
  <1>6. /\ stack' \in Seq(Frames) /\ Len(stack') = Len(<<f>>) + Len(stack)
        /\ \A i \in 1 .. Len(<<f>>) + Len(stack) :
             stack'[i] = IF i <= Len(<<f>>) THEN <<f>>[i] ELSE stack[i - Len(<<f>>)]
    BY <1>2, <1>4, <1>5, ConcatProperties, Zenon
  <1>7. DOMAIN stack' = 1 .. Len(stack) + 1
    BY <1>4, <1>5, <1>6, LenProperties
  <1>8. /\ stack'[1] = f
        /\ \A i \in DOMAIN stack' : i # 1 => i - 1 \in DOMAIN stack /\ stack'[i] = stack[i - 1]
    BY <1>4, <1>5, <1>6, <1>7
  <1>9. (1 - 1) % Len(BackendList) = 0
    <2>1. \A l \in Nat \ {0} : (1 - 1) % l = 0
      OBVIOUS
    <2>2. QED
      BY <2>1, Constants
  <1>10. FrameRight(stack[1])'
    BY <1>3, <1>8, <1>9 DEF FrameRight
  <1>11. QED
    BY <1>3, <1>4, <1>6, <1>7, <1>8, <1>10

-----------------------------------------------------------------------------
(* The steps keep the types and the lock.                                  *)

LEMMA IInvInit == Init => IInv
  <1> SUFFICES ASSUME Init
               PROVE  IInv
    OBVIOUS
  <1>1. <<>> \in Seq(Calls) /\ <<>> \in Seq(Frames) /\ DOMAIN <<>> = {}
    BY EmptySeq
  <1>2. /\ heap = [h \in {} |-> Null] /\ feedbackHandleHash = [k \in {} |-> Null]
        /\ stack = <<>> /\ events = <<>>
    BY DEF Init
  <1>3. TypeOK
    <2>1. DOMAIN heap = {} /\ heap \in [{} -> HandleRecords]
      BY <1>2
    <2>2. DOMAIN feedbackHandleHash = {} /\ feedbackHandleHash \in [{} -> Handles]
      BY <1>2
    <2>3. QED
      BY <1>1, <1>2, <2>1, <2>2 DEF Init, TypeOK
  <1>4. Locked
    BY <1>1, <1>2 DEF Init, Locked, OneSetupAtATime
  <1>5. QED
    BY <1>1, <1>2, <1>3, <1>4 DEF IInv

LEMMA LoseType ==
  ASSUME IInv, NEW b \in Backends, Lose(b)
  PROVE  IInv'
  <1>1. TypeOK
    BY DEF IInv
  <1>2. [slot |-> "backendDisconnected", on |-> b] \in Calls
    BY DEF Calls
  <1>3. events' \in Seq(Calls)
    BY <1>1, <1>2, Appended DEF TypeOK, Lose
  <1>4. TypeOK'
    BY <1>1, <1>3 DEF TypeOK, Lose, theming, objects, sessions
  <1>5. QED
    BY <1>4, SlotsKept DEF IInv, Lose, sessions

LEMMA EstablishType ==
  ASSUME IInv, NEW b \in Backends, Establish(b)
  PROVE  IInv'
  <1>1. TypeOK
    BY DEF IInv
  <1>2. [slot |-> "backendConnected", on |-> b] \in Calls
    BY DEF Calls
  <1>3. events' \in Seq(Calls)
    BY <1>1, <1>2, Appended DEF TypeOK, Establish
  <1>4. connected' \in [Backends -> BOOLEAN] /\ epoch' \in [Backends -> Nat]
    BY <1>1 DEF TypeOK, Establish
  <1>5. TypeOK'
    BY <1>1, <1>3, <1>4 DEF TypeOK, Establish, theming, objects, sessions
  <1>6. QED
    BY <1>5, SlotsKept DEF IInv, Establish, sessions

\* What is taken from the queue, by slot.
LEMMA Called ==
  ASSUME TypeOK, NEW slot, Next1(slot)
  PROVE  /\ events # <<>> /\ Tail(events) \in Seq(Calls)
         /\ slot = "themeChanged" => Head(events).on \in Sessions /\ Head(events).theme \in Themes
         /\ slot # "themeChanged" => /\ Head(events).on \in Backends
                                     /\ Head(events) = [slot |-> slot, on |-> Head(events).on]
         /\ \A x \in Range(events) : x # Head(events) => x \in Range(Tail(events))
  <1>1. events \in Seq(Calls) /\ events # <<>> /\ Head(events).slot = slot
    BY DEF TypeOK, Next1
  <1>2. /\ Head(events) \in Calls /\ Tail(events) \in Seq(Calls)
        /\ \A x \in Range(events) : x # Head(events) => x \in Range(Tail(events))
    BY <1>1, Taken
  <1>3. /\ slot = "themeChanged" => Head(events).on \in Sessions /\ Head(events).theme \in Themes
        /\ slot # "themeChanged" => /\ Head(events).on \in Backends
                                    /\ Head(events) = [slot |-> slot, on |-> Head(events).on]
    BY <1>1, <1>2 DEF Calls
  <1>4. QED
    BY <1>1, <1>2, <1>3

LEMMA backendConnectedType ==
  ASSUME IInv, backendConnected
  PROVE  IInv'
  <1>1. TypeOK
    BY DEF IInv
  <1>2. Tail(events) \in Seq(Calls) /\ currentTheme \in Themes
    BY <1>1, Called DEF backendConnected, TypeOK
  <1>3. events' \in Seq(Calls)
    BY <1>2, Posted DEF backendConnected
  <1>4. TypeOK'
    BY <1>1, <1>3 DEF TypeOK, backendConnected, links, theming, objects, sessions
  <1>5. QED
    BY <1>4, SlotsKept DEF IInv, backendConnected, sessions

LEMMA backendDisconnectedType ==
  ASSUME IInv, backendDisconnected
  PROVE  IInv'
  <1> DEFINE dead == HandlesOf(Head(events).on)
             K == {k \in DOMAIN feedbackHandleHash : feedbackHandleHash[k] \notin dead}
  <1>1. TypeOK
    BY DEF IInv
  <1>2. events' \in Seq(Calls)
    BY <1>1, Called DEF backendDisconnected
  <1>3. /\ heap' = [h \in DOMAIN heap \ dead |-> heap[h]]
        /\ feedbackHandleHash' = [k \in K |-> feedbackHandleHash[k]]
        /\ feedbackHandles' = [x \in DOMAIN feedbackHandles |->
             IF feedbackHandles[x] \in dead THEN Null ELSE feedbackHandles[x]]
    BY DEF backendDisconnected, Restrict, RestrictValues, Forget
  <1> HIDE DEF dead
  <1>4. DOMAIN heap' \subseteq Handles /\ heap' \in [DOMAIN heap' -> HandleRecords]
    BY <1>1, <1>3 DEF TypeOK
  <1>5. /\ DOMAIN feedbackHandleHash' \subseteq Keys
        /\ feedbackHandleHash' \in [DOMAIN feedbackHandleHash' -> Handles]
    BY <1>1, <1>3 DEF TypeOK
  <1>6. feedbackHandles' \in [Sessions \X Names \X Backends -> Handles \cup {Null}]
    BY <1>1, <1>3 DEF TypeOK
  <1>7. TypeOK'
    BY <1>1, <1>2, <1>4, <1>5, <1>6 DEF TypeOK, backendDisconnected, links, theming, sessions
  <1>8. QED
    BY <1>7, SlotsKept DEF IInv, backendDisconnected, sessions

LEMMA loadThemeType ==
  ASSUME IInv, NEW t \in Themes, loadTheme(t)
  PROVE  IInv'
  <1>1. TypeOK
    BY DEF IInv
  <1>2. events' \in Seq(Calls)
    BY <1>1, Posted DEF loadTheme, TypeOK
  <1>3. changes' \in Nat /\ currentTheme' \in Themes
    BY <1>1 DEF TypeOK, loadTheme
  <1>4. TypeOK'
    BY <1>1, <1>2, <1>3 DEF TypeOK, loadTheme, links, objects, sessions
  <1>5. QED
    BY <1>4, SlotsKept DEF IInv, loadTheme, sessions

LEMMA NewSessionType ==
  ASSUME IInv, NEW s \in Sessions, NewSession(s)
  PROVE  IInv'
  <1>1. TypeOK /\ Locked /\ \A i \in DOMAIN stack : FrameRight(stack[i])
    BY DEF IInv
  <1>2. /\ session[s] = "none" /\ session' = [session EXCEPT ![s] = "scheduled"]
        /\ \A i \in DOMAIN stack : stack[i].on # s
        /\ UNCHANGED <<links, theming, objects, feedbackHash, setupInProgress, events, stack>>
    BY DEF NewSession
  <1>3. TypeOK'
    BY <1>1, <1>2 DEF TypeOK, links, theming, objects
  <1>4. \A r \in Sessions : session'[r] = IF r = s THEN "scheduled" ELSE session[r]
    BY <1>1, <1>2 DEF TypeOK
  <1>5. \A i \in DOMAIN stack : stack[i].on \in Sessions /\ session'[stack[i].on] = session[stack[i].on]
    BY <1>1, <1>2, <1>4, StackType, FrameFields
  <1>6. Locked'
    BY <1>1, <1>2, <1>4, <1>5 DEF Locked, OneSetupAtATime
  <1>7. \A i \in DOMAIN stack : FrameRight(stack[i])'
    BY <1>1, <1>2, <1>5 DEF FrameRight, NameAt
  <1>8. QED
    BY <1>2, <1>3, <1>6, <1>7 DEF IInv

LEMMA setupType ==
  ASSUME IInv, NEW s \in Sessions, setup(s)
  PROVE  IInv'
  <1>1. TypeOK /\ Locked /\ \A i \in DOMAIN stack : FrameRight(stack[i])
    BY DEF IInv
  <1>2. /\ session[s] = "scheduled" /\ ~setupInProgress /\ setupInProgress' = TRUE
        /\ session' = [session EXCEPT ![s] = "setup"] /\ Enter("setup", s, currentTheme)
        /\ UNCHANGED <<links, theming, objects, feedbackHash, events>>
    BY DEF setup
  <1>3. currentTheme \in Themes
    BY <1>1 DEF TypeOK
  <1>4. /\ stack' \in Seq(Frames) /\ 1 \in DOMAIN stack' /\ DOMAIN stack' \subseteq Nat
        /\ stack'[1].kind = "setup" /\ stack'[1].on = s /\ FrameRight(stack[1])'
        /\ \A i \in DOMAIN stack' : i # 1 => i - 1 \in DOMAIN stack /\ stack'[i] = stack[i - 1]
    BY <1>2, <1>3, Pushed
  <1>5. TypeOK'
    BY <1>1, <1>2, <1>4 DEF TypeOK, links, theming, objects
  <1>6. \A r \in Sessions : session[r] # "setup" /\ session'[r] = IF r = s THEN "setup" ELSE session[r]
    BY <1>1, <1>2 DEF TypeOK, Locked
  <1>7. \A i \in DOMAIN stack : stack[i].on \in Sessions
    BY <1>1, StackType, FrameFields
  <1>8. \A i \in DOMAIN stack : stack[i].kind # "setup"
    BY <1>1, <1>6, <1>7 DEF Locked
  <1>9. \A i \in DOMAIN stack' : stack'[i].kind = "setup" => i = 1
    BY <1>4, <1>8
  <1>10. Locked'
    BY <1>2, <1>4, <1>6, <1>9 DEF Locked, OneSetupAtATime
  <1>11. ASSUME NEW i \in DOMAIN stack', i # 1
         PROVE  FrameRight(stack[i])'
    <2>1. /\ stack'[i] = stack[i - 1] /\ FrameRight(stack[i - 1]) /\ stack[i - 1].on \in Sessions
          /\ session'[stack[i - 1].on] # "none" => session[stack[i - 1].on] # "none"
      BY <1>1, <1>2, <1>4, <1>6, <1>7, <1>11
    <2>2. QED
      BY <1>2, <2>1 DEF FrameRight, NameAt
  <1>12. QED
    BY <1>4, <1>5, <1>10, <1>11 DEF IInv

LEMMA themeChangedType ==
  ASSUME IInv, themeChanged
  PROVE  IInv'
  <1>1. TypeOK /\ Locked /\ \A i \in DOMAIN stack : FrameRight(stack[i])
    BY DEF IInv
  <1> DEFINE s == Head(events).on
             t == Head(events).theme
  <1>2. /\ Enter("themeChanged", s, t) /\ events' = Tail(events)
        /\ UNCHANGED <<links, theming, objects, sessions>>
    BY DEF themeChanged
  <1>3. s \in Sessions /\ t \in Themes /\ events' \in Seq(Calls)
    BY <1>1, <1>2, Called DEF themeChanged
  <1> HIDE DEF s, t
  <1>4. /\ stack' \in Seq(Frames) /\ 1 \in DOMAIN stack' /\ DOMAIN stack' \subseteq Nat
        /\ stack'[1].kind = "themeChanged" /\ FrameRight(stack[1])'
        /\ \A i \in DOMAIN stack' : i # 1 => i - 1 \in DOMAIN stack /\ stack'[i] = stack[i - 1]
    BY <1>2, <1>3, Pushed
  <1>5. TypeOK'
    BY <1>1, <1>2, <1>3, <1>4 DEF TypeOK, links, theming, objects, sessions
  <1>6. \A i \in DOMAIN stack' : stack'[i].kind = "setup" =>
            i - 1 \in DOMAIN stack /\ stack'[i] = stack[i - 1]
    BY <1>4
  <1>7. \A i, j \in DOMAIN stack' : i - 1 = j - 1 => i = j
    BY <1>4
  <1>8. Locked'
    BY <1>1, <1>2, <1>6, <1>7 DEF Locked, OneSetupAtATime, sessions
  <1>9. ASSUME NEW i \in DOMAIN stack', i # 1
        PROVE  FrameRight(stack[i])'
    <2>1. stack'[i] = stack[i - 1] /\ FrameRight(stack[i - 1])
      BY <1>1, <1>4, <1>9
    <2>2. QED
      BY <1>2, <2>1 DEF FrameRight, NameAt, sessions
  <1>10. QED
    BY <1>4, <1>5, <1>8, <1>9 DEF IInv

\* The slot that runs changes its frame.
LEMMA TopEdited ==
  ASSUME TypeOK, stack # <<>>, NEW g \in Frames, stack' = [stack EXCEPT ![1] = g]
  PROVE  /\ stack' \in Seq(Frames) /\ Len(stack') = Len(stack) /\ stack'[1] = g
         /\ \A i \in 2 .. Len(stack) : stack'[i] = stack[i]
  <1>1. stack \in Seq(Frames) /\ Len(stack) \in Nat /\ 1 \in 1 .. Len(stack)
    BY StackType
  <1>2. QED
    BY <1>1, ExceptSeq

\* The slot that runs stands at a feedback and a backend of the lists.
LEMMA Standing ==
  ASSUME IInv, Alive, top.pos <= Slots
  PROVE  /\ stack # <<>> /\ top \in Frames /\ FrameRight(top) /\ session[top.on] # "none"
         /\ top.pos \in 1 .. Slots /\ top.on \in Sessions
         /\ name = NameAt(top.pos) /\ backend = BackendAt(top.pos)
         /\ name \in Names /\ backend \in Backends /\ here \in Sessions \X Names \X Backends
         /\ dirs \in Seq(Dirs) /\ Len(dirs) \in Nat /\ feedbackHandles[here] \in Handles \cup {Null}
         /\ old \in Handles \cup {Null}
  <1>1. stack # <<>> /\ session[top.on] # "none"
    BY DEF Alive
  <1>2. 1 \in DOMAIN stack /\ top \in Frames
    BY <1>1, StackType DEF IInv
  <1>3. FrameRight(top)
    BY <1>2 DEF IInv, top
  <1>4. /\ top.pos \in 1 .. Slots + 1 /\ top.on \in Sessions /\ top.theme \in Themes
        /\ top.old \in Handles \cup {Null}
    BY <1>2, FrameFields
  <1>5. top.pos \in 1 .. Slots
    BY <1>4, Constants
  <1>6. name = NameAt(top.pos) /\ backend = BackendAt(top.pos)
    BY DEF name, backend, NameAt, BackendAt
  <1>7. name \in Names /\ backend \in Backends
    BY <1>5, <1>6, Place
  <1>8. here \in Sessions \X Names \X Backends
    BY <1>4, <1>7 DEF here
  <1>9. dirs \in Seq(Dirs) /\ Len(dirs) \in Nat
    BY <1>4, <1>7, Constants DEF dirs
  <1>10. feedbackHandles[here] \in Handles \cup {Null}
    BY <1>8 DEF IInv, TypeOK
  <1>11. QED
    BY <1>1, <1>2, <1>3, <1>4, <1>5, <1>6, <1>7, <1>8, <1>9, <1>10 DEF old

LEMMA Advanced ==
  ASSUME IInv, Alive, top.pos <= Slots, top.kind = "setup" \/ name \in feedbackHash[top.on],
         UNCHANGED <<session, setupInProgress>>, Advance
  PROVE  /\ stack' \in Seq(Frames) /\ feedbackHash' \in [Sessions -> SUBSET Names]
         /\ Len(stack') = Len(stack) /\ stack'[1].dir = 1 /\ ~stack'[1].busy
         /\ Locked' /\ \A i \in DOMAIN stack' : FrameRight(stack[i])'
  <1> DEFINE one == 1
             zero == 0
             g == [top EXCEPT !.pos = top.pos + 1, !.dir = one, !.old = Null, !.busy = FALSE,
                              !.epoch = zero]
  <1>1. /\ stack # <<>> /\ top \in Frames /\ session[top.on] # "none"
        /\ top.pos \in 1 .. Slots /\ top.on \in Sessions /\ name = NameAt(top.pos) /\ name \in Names
    BY Standing
  <1>2. /\ TypeOK /\ 1 \in DOMAIN stack
    BY <1>1, StackType DEF IInv
  <1>3. top.pos + 1 \in 1 .. Slots + 1
    BY <1>1, Constants
  <1>4. stack' = [stack EXCEPT ![1] = g]
    BY <1>2 DEF Advance, top
  <1>5. one \in Nat \ {0} /\ zero \in Nat /\ one = 1
    OBVIOUS
  <1> HIDE DEF one, zero
  <1>6. /\ g \in Frames /\ g.kind = top.kind /\ g.on = top.on /\ g.pos = top.pos + 1
        /\ g.dir = one /\ g.busy = FALSE
    BY <1>1, <1>3, <1>5 DEF Frames
  <1> HIDE DEF g
  <1>7. /\ stack' \in Seq(Frames) /\ Len(stack') = Len(stack) /\ stack'[1] = g
        /\ \A i \in 2 .. Len(stack) : stack'[i] = stack[i]
    BY <1>1, <1>2, <1>4, <1>6, TopEdited
  <1>8. /\ feedbackHash' \in [Sessions -> SUBSET Names]
        /\ \A s \in Sessions : feedbackHash[s] \subseteq feedbackHash'[s]
    BY <1>1, <1>2 DEF TypeOK, Advance
  <1>9. FrameRight(stack[1])'
    <2>1. SUFFICES ASSUME g.kind = "themeChanged", NameAt(g.pos) \notin feedbackHash'[g.on]
                   PROVE  (g.pos - 1) % Len(BackendList) = 0
      BY <1>5, <1>6, <1>7 DEF FrameRight, NameAt
    <2>2. name \in feedbackHash'[top.on]
      BY <1>1, <1>6, <1>8, <2>1
    <2>3. NameAt(top.pos + 1) # NameAt(top.pos)
      BY <1>1, <1>6, <2>1, <2>2
    <2>4. (top.pos + 1 - 1) % Len(BackendList) = 0
      BY <1>1, <2>3, Place
    <2>5. g.pos - 1 = top.pos + 1 - 1
      BY <1>1, <1>6
    <2>6. QED
      BY <2>4, <2>5
  <1>10. Locked' /\ \A i \in DOMAIN stack' : FrameRight(stack[i])'
    BY <1>1, <1>6, <1>7, <1>8, <1>9, TopMoves
  <1>11. QED
    BY <1>5, <1>6, <1>7, <1>8, <1>10

LEMMA SkipFeedbackType ==
  ASSUME IInv, SkipFeedback
  PROVE  IInv'
  <1> DEFINE g == [top EXCEPT !.pos = top.pos + Len(BackendList)]
  <1>1. Alive /\ ~top.busy /\ top.pos <= Slots
    BY DEF SkipFeedback, AtSlot, Running
  <1>2. /\ stack # <<>> /\ top \in Frames /\ session[top.on] # "none" /\ FrameRight(top)
        /\ top.pos \in 1 .. Slots /\ name = NameAt(top.pos)
    BY <1>1, Standing
  <1>3. /\ TypeOK /\ 1 \in DOMAIN stack
    BY <1>2, StackType DEF IInv
  <1>4. /\ top.kind = "themeChanged" /\ name \notin feedbackHash[top.on]
        /\ stack' = [stack EXCEPT ![1] = g]
        /\ UNCHANGED <<links, theming, objects, sessions, events>>
    BY <1>3 DEF SkipFeedback, top
  <1>5. (top.pos - 1) % Len(BackendList) = 0
    BY <1>1, <1>2, <1>4 DEF FrameRight
  <1>6. /\ top.pos + Len(BackendList) \in 1 .. Slots + 1
        /\ (top.pos + Len(BackendList) - 1) % Len(BackendList) = 0
    BY <1>2, <1>5, NextFeedback
  <1>7. /\ g \in Frames /\ g.kind = top.kind /\ g.on = top.on /\ g.busy = top.busy
        /\ g.dir = top.dir /\ g.pos = top.pos + Len(BackendList)
    BY <1>2, <1>6 DEF Frames
  <1> HIDE DEF g
  <1>8. /\ stack' \in Seq(Frames) /\ Len(stack') = Len(stack) /\ stack'[1] = g
        /\ \A i \in 2 .. Len(stack) : stack'[i] = stack[i]
    BY <1>2, <1>3, <1>4, <1>7, TopEdited
  <1>9. FrameRight(stack[1])'
    <2>1. (g.pos - 1) % Len(BackendList) = 0
      BY <1>2, <1>6, <1>7, Constants
    <2>2. QED
      BY <1>1, <1>2, <1>4, <1>7, <1>8, <2>1 DEF FrameRight
  <1>10. TypeOK'
    BY <1>3, <1>4, <1>8 DEF TypeOK, links, theming, objects, sessions
  <1>11. Locked' /\ \A i \in DOMAIN stack' : FrameRight(stack[i])'
    BY <1>2, <1>4, <1>7, <1>8, <1>9, TopMoves DEF sessions
  <1>12. QED
    BY <1>10, <1>11 DEF IInv

\* The directory to be tried is one of the list's, and what it gives is known.
LEMMA FoundIs ==
  ASSUME IInv, AtSlot
  PROVE  /\ Found \in 0 .. Len(dirs)
         /\ Found # 0 => /\ Found \in 1 .. Len(dirs) /\ dirs[Found] \in Dirs
                         /\ Cached(dirs[Found]) \/ Loadable(dirs[Found])
  <1> DEFINE good == {i \in top.dir .. Len(dirs) : Cached(dirs[i]) \/ Loadable(dirs[i])}
  <1>1. Alive /\ top.pos <= Slots
    BY DEF AtSlot, Running
  <1>2. dirs \in Seq(Dirs) /\ Len(dirs) \in Nat /\ top.dir \in Nat \ {0}
    BY <1>1, Standing, FrameFields
  <1>3. good \subseteq 1 .. Len(dirs)
    BY <1>2
  <1>4. CASE good = {}
    BY <1>2, <1>4 DEF Found
  <1>5. CASE good # {}
    <2>1. \E i \in good : \A j \in good : i <= j
      <3>1. good \in SUBSET Nat
        BY <1>3
      <3>2. PICK i \in good : \A j \in good : ~ (<<j, i>> \in OpToRel(<, Nat))
        BY <1>5, <3>1, NatLessThanWellFounded, WFMin
      <3>3. \A j \in good : ~(j < i)
        BY <3>1, <3>2 DEF OpToRel
      <3>4. QED
        BY <3>1, <3>3
    <2>2. Found \in good
      BY <1>5, <2>1 DEF Found
    <2>3. dirs[Found] \in Dirs
      BY <1>2, <1>3, <2>2, ElementOfSeq
    <2>4. QED
      BY <1>2, <1>3, <2>2, <2>3
  <1>6. QED
    BY <1>4, <1>5

LEMMA BeginUploadType ==
  ASSUME IInv, BeginUpload
  PROVE  IInv'
  <1> DEFINE g == [top EXCEPT !.dir = Found, !.old = old, !.busy = TRUE, !.epoch = epoch[backend]]
  <1>1. Alive /\ ~top.busy /\ top.pos <= Slots /\ AtSlot
    BY DEF BeginUpload, AtSlot, Running
  <1>2. /\ stack # <<>> /\ top \in Frames /\ session[top.on] # "none" /\ FrameRight(top)
        /\ top.pos \in 1 .. Slots /\ name = NameAt(top.pos) /\ old \in Handles \cup {Null}
        /\ backend \in Backends
    BY <1>1, Standing
  <1>3. /\ TypeOK /\ 1 \in DOMAIN stack
    BY <1>2, StackType DEF IInv
  <1>4. /\ top.kind = "setup" \/ name \in feedbackHash[top.on]
        /\ stack' = [stack EXCEPT ![1] = g]
        /\ UNCHANGED <<links, theming, objects, sessions, events>>
    BY <1>3 DEF BeginUpload, top
  <1>5. Found \in 1 .. Len(dirs) /\ Found \in Nat \ {0}
    BY <1>1, FoundIs DEF BeginUpload
  <1>6. /\ g \in Frames /\ g.kind = top.kind /\ g.on = top.on /\ g.busy = TRUE
        /\ g.pos = top.pos /\ g.theme = top.theme /\ g.dir = Found
    BY <1>2, <1>3, <1>5 DEF Frames, TypeOK
  <1> HIDE DEF g
  <1>7. /\ stack' \in Seq(Frames) /\ Len(stack') = Len(stack) /\ stack'[1] = g
        /\ \A i \in 2 .. Len(stack) : stack'[i] = stack[i]
    BY <1>2, <1>3, <1>4, <1>6, TopEdited
  <1>8. Found <= Len(DirList[top.theme][NameAt(top.pos)])
    BY <1>2, <1>5 DEF dirs
  <1>9. FrameRight(stack[1])'
    BY <1>1, <1>2, <1>4, <1>6, <1>7, <1>8 DEF FrameRight, NameAt, sessions
  <1>10. TypeOK'
    BY <1>3, <1>4, <1>7 DEF TypeOK, links, theming, objects, sessions
  <1>11. Locked' /\ \A i \in DOMAIN stack' : FrameRight(stack[i])'
    BY <1>2, <1>4, <1>6, <1>7, <1>9, TopMoves DEF sessions
  <1>12. QED
    BY <1>10, <1>11 DEF IInv

LEMMA UploadFailsType ==
  ASSUME IInv, UploadFails
  PROVE  IInv'
  <1> DEFINE g == [top EXCEPT !.busy = FALSE, !.dir = top.dir + 1]
  <1>1. /\ stack # <<>> /\ top.busy
    BY DEF UploadFails, Alive
  <1>2. TypeOK /\ 1 \in DOMAIN stack /\ top \in Frames /\ FrameRight(top)
    BY <1>1, StackType DEF IInv, top
  <1>3. /\ stack' = [stack EXCEPT ![1] = g]
        /\ UNCHANGED <<links, theming, objects, sessions, events>>
    BY <1>2 DEF UploadFails, top
  <1>4. /\ g \in Frames /\ g.kind = top.kind /\ g.on = top.on /\ g.busy = FALSE /\ g.pos = top.pos
    <2>1. top.dir + 1 \in Nat \ {0}
      BY <1>2, FrameFields
    <2>2. QED
      BY <1>2, <2>1 DEF Frames
  <1> HIDE DEF g
  <1>5. /\ stack' \in Seq(Frames) /\ Len(stack') = Len(stack) /\ stack'[1] = g
        /\ \A i \in 2 .. Len(stack) : stack'[i] = stack[i]
    BY <1>1, <1>2, <1>3, <1>4, TopEdited
  <1>6. FrameRight(stack[1])'
    BY <1>1, <1>2, <1>3, <1>4, <1>5 DEF FrameRight, NameAt, sessions
  <1>7. TypeOK'
    BY <1>2, <1>3, <1>5 DEF TypeOK, links, theming, objects, sessions
  <1>8. Locked' /\ \A i \in DOMAIN stack' : FrameRight(stack[i])'
    BY <1>1, <1>3, <1>4, <1>5, <1>6, TopMoves DEF sessions
  <1>9. QED
    BY <1>7, <1>8 DEF IInv

LEMMA ReturnType ==
  ASSUME IInv, Return
  PROVE  IInv'
  <1>1. TypeOK /\ Locked /\ \A i \in DOMAIN stack : FrameRight(stack[i])
    BY DEF IInv
  <1>2. /\ stack # <<>> /\ stack' = Tail(stack)
        /\ UNCHANGED <<links, theming, objects, feedbackHash, events>>
    BY DEF Return, Running, Alive
  <1>3. /\ stack' \in Seq(Frames) /\ DOMAIN stack' \subseteq Nat
        /\ \A i \in DOMAIN stack' : i + 1 \in DOMAIN stack /\ stack'[i] = stack[i + 1]
    BY <1>2, Popped
  <1>4. 1 \in DOMAIN stack /\ \A i \in DOMAIN stack : stack[i].on \in Sessions
    BY <1>1, <1>2, StackType, FrameFields
  <1>5. /\ session' \in [Sessions -> {"none", "scheduled", "setup", "ready"}]
        /\ setupInProgress' \in BOOLEAN
        /\ \A s \in Sessions : session'[s] # "none" => session[s] # "none"
    BY <1>1, <1>4 DEF Return, TypeOK, Locked, top
  <1>6. TypeOK'
    BY <1>1, <1>2, <1>3, <1>5 DEF TypeOK, links, theming, objects
  <1>7. ASSUME NEW i \in DOMAIN stack'
        PROVE  FrameRight(stack[i])'
    <2>1. stack'[i] = stack[i + 1] /\ FrameRight(stack[i + 1]) /\ stack[i + 1].on \in Sessions
      BY <1>1, <1>3, <1>4
    <2>2. QED
      BY <1>2, <1>5, <2>1 DEF FrameRight, NameAt
  <1>8. Locked'
    <2>1. CASE top.kind = "setup"
      <3>1. \A s \in Sessions : session'[s] # "setup"
        BY <1>1, <1>4, <2>1 DEF Return, TypeOK, Locked, OneSetupAtATime, top
      <3>2. \A i \in DOMAIN stack' : i + 1 # 1
        BY <1>3
      <3>3. \A i \in DOMAIN stack' : stack'[i].kind # "setup"
        BY <1>1, <1>3, <1>4, <2>1, <3>2 DEF Locked, top
      <3>4. QED
        BY <3>1, <3>3 DEF Locked, OneSetupAtATime
    <2>2. CASE top.kind # "setup"
      <3>1. UNCHANGED <<session, setupInProgress>>
        BY <2>2 DEF Return
      <3>2. \A i, j \in DOMAIN stack' : i + 1 = j + 1 => i = j
        BY <1>3
      <3>3. QED
        BY <1>1, <1>3, <3>1, <3>2 DEF Locked, OneSetupAtATime
    <2>3. QED
      BY <2>1, <2>2
  <1>9. QED
    BY <1>6, <1>7, <1>8 DEF IInv

LEMMA AbandonType ==
  ASSUME IInv, Abandon
  PROVE  IInv'
  <1>1. TypeOK /\ Locked /\ \A i \in DOMAIN stack : FrameRight(stack[i])
    BY DEF IInv
  <1>2. /\ stack # <<>> /\ stack' = Tail(stack)
        /\ UNCHANGED <<links, theming, objects, sessions, events>>
    BY DEF Abandon
  <1>3. /\ stack' \in Seq(Frames) /\ DOMAIN stack' \subseteq Nat
        /\ \A i \in DOMAIN stack' : i + 1 \in DOMAIN stack /\ stack'[i] = stack[i + 1]
    BY <1>2, Popped
  <1>4. TypeOK'
    BY <1>1, <1>2, <1>3 DEF TypeOK, links, theming, objects, sessions
  <1>5. Locked'
    <2>1. \A i, j \in DOMAIN stack' : i + 1 = j + 1 => i = j
      BY <1>3
    <2>2. QED
      BY <1>1, <1>2, <1>3, <2>1 DEF Locked, OneSetupAtATime, sessions
  <1>6. ASSUME NEW i \in DOMAIN stack'
        PROVE  FrameRight(stack[i])'
    <2>1. stack'[i] = stack[i + 1] /\ FrameRight(stack[i + 1])
      BY <1>1, <1>3
    <2>2. QED
      BY <1>2, <2>1 DEF FrameRight, NameAt, sessions
  <1>7. QED
    BY <1>4, <1>5, <1>6 DEF IInv

-----------------------------------------------------------------------------
(* A feedback gets its new handle.                                         *)

\* Another user of new: one, or none.
One(p) == IF p THEN 1 ELSE 0

HeapType(hp) == DOMAIN hp \subseteq Handles /\ hp \in [DOMAIN hp -> HandleRecords]
CacheType(cache) == DOMAIN cache \subseteq Keys /\ cache \in [DOMAIN cache -> Handles]

LEMMA Counted ==
  ASSUME NEW r \in HandleRecords, NEW n \in Int
  PROVE  /\ [r EXCEPT !.refCnt = n] \in HandleRecords /\ [r EXCEPT !.refCnt = n].refCnt = n
         /\ [r EXCEPT !.refCnt = n].key = r.key /\ [r EXCEPT !.refCnt = n].epoch = r.epoch
         /\ [r EXCEPT !.refCnt = n].state = r.state
         /\ r.refCnt \in Int /\ r.key \in Keys /\ r.epoch \in Nat /\ r.state \in {"Ready", "Ignored"}
  BY DEF HandleRecords

LEMMA AttachIs ==
  ASSUME NEW hp, HeapType(hp), NEW new, new # Null => new \in DOMAIN hp
  PROVE  /\ HeapType(Attach(new, hp)) /\ DOMAIN Attach(new, hp) = DOMAIN hp
         /\ \A h \in DOMAIN hp :
              /\ Attach(new, hp)[h].refCnt = hp[h].refCnt + One(h = new)
              /\ Attach(new, hp)[h].key = hp[h].key /\ Attach(new, hp)[h].epoch = hp[h].epoch
              /\ Attach(new, hp)[h].state = hp[h].state
  <1>1. \A h \in DOMAIN hp : hp[h] \in HandleRecords /\ hp[h].refCnt \in Int
    BY Counted DEF HeapType, HandleRecords
  <1>2. CASE new = Null
    <2>1. \A h \in DOMAIN hp : h # new
      BY <1>2, CacheAssumption DEF HeapType
    <2>2. \A h \in DOMAIN hp : hp[h].refCnt = hp[h].refCnt + One(h = new)
      BY <1>1, <2>1 DEF One
    <2>3. QED
      BY <1>2, <2>2 DEF Attach
  <1>3. CASE new # Null
    <2> DEFINE n == hp[new].refCnt + 1
               att == [hp EXCEPT ![new] = [hp[new] EXCEPT !.refCnt = n]]
    <2>1. Attach(new, hp) = att
      BY <1>3 DEF Attach
    <2>2. n \in Int /\ hp[new] \in HandleRecords
      BY <1>1, <1>3
    <2>3. n = hp[new].refCnt + 1
      OBVIOUS
    <2> HIDE DEF n
    <2>4. DOMAIN att = DOMAIN hp /\ att \in [DOMAIN hp -> HandleRecords]
      BY <1>1, <2>2, Counted DEF HeapType
    <2>5. \A h \in DOMAIN hp : att[h] = IF h = new THEN [hp[new] EXCEPT !.refCnt = n] ELSE hp[h]
      OBVIOUS
    <2> HIDE DEF att
    <2>6. ASSUME NEW h \in DOMAIN hp
          PROVE  /\ att[h].refCnt = hp[h].refCnt + One(h = new) /\ att[h].key = hp[h].key
                 /\ att[h].epoch = hp[h].epoch /\ att[h].state = hp[h].state
      <3>1. CASE h = new
        <4>1. att[h] = [hp[new] EXCEPT !.refCnt = n]
          BY <2>5, <3>1
        <4>2. QED
          BY <2>2, <2>3, <3>1, <4>1, Counted DEF One
      <3>2. CASE h # new
        BY <1>1, <2>5, <3>2 DEF One
      <3>3. QED
        BY <3>1, <3>2
    <2>7. QED
      BY <2>1, <2>4, <2>6 DEF HeapType
  <1>4. QED
    BY <1>2, <1>3

\* The old handle goes with its last reference.
LastOf(hp, new) == old \in DOMAIN hp /\ hp[old].refCnt + One(old = new) <= 1
Placed(new) == [feedbackHandles EXCEPT ![here] = new]

\* What detaching the old handle leaves.
SettledAs(hp, new, cache) ==
    /\ HeapType(heap')
    /\ DOMAIN heap' = IF LastOf(hp, new) THEN DOMAIN hp \ {old} ELSE DOMAIN hp
    /\ \A h \in DOMAIN heap' :
         /\ heap'[h].refCnt = hp[h].refCnt + One(h = new) - One(h = old)
         /\ heap'[h].key = hp[h].key /\ heap'[h].epoch = hp[h].epoch
         /\ heap'[h].state = hp[h].state
    /\ feedbackHandleHash' =
         IF LastOf(hp, new) THEN [k \in DOMAIN cache \ {hp[old].key} |-> cache[k]] ELSE cache
    /\ CacheType(feedbackHandleHash')
    /\ feedbackHandles' = IF LastOf(hp, new)
                          THEN [x \in DOMAIN feedbackHandles |->
                                  IF Placed(new)[x] = old THEN Null ELSE Placed(new)[x]]
                          ELSE Placed(new)
    /\ feedbackHandles' \in [Sessions \X Names \X Backends -> Handles \cup {Null}]
    /\ Advance

LEMMA SettleIs ==
  ASSUME NEW hp, HeapType(hp), NEW new \in Handles \cup {Null}, new # Null => new \in DOMAIN hp,
         NEW cache, CacheType(cache), here \in DOMAIN feedbackHandles, Settle(new, hp, cache),
         feedbackHandles \in [Sessions \X Names \X Backends -> Handles \cup {Null}]
  PROVE  SettledAs(hp, new, cache)
  <1> DEFINE placed == [feedbackHandles EXCEPT ![here] = new]
             last == old \in DOMAIN hp /\ hp[old].refCnt + One(old = new) <= 1
             att == Attach(new, hp)
             o == old
             cut == [k \in DOMAIN cache \ {hp[o].key} |-> cache[k]]
  <1>1. /\ HeapType(att) /\ DOMAIN att = DOMAIN hp
        /\ \A h \in DOMAIN hp :
             /\ att[h].refCnt = hp[h].refCnt + One(h = new) /\ att[h].key = hp[h].key
             /\ att[h].epoch = hp[h].epoch /\ att[h].state = hp[h].state
    BY AttachIs
  <1>2. \A h \in DOMAIN hp : att[h] \in HandleRecords /\ att[h].refCnt \in Int
    BY <1>1, Counted DEF HeapType, HandleRecords
  <1>2a. \A h \in DOMAIN hp : hp[h].refCnt \in Int
    BY Counted DEF HeapType, HandleRecords
  <1>3. last <=> o \in DOMAIN att /\ att[o].refCnt <= 1
    BY <1>1
  <1>4. /\ heap' = IF last THEN [h \in DOMAIN att \ {o} |-> att[h]]
                   ELSE IF o \in DOMAIN att THEN [att EXCEPT ![o].refCnt = @ - 1] ELSE att
        /\ feedbackHandleHash' = IF last THEN [k \in DOMAIN cache \ {att[o].key} |-> cache[k]] ELSE cache
        /\ feedbackHandles' = IF last THEN [x \in DOMAIN placed |->
                                              IF placed[x] = o THEN Null ELSE placed[x]]
                              ELSE placed
        /\ Advance
    BY <1>3 DEF Settle, removeFromCache, Restrict
  <1>5. /\ DOMAIN placed = DOMAIN feedbackHandles
        /\ placed \in [Sessions \X Names \X Backends -> Handles \cup {Null}]
    OBVIOUS
  <1> HIDE DEF placed
  <1>6. feedbackHandles' \in [Sessions \X Names \X Backends -> Handles \cup {Null}]
    BY <1>4, <1>5
  <1>7. last => att[o].key = hp[o].key
    BY <1>1
  <1>8. feedbackHandleHash' = IF last THEN cut ELSE cache
    BY <1>4, <1>7
  <1>9. CacheType(cut)
    BY DEF CacheType
  <1>10. CacheType(feedbackHandleHash')
    BY <1>8, <1>9
  <1>11. /\ HeapType(heap') /\ DOMAIN heap' = IF last THEN DOMAIN hp \ {o} ELSE DOMAIN hp
         /\ \A h \in DOMAIN heap' :
              /\ heap'[h].refCnt = hp[h].refCnt + One(h = new) - One(h = o)
              /\ heap'[h].key = hp[h].key /\ heap'[h].epoch = hp[h].epoch
              /\ heap'[h].state = hp[h].state
    <2>1. \A h \in DOMAIN hp : h # o => att[h].refCnt = hp[h].refCnt + One(h = new) - One(h = o)
      <3> SUFFICES ASSUME NEW h \in DOMAIN hp, h # o
                   PROVE  att[h].refCnt = hp[h].refCnt + One(h = new) - One(h = o)
        OBVIOUS
      <3>1. hp[h].refCnt \in Int /\ One(h = new) \in Int /\ One(h = o) = 0
        BY <1>2a DEF One
      <3>2. att[h].refCnt = hp[h].refCnt + One(h = new)
        BY <1>1
      <3> DEFINE a == hp[h].refCnt
                 b == One(h = new)
                 c == One(h = o)
      <3>3. a \in Int /\ b \in Int /\ c = 0
        BY <3>1
      <3> HIDE DEF a, b, c
      <3>4. a + b = a + b - c
        BY <3>3
      <3>5. QED
        BY <3>2, <3>4 DEF a, b, c
    <2> HIDE DEF att, o
    <2>2. CASE last
      <3>1. heap' = [h \in DOMAIN att \ {o} |-> att[h]]
        BY <1>4, <2>2
      <3> HIDE DEF last
      <3>2. DOMAIN heap' = DOMAIN hp \ {o} /\ \A h \in DOMAIN heap' : heap'[h] = att[h]
        BY <1>1, <3>1
      <3>3. HeapType(heap')
        BY <1>1, <1>2, <3>1 DEF HeapType
      <3>4. QED
        BY <1>1, <2>1, <2>2, <3>2, <3>3
    <2>3. CASE ~last /\ o \in DOMAIN att
      <3> DEFINE n == att[o].refCnt - 1
                 rec == [att[o] EXCEPT !.refCnt = n]
      <3>1. heap' = [att EXCEPT ![o] = rec]
        BY <1>4, <2>3
      <3> HIDE DEF last
      <3>2. att[o] \in HandleRecords /\ n \in Int /\ n = att[o].refCnt - 1
        BY <1>1, <1>2, <2>3
      <3> HIDE DEF n
      <3>3. /\ rec \in HandleRecords /\ rec.refCnt = n /\ rec.key = att[o].key
            /\ rec.epoch = att[o].epoch /\ rec.state = att[o].state
        BY <3>2, Counted
      <3> HIDE DEF rec
      <3>4. /\ HeapType(heap') /\ DOMAIN heap' = DOMAIN hp
            /\ \A h \in DOMAIN heap' : heap'[h] = IF h = o THEN rec ELSE att[h]
        BY <1>1, <3>1, <3>3 DEF HeapType
      <3>5. One(o = o) = 1
        BY DEF One
      <3>6. heap'[o].refCnt = hp[o].refCnt + One(o = new) - One(o = o)
        <4> DEFINE a == hp[o].refCnt
                   b == One(o = new)
        <4>1. a \in Int /\ b \in Int
          BY <1>1, <1>2a, <2>3 DEF One
        <4>2. heap'[o].refCnt = att[o].refCnt - 1 /\ att[o].refCnt = a + b
          BY <1>1, <2>3, <3>2, <3>3, <3>4
        <4> HIDE DEF a, b
        <4>3. heap'[o].refCnt = a + b - 1
          BY <4>1, <4>2
        <4>4. QED
          BY <3>5, <4>3 DEF a, b
      <3>7. ASSUME NEW h \in DOMAIN heap'
            PROVE  /\ heap'[h].refCnt = hp[h].refCnt + One(h = new) - One(h = o)
                   /\ heap'[h].key = hp[h].key /\ heap'[h].epoch = hp[h].epoch
                   /\ heap'[h].state = hp[h].state
        <4>1. CASE h = o
          BY <1>1, <3>3, <3>4, <3>6, <4>1
        <4>2. CASE h # o
          BY <1>1, <2>1, <3>4, <4>2
        <4>3. QED
          BY <4>1, <4>2
      <3>8. QED
        BY <2>3, <3>4, <3>7
    <2>4. CASE ~last /\ o \notin DOMAIN att
      <3>1. heap' = att
        BY <1>4, <2>4
      <3> HIDE DEF last
      <3>2. \A h \in DOMAIN hp : h # o
        BY <1>1, <2>4
      <3>3. QED
        BY <1>1, <2>1, <2>4, <3>1, <3>2
    <2>5. QED
      BY <2>2, <2>3, <2>4
  <1>12. QED
    BY <1>4, <1>5, <1>6, <1>8, <1>10, <1>11 DEF placed, SettledAs, LastOf, Placed

-----------------------------------------------------------------------------

\* A feedback that gets a handle of the heap hp keeps the types.
LEMMA SettleType ==
  ASSUME IInv, Alive, top.pos <= Slots, top.kind = "setup" \/ name \in feedbackHash[top.on],
         NEW hp, HeapType(hp), NEW new \in Handles \cup {Null}, new # Null => new \in DOMAIN hp,
         NEW cache, CacheType(cache), Settle(new, hp, cache),
         UNCHANGED <<links, theming, session, setupInProgress, events>>
  PROVE  IInv'
  <1>1. TypeOK
    BY DEF IInv
  <1>2. /\ feedbackHandles \in [Sessions \X Names \X Backends -> Handles \cup {Null}]
        /\ here \in DOMAIN feedbackHandles
    BY <1>1, Standing DEF TypeOK
  <1>3. /\ HeapType(heap') /\ CacheType(feedbackHandleHash') /\ Advance
        /\ feedbackHandles' \in [Sessions \X Names \X Backends -> Handles \cup {Null}]
    BY <1>2, SettleIs DEF SettledAs
  <1>4. /\ stack' \in Seq(Frames) /\ feedbackHash' \in [Sessions -> SUBSET Names]
        /\ Locked' /\ \A i \in DOMAIN stack' : FrameRight(stack[i])'
    BY <1>3, Advanced
  <1>5. TypeOK'
    BY <1>1, <1>3, <1>4 DEF TypeOK, HeapType, CacheType, links, theming
  <1>6. QED
    BY <1>4, <1>5 DEF IInv

\* A directory that is cached gives a handle of the heap.
LEMMA FromCache ==
  ASSUME IInv, AtSlot, NEW d, Cached(d)
  PROVE  /\ feedbackHandleHash[<<d, backend>>] \in Handles
         /\ feedbackHandleHash[<<d, backend>>] \in DOMAIN heap
         /\ <<d, backend>> \in DOMAIN feedbackHandleHash
  BY DEF IInv, TypeOK, Cached

LEMMA LoadFromCacheType ==
  ASSUME IInv, LoadFromCache
  PROVE  IInv'
  <1> DEFINE new == IF Found = 0 THEN Null ELSE feedbackHandleHash[<<dirs[Found], backend>>]
  <1>1. /\ AtSlot /\ Alive /\ top.pos <= Slots
        /\ top.kind = "setup" \/ name \in feedbackHash[top.on]
        /\ Settle(new, heap, feedbackHandleHash)
        /\ UNCHANGED <<links, theming, session, setupInProgress, events>>
    BY DEF LoadFromCache, AtSlot, Running
  <1>2. new \in Handles \cup {Null} /\ (new # Null => new \in DOMAIN heap)
    BY <1>1, FromCache DEF LoadFromCache
  <1>3. HeapType(heap) /\ CacheType(feedbackHandleHash)
    BY DEF IInv, TypeOK, HeapType, CacheType
  <1> HIDE DEF new
  <1>4. QED
    BY <1>1, <1>2, <1>3, SettleType

\* The handle the upload makes, the heap with it, and the cache with it.
Fresh1 == CHOOSE h \in Handles : h \notin DOMAIN heap
HeapWith(h) == [x \in DOMAIN heap \cup {h} |-> IF x = h THEN Loaded(dirs[top.dir]) ELSE heap[x]]
CacheWith(h) == WithCached(<<dirs[top.dir], backend>>, h)

LEMMA Uploaded ==
  ASSUME IInv, EndUpload
  PROVE  /\ Alive /\ top.busy /\ top.pos <= Slots
         /\ top.kind = "setup" \/ name \in feedbackHash[top.on]
         /\ top.dir \in 1 .. Len(dirs) /\ dirs[top.dir] \in Dirs
         /\ Fresh1 \in Handles /\ Fresh1 \notin DOMAIN heap
         /\ HeapType(HeapWith(Fresh1)) /\ CacheType(CacheWith(Fresh1))
         /\ Settle(Fresh1, HeapWith(Fresh1), CacheWith(Fresh1))
         /\ UNCHANGED <<links, theming, session, setupInProgress, events>>
  <1>1. /\ Alive /\ top.busy /\ Handles # DOMAIN heap
        /\ Settle(Fresh1, HeapWith(Fresh1), CacheWith(Fresh1))
        /\ UNCHANGED <<links, theming, session, setupInProgress, events>>
    BY DEF EndUpload, Fresh1, HeapWith, CacheWith
  <1>2. TypeOK /\ stack # <<>>
    BY <1>1 DEF IInv, Alive
  <1>3. top \in Frames /\ FrameRight(top)
    BY <1>2, StackType DEF IInv, top
  <1>4. top.pos <= Slots /\ top.dir <= Len(DirList[top.theme][NameAt(top.pos)])
    BY <1>1, <1>3 DEF FrameRight
  <1>5. /\ name = NameAt(top.pos) /\ backend \in Backends /\ dirs \in Seq(Dirs) /\ Len(dirs) \in Nat
        /\ session[top.on] # "none"
    BY <1>1, <1>4, Standing
  <1>6. top.dir \in 1 .. Len(dirs)
    BY <1>3, <1>4, <1>5, FrameFields DEF dirs
  <1>7. dirs[top.dir] \in Dirs
    BY <1>5, <1>6, ElementOfSeq
  <1>8. top.kind = "setup" \/ name \in feedbackHash[top.on]
    BY <1>1, <1>3, <1>4, <1>5, FrameFields DEF FrameRight
  <1>9. Fresh1 \in Handles /\ Fresh1 \notin DOMAIN heap
    BY <1>1, <1>2 DEF Fresh1, TypeOK
  <1>10. <<dirs[top.dir], backend>> \in Keys /\ top.epoch \in Nat
    BY <1>3, <1>5, <1>7, FrameFields DEF Keys
  <1>11. Loaded(dirs[top.dir]) \in HandleRecords
    BY <1>10 DEF Loaded, HandleRecords
  <1>12. HeapType(HeapWith(Fresh1))
    BY <1>2, <1>9, <1>11 DEF TypeOK, HeapType, HeapWith
  <1>13. CacheType(CacheWith(Fresh1))
    BY <1>2, <1>9, <1>10 DEF TypeOK, CacheType, CacheWith, WithCached
  <1>14. QED
    BY <1>1, <1>4, <1>6, <1>7, <1>8, <1>9, <1>12, <1>13

LEMMA EndUploadType ==
  ASSUME IInv, EndUpload
  PROVE  IInv'
  <1>1. Fresh1 \in DOMAIN HeapWith(Fresh1)
    BY DEF HeapWith
  <1>2. QED
    BY <1>1, Uploaded, SettleType

-----------------------------------------------------------------------------
(* The feedbacks of a session.                                             *)

LEMMA FiniteFeedbacks == IsFiniteSet(Sessions \X Names \X Backends)
  <1>1. IsFiniteSet(Names) /\ IsFiniteSet(Backends)
    <2>1. ASSUME NEW S, NEW seq \in Seq(S)
          PROVE  IsFiniteSet(Range(seq))
      <3>1. Len(seq) \in Nat /\ DOMAIN seq = 1 .. Len(seq)
        BY LenProperties
      <3>2. seq \in Surjection(1 .. Len(seq), Range(seq))
        BY <3>1, LenProperties DEF Surjection, Range
      <3>3. IsFiniteSet(1 .. Len(seq))
        BY <3>1, FS_Interval
      <3>4. QED
        BY <3>2, <3>3, FS_Surjection
    <2>2. QED
      BY <2>1, Constants DEF Names, Backends
  <1> DEFINE P == (Sessions \X Names) \X Backends
             T == Sessions \X Names \X Backends
             f == [x \in T |-> <<<<x[1], x[2]>>, x[3]>>]
  <1>2. IsFiniteSet(Sessions \X Names)
    BY <1>1, CacheAssumption, FS_Product
  <1>3. IsFiniteSet(P)
    BY <1>1, <1>2, FS_Product
  <1>4. f \in Injection(T, P)
    <2>1. \A x \in T : f[x] \in P
      OBVIOUS
    <2>2. \A x, y \in T : f[x] = f[y] => x = y
      OBVIOUS
    <2>3. QED
      BY <2>1, <2>2, Fun_IsInj
  <1>5. QED
    BY <1>3, <1>4, FS_Injection

Mine(s) == {x \in DOMAIN feedbackHandles : x[1] = s}
UsesOf(s, h) == Cardinality({x \in Mine(s) : feedbackHandles[x] = h})
DeadWith(s) == {h \in DOMAIN heap : UsesOf(s, h) > 0 /\ heap[h].refCnt <= UsesOf(s, h)}

LEMMA DeleteIs ==
  ASSUME IInv, NEW s \in Sessions, Delete(s)
  PROVE  /\ \A h : UsesOf(s, h) \in Nat
         /\ DOMAIN heap' = DOMAIN heap \ DeadWith(s)
         /\ \A h \in DOMAIN heap' :
              /\ heap'[h] \in HandleRecords
              /\ heap'[h].refCnt = heap[h].refCnt - UsesOf(s, h)
              /\ heap'[h].key = heap[h].key /\ heap'[h].epoch = heap[h].epoch
         /\ feedbackHandleHash' =
              [k \in DOMAIN feedbackHandleHash \ {heap[h].key : h \in DeadWith(s)} |->
                 feedbackHandleHash[k]]
         /\ feedbackHandles' = [x \in Sessions \X Names \X Backends |->
              IF x[1] = s \/ feedbackHandles[x] \in DeadWith(s) THEN Null ELSE feedbackHandles[x]]
         /\ session[s] = "ready" /\ session' = [session EXCEPT ![s] = "none"]
         /\ feedbackHash' = [feedbackHash EXCEPT ![s] = {}]
         /\ events' = DropCalls(events, s)
         /\ UNCHANGED <<links, theming, setupInProgress, stack>>
  <1>1. TypeOK
    BY DEF IInv
  <1>2. DOMAIN feedbackHandles = Sessions \X Names \X Backends
    BY <1>1 DEF TypeOK
  <1>3. ASSUME NEW h
        PROVE  UsesOf(s, h) \in Nat
    <2>1. {x \in Mine(s) : feedbackHandles[x] = h} \in SUBSET (Sessions \X Names \X Backends)
      BY <1>2 DEF Mine
    <2>2. QED
      BY <2>1, FiniteFeedbacks, FS_Subset, FS_CardinalityType DEF UsesOf
  <1>4. /\ heap' = [h \in DOMAIN heap \ DeadWith(s) |->
                      [heap[h] EXCEPT !.refCnt = heap[h].refCnt - UsesOf(s, h)]]
        /\ feedbackHandleHash' =
              [k \in DOMAIN feedbackHandleHash \ {heap[h].key : h \in DeadWith(s)} |->
                 feedbackHandleHash[k]]
        /\ feedbackHandles' = [x \in DOMAIN feedbackHandles |->
             IF x \in Mine(s) \/ feedbackHandles[x] \in DeadWith(s) THEN Null ELSE feedbackHandles[x]]
        /\ session[s] = "ready" /\ session' = [session EXCEPT ![s] = "none"]
        /\ feedbackHash' = [feedbackHash EXCEPT ![s] = {}]
        /\ events' = DropCalls(events, s)
        /\ UNCHANGED <<links, theming, setupInProgress, stack>>
    BY DEF Delete, Restrict, DeadWith, UsesOf, Mine
  <1>5. \A x \in DOMAIN feedbackHandles : x \in Mine(s) <=> x[1] = s
    BY DEF Mine
  <1>6. feedbackHandles' = [x \in Sessions \X Names \X Backends |->
              IF x[1] = s \/ feedbackHandles[x] \in DeadWith(s) THEN Null ELSE feedbackHandles[x]]
    BY <1>2, <1>4, <1>5
  <1>7. DOMAIN heap' = DOMAIN heap \ DeadWith(s)
    BY <1>4
  <1>8. ASSUME NEW h \in DOMAIN heap'
        PROVE  /\ heap'[h] \in HandleRecords
               /\ heap'[h].refCnt = heap[h].refCnt - UsesOf(s, h)
               /\ heap'[h].key = heap[h].key /\ heap'[h].epoch = heap[h].epoch
    <2> DEFINE n == heap[h].refCnt - UsesOf(s, h)
    <2>1. heap[h] \in HandleRecords
      BY <1>1, <1>7 DEF TypeOK
    <2>2. n \in Int
      <3>1. heap[h].refCnt \in Int /\ UsesOf(s, h) \in Int
        BY <1>3, <2>1 DEF HandleRecords
      <3>2. QED
        BY <3>1
    <2>3. heap'[h] = [heap[h] EXCEPT !.refCnt = n]
      BY <1>4, <1>7
    <2>4. n = heap[h].refCnt - UsesOf(s, h)
      OBVIOUS
    <2> HIDE DEF n
    <2>5. QED
      BY <2>1, <2>2, <2>3, <2>4, Counted
  <1>9. QED
    BY <1>3, <1>4, <1>6, <1>7, <1>8

LEMMA DeleteType ==
  ASSUME IInv, NEW s \in Sessions, Delete(s)
  PROVE  IInv'
  <1>1. TypeOK /\ Locked /\ \A i \in DOMAIN stack : FrameRight(stack[i])
    BY DEF IInv
  <1>2. /\ session[s] = "ready" /\ session' = [session EXCEPT ![s] = "none"]
        /\ feedbackHash' = [feedbackHash EXCEPT ![s] = {}] /\ events' = DropCalls(events, s)
        /\ UNCHANGED <<links, theming, setupInProgress, stack>>
    BY DeleteIs
  <1>3. HeapType(heap')
    <2>1. /\ DOMAIN heap' = DOMAIN heap \ DeadWith(s)
          /\ \A h \in DOMAIN heap' : heap'[h] \in HandleRecords
      BY DeleteIs
    <2>2. heap' = [h \in DOMAIN heap' |-> heap'[h]]
      BY DeleteIs DEF Delete
    <2>3. QED
      BY <1>1, <2>1, <2>2 DEF TypeOK, HeapType
  <1>4. CacheType(feedbackHandleHash')
    <2>1. feedbackHandleHash' =
              [k \in DOMAIN feedbackHandleHash \ {heap[h].key : h \in DeadWith(s)} |->
                 feedbackHandleHash[k]]
      BY DeleteIs
    <2> DEFINE cut == {heap[h].key : h \in DeadWith(s)}
    <2> HIDE DEF cut
    <2>2. feedbackHandleHash' = [k \in DOMAIN feedbackHandleHash \ cut |-> feedbackHandleHash[k]]
      BY <2>1 DEF cut
    <2>3. QED
      BY <1>1, <2>2 DEF TypeOK, CacheType
  <1>5. feedbackHandles' \in [Sessions \X Names \X Backends -> Handles \cup {Null}]
    <2>1. feedbackHandles' = [x \in Sessions \X Names \X Backends |->
              IF x[1] = s \/ feedbackHandles[x] \in DeadWith(s) THEN Null ELSE feedbackHandles[x]]
      BY DeleteIs
    <2>2. QED
      BY <1>1, <2>1 DEF TypeOK
  <1>6. events' \in Seq(Calls)
    BY <1>1, <1>2, Dropped DEF TypeOK
  <1>7. /\ session' \in [Sessions -> {"none", "scheduled", "setup", "ready"}]
        /\ feedbackHash' \in [Sessions -> SUBSET Names]
    BY <1>1, <1>2 DEF TypeOK
  <1>8. TypeOK'
    BY <1>1, <1>2, <1>3, <1>4, <1>5, <1>6, <1>7 DEF TypeOK, HeapType, CacheType, links, theming
  <1>9. /\ \A r \in Sessions : session'[r] = IF r = s THEN "none" ELSE session[r]
        /\ \A r \in Sessions : r # s => feedbackHash'[r] = feedbackHash[r]
    BY <1>1, <1>2 DEF TypeOK
  <1>10. \A i \in DOMAIN stack : stack[i].on \in Sessions
    BY <1>1, StackType, FrameFields
  <1>11. Locked'
    BY <1>1, <1>2, <1>9, <1>10 DEF Locked, OneSetupAtATime
  <1>12. \A i \in DOMAIN stack : FrameRight(stack[i])'
    BY <1>1, <1>2, <1>9, <1>10 DEF FrameRight, NameAt
  <1>13. QED
    BY <1>2, <1>8, <1>11, <1>12 DEF IInv

\* Every step keeps the types and the lock.
LEMMA IInvStep ==
  ASSUME IInv, [Next]_vars
  PROVE  IInv'
  <1>1. CASE \E b \in Backends : Lose(b) \/ Establish(b)
    BY <1>1, LoseType, EstablishType
  <1>2. CASE backendConnected \/ backendDisconnected \/ \E t \in Themes : loadTheme(t)
    BY <1>2, backendConnectedType, backendDisconnectedType, loadThemeType
  <1>3. CASE \E s \in Sessions : NewSession(s) \/ setup(s) \/ Delete(s)
    BY <1>3, NewSessionType, setupType, DeleteType
  <1>4. CASE UNCHANGED vars \/ \E s \in Sessions : setupLater(s)
    <2>1. UNCHANGED vars
      BY <1>4 DEF setupLater
    <2>2. UNCHANGED <<session, feedbackHash, setupInProgress, stack>>
      BY <2>1 DEF vars, sessions
    <2>3. TypeOK'
      BY <2>1 DEF IInv, TypeOK, vars, links, theming, objects, sessions
    <2>4. QED
      BY <2>2, <2>3, SlotsKept DEF IInv
  <1>5. CASE themeChanged \/ LoadFromCache \/ SkipFeedback \/ BeginUpload
    BY <1>5, themeChangedType, LoadFromCacheType, SkipFeedbackType, BeginUploadType
  <1>6. CASE EndUpload \/ UploadFails \/ Return \/ Abandon
    BY <1>6, EndUploadType, UploadFailsType, ReturnType, AbandonType
  <1>7. QED
    BY <1>1, <1>2, <1>3, <1>4, <1>5, <1>6 DEF Next

THEOREM TypesAndLock == Spec => []IInv
  <1>1. Init => IInv
    BY IInvInit
  <1>2. IInv /\ [Next]_vars => IInv'
    BY IInvStep
  <1>3. QED
    BY <1>1, <1>2, PTL DEF Spec

\* Every variable keeps its type, whatever the order of the losses, theme changes,
\* connections and slots: no position leaves the lists, and nothing is counted or cached
\* but handles.
THEOREM TypeCorrect == Spec => []TypeOK
  <1>1. IInv => TypeOK
    BY DEF IInv
  <1>2. QED
    BY <1>1, TypesAndLock, PTL

\* Two sessions are never in setup() together, even when the upload of one runs an event
\* loop that serves the others: the static setupInProgress of MfSession::setup keeps them apart.
THEOREM SetupsApart == Spec => []OneSetupAtATime
  <1>1. IInv => OneSetupAtATime
    BY DEF IInv, Locked
  <1>2. QED
    BY <1>1, TypesAndLock, PTL

-----------------------------------------------------------------------------
(* The objects, when no slot is called inside another.                     *)

\* What is posted keeps the losses.
LEMMA LossKept ==
  ASSUME NEW b,
         \A x \in Range(events) : x.slot = "backendDisconnected" => x \in Range(events)',
         UNCHANGED links
  PROVE  \A e : Current(b, e) => Current(b, e)'
  <1>1. Lost(b) => Lost(b)'
    <2>1. [slot |-> "backendDisconnected", on |-> b].slot = "backendDisconnected"
      OBVIOUS
    <2>2. QED
      BY <2>1 DEF Lost
  <1>2. QED
    BY <1>1 DEF Current, links

\* The backend of a slot that uploads is one of the list.
LEMMA Uploading ==
  ASSUME IInv, stack # <<>>, top.busy
  PROVE  top.pos <= Slots /\ backend \in Backends
  <1>1. top \in Frames /\ FrameRight(top)
    BY StackType DEF IInv, top
  <1>2. top.pos <= Slots /\ top.pos \in 1 .. Slots + 1
    BY <1>1, FrameFields DEF FrameRight
  <1>3. top.pos \in 1 .. Slots
    BY <1>2, Constants
  <1>4. BackendAt(top.pos) \in Backends /\ backend = BackendAt(top.pos)
    BY <1>3, Place DEF backend, BackendAt
  <1>5. QED
    BY <1>2, <1>4

\* What is true of the objects alone.
LEMMA ObjectsSame ==
  ASSUME Pointed, RefCountExact, Cache, UNCHANGED objects
  PROVE  Pointed' /\ RefCountExact' /\ Cache'
  <1>1. UNCHANGED <<heap, feedbackHandleHash, feedbackHandles>>
    BY DEF objects
  <1>2. QED
    BY <1>1 DEF Pointed, RefCountExact, Users, Cache, CacheExact

\* Steps that leave the objects and the slots alone.
LEMMA ObjectsKept ==
  ASSUME AInv, IInv', UNCHANGED <<objects, stack>>,
         \A b \in Backends : \A e : Current(b, e) => Current(b, e)'
  PROVE  AInv'
  <1>1. IInv /\ Pointed /\ RefCountExact /\ Cache /\ Fresh /\ Atomic
    BY DEF AInv
  <1>2. UNCHANGED <<heap, feedbackHandleHash, feedbackHandles, stack>>
    BY DEF objects
  <1>3. Pointed' /\ RefCountExact' /\ Cache'
    BY <1>1, ObjectsSame
  <1>4. Fresh'
    <2>1. \A h \in DOMAIN heap : heap[h].key[2] \in Backends
      BY <1>1 DEF IInv, TypeOK, HandleRecords, Keys
    <2>2. QED
      BY <1>1, <1>2, <2>1 DEF Fresh
  <1>5. Atomic'
    <2>1. UNCHANGED <<top, dirs, backend, here>>
      BY <1>2 DEF top, dirs, backend, here, name
    <2>2. stack # <<>> /\ top.busy => Current(backend, top.epoch)'
      <3> SUFFICES ASSUME stack # <<>>, top.busy
                   PROVE  Current(backend, top.epoch)'
        OBVIOUS
      <3>1. backend \in Backends /\ Current(backend, top.epoch)
        BY <1>1, Uploading DEF Atomic
      <3>2. PICK b \in Backends : b = backend
        BY <3>1
      <3>3. PICK e : e = top.epoch
        OBVIOUS
      <3>4. Current(b, e)'
        BY <3>1, <3>2, <3>3
      <3>5. QED
        BY <2>1, <3>2, <3>3, <3>4 DEF Current, Lost
    <2>3. QED
      BY <1>1, <1>2, <2>1, <2>2 DEF Atomic
  <1>6. QED
    BY <1>1, <1>3, <1>4, <1>5 DEF AInv

\* Steps that leave the objects and the backends alone, and the queue but for calls that
\* are not losses.
LEMMA ObjectsStay ==
  ASSUME AInv, UNCHANGED <<links, objects>>,
         \A x \in Range(events) : x.slot = "backendDisconnected" => x \in Range(events)'
  PROVE  Pointed' /\ RefCountExact' /\ Cache' /\ Fresh'
  <1>1. IInv /\ Pointed /\ RefCountExact /\ Cache /\ Fresh
    BY DEF AInv
  <1>2. UNCHANGED heap
    BY DEF objects
  <1>3. Pointed' /\ RefCountExact' /\ Cache'
    BY <1>1, ObjectsSame
  <1>4. \A b : \A e : Current(b, e) => Current(b, e)'
    BY LossKept
  <1>5. QED
    BY <1>1, <1>2, <1>3, <1>4 DEF Fresh

LEMMA AInvInit == Init => AInv
  <1> SUFFICES ASSUME Init
               PROVE  AInv
    OBVIOUS
  <1>1. IInv
    BY IInvInit
  <1>2. heap = [h \in {} |-> Null] /\ feedbackHandleHash = [k \in {} |-> Null] /\ stack = <<>>
        /\ feedbackHandles = [x \in Sessions \X Names \X Backends |-> Null]
    BY DEF Init
  <1>3. DOMAIN heap = {} /\ DOMAIN feedbackHandleHash = {} /\ Len(stack) <= 1
    BY <1>2
  <1>4. QED
    BY <1>1, <1>2, <1>3 DEF AInv, Pointed, RefCountExact, Cache, CacheExact, Fresh, Atomic

\* Without local event loops a slot is called only when none runs.
LEMMA NoneRuns ==
  ASSUME ~Nested, CanDispatch
  PROVE  stack = <<>>
  BY DEF CanDispatch, Idle

LEMMA LoseAtomic ==
  ASSUME AInv, NEW b \in Backends, Lose(b)
  PROVE  AInv'
  <1>1. IInv /\ IInv'
    BY LoseType DEF AInv
  <1>2. /\ connected' = [connected EXCEPT ![b] = FALSE]
        /\ events' = Append(events, [slot |-> "backendDisconnected", on |-> b])
        /\ UNCHANGED <<epoch, theming, objects, sessions, stack>>
    BY DEF Lose
  <1>3. [slot |-> "backendDisconnected", on |-> b] \in Calls /\ events \in Seq(Calls)
    BY <1>1 DEF Calls, IInv, TypeOK
  <1>4. Range(events) \subseteq Range(events)' /\ Lost(b)'
    BY <1>2, <1>3, Appended DEF Lost
  <1>5. \A c \in Backends : Lost(c) => Lost(c)'
    BY <1>4 DEF Lost
  <1>6. \A c \in Backends : c # b => connected'[c] = connected[c]
    BY <1>1, <1>2 DEF IInv, TypeOK
  <1>7. ASSUME NEW c \in Backends, NEW e, Current(c, e)
        PROVE  Current(c, e)'
    BY <1>2, <1>4, <1>5, <1>6, <1>7 DEF Current
  <1>8. QED
    BY <1>1, <1>2, <1>7, ObjectsKept

LEMMA EstablishAtomic ==
  ASSUME AInv, NEW b \in Backends, Establish(b)
  PROVE  AInv'
  <1>1. IInv /\ IInv'
    BY EstablishType DEF AInv
  <1>2. /\ ~connected[b] /\ ~Lost(b)
        /\ connected' = [connected EXCEPT ![b] = TRUE] /\ epoch' = [epoch EXCEPT ![b] = @ + 1]
        /\ events' = Append(events, [slot |-> "backendConnected", on |-> b])
        /\ UNCHANGED <<theming, objects, sessions, stack>>
    BY DEF Establish, Lost
  <1>3. [slot |-> "backendConnected", on |-> b] \in Calls /\ events \in Seq(Calls)
    BY <1>1 DEF Calls, IInv, TypeOK
  <1>4. Range(events) \subseteq Range(events)'
    BY <1>2, <1>3, Appended
  <1>5. \A c \in Backends : Lost(c) => Lost(c)'
    BY <1>4 DEF Lost
  <1>6. \A c \in Backends : c # b => connected'[c] = connected[c] /\ epoch'[c] = epoch[c]
    BY <1>1, <1>2 DEF IInv, TypeOK
  <1>7. ASSUME NEW c \in Backends, NEW e, Current(c, e)
        PROVE  Current(c, e)'
    BY <1>2, <1>5, <1>6, <1>7 DEF Current
  <1>8. QED
    BY <1>1, <1>2, <1>7, ObjectsKept

LEMMA backendConnectedAtomic ==
  ASSUME AInv, backendConnected
  PROVE  AInv'
  <1>1. IInv /\ IInv' /\ TypeOK
    BY backendConnectedType DEF AInv, IInv
  <1>2. /\ events' = PostThemeChanged(Tail(events), currentTheme) /\ Head(events).slot = "backendConnected"
        /\ UNCHANGED <<links, theming, objects, sessions, stack>>
    BY DEF backendConnected, Next1
  <1>3. /\ Tail(events) \in Seq(Calls) /\ currentTheme \in Themes
        /\ \A x \in Range(events) : x # Head(events) => x \in Range(Tail(events))
    BY <1>1, Called DEF backendConnected, TypeOK
  <1>4. Range(Tail(events)) \subseteq Range(events)'
    BY <1>2, <1>3, Posted
  <1>5. \A x \in Range(events) : x.slot = "backendDisconnected" => x \in Range(events)'
    BY <1>2, <1>3, <1>4
  <1>6. QED
    BY <1>1, <1>2, <1>5, LossKept, ObjectsKept

LEMMA loadThemeAtomic ==
  ASSUME AInv, NEW t \in Themes, loadTheme(t)
  PROVE  AInv'
  <1>1. IInv /\ IInv' /\ events \in Seq(Calls)
    BY loadThemeType DEF AInv, IInv, TypeOK
  <1>2. /\ events' = PostThemeChanged(events, t)
        /\ UNCHANGED <<links, objects, sessions, stack>>
    BY DEF loadTheme
  <1>3. Range(events) \subseteq Range(events)'
    BY <1>1, <1>2, Posted
  <1>4. QED
    BY <1>1, <1>2, <1>3, LossKept, ObjectsKept

LEMMA NewSessionAtomic ==
  ASSUME AInv, NEW s \in Sessions, NewSession(s)
  PROVE  AInv'
  <1>1. IInv /\ IInv'
    BY NewSessionType DEF AInv
  <1>2. UNCHANGED <<links, objects, events, stack>>
    BY DEF NewSession
  <1>3. QED
    BY <1>1, <1>2, LossKept, ObjectsKept

\* A slot is called.
LEMMA EnterAtomic ==
  ASSUME AInv, stack = <<>>, NEW kind \in {"setup", "themeChanged"}, NEW s \in Sessions,
         NEW theme \in Themes, Enter(kind, s, theme)
  PROVE  Atomic'
  <1> DEFINE f == [kind |-> kind, on |-> s, theme |-> theme, pos |-> 1, dir |-> 1,
                   old |-> Null, busy |-> FALSE, epoch |-> 0]
  <1>1. stack' = <<f>> \o stack
    BY DEF Enter
  <1>2. f.dir = 1 /\ f.busy = FALSE
    OBVIOUS
  <1> HIDE DEF f
  <1>3. stack' = <<f>>
    BY <1>1
  <1>4. Len(stack') <= 1 /\ stack'[1] = f
    BY <1>3
  <1>5. QED
    BY <1>2, <1>4 DEF Atomic, top

LEMMA setupAtomic ==
  ASSUME AInv, ~Nested, NEW s \in Sessions, setup(s)
  PROVE  AInv'
  <1>1. IInv /\ IInv' /\ currentTheme \in Themes
    BY setupType DEF AInv, IInv, TypeOK
  <1>2. /\ stack = <<>> /\ Enter("setup", s, currentTheme) /\ UNCHANGED <<links, objects, events>>
    BY NoneRuns DEF setup
  <1>3. Atomic'
    BY <1>1, <1>2, EnterAtomic
  <1>4. QED
    BY <1>1, <1>2, <1>3, ObjectsStay DEF AInv

LEMMA themeChangedAtomic ==
  ASSUME AInv, ~Nested, themeChanged
  PROVE  AInv'
  <1> DEFINE s == Head(events).on
             t == Head(events).theme
  <1>1. IInv /\ IInv' /\ TypeOK
    BY themeChangedType DEF AInv, IInv
  <1>2. /\ stack = <<>> /\ Enter("themeChanged", s, t) /\ Head(events).slot = "themeChanged"
        /\ events' = Tail(events) /\ UNCHANGED <<links, objects>>
    BY NoneRuns DEF themeChanged, Next1
  <1>3. /\ s \in Sessions /\ t \in Themes
        /\ \A x \in Range(events) : x # Head(events) => x \in Range(Tail(events))
    BY <1>1, Called DEF themeChanged
  <1>4. \A x \in Range(events) : x.slot = "backendDisconnected" => x \in Range(events)'
    BY <1>2, <1>3
  <1> HIDE DEF s, t
  <1>5. Atomic'
    BY <1>2, <1>3, EnterAtomic
  <1>6. QED
    BY <1>1, <1>2, <1>4, <1>5, ObjectsStay DEF AInv

LEMMA backendDisconnectedAtomic ==
  ASSUME AInv, ~Nested, backendDisconnected
  PROVE  AInv'
  <1> DEFINE b == Head(events).on
             dead == HandlesOf(b)
             kept == {k \in DOMAIN feedbackHandleHash : feedbackHandleHash[k] \notin dead}
  <1>1. /\ IInv /\ IInv' /\ TypeOK /\ Pointed /\ RefCountExact /\ Cache /\ Fresh
    BY backendDisconnectedType DEF AInv, IInv
  <1>2. /\ stack = <<>> /\ UNCHANGED <<links, stack>> /\ events' = Tail(events)
        /\ heap' = [h \in DOMAIN heap \ dead |-> heap[h]]
        /\ feedbackHandleHash' = [k \in kept |-> feedbackHandleHash[k]]
        /\ feedbackHandles' = [x \in DOMAIN feedbackHandles |->
             IF feedbackHandles[x] \in dead THEN Null ELSE feedbackHandles[x]]
    BY NoneRuns DEF backendDisconnected, Restrict, RestrictValues, Forget, Next1
  <1>3. /\ b \in Backends /\ Head(events) = [slot |-> "backendDisconnected", on |-> b]
        /\ \A x \in Range(events) : x # Head(events) => x \in Range(Tail(events))
    BY <1>1, Called DEF backendDisconnected
  <1>4. \A h \in DOMAIN heap : h \in dead <=> heap[h].key[2] = b
    BY <1>1 DEF HandlesOf, Cache, CacheExact, Range
  <1>5. \A h \in DOMAIN heap : h \in Handles /\ h # Null
    BY <1>1, CacheAssumption DEF TypeOK
  <1> HIDE DEF b, dead, kept
  <1>6. /\ DOMAIN heap' = DOMAIN heap \ dead
        /\ \A h \in DOMAIN heap' : h \in DOMAIN heap /\ heap'[h] = heap[h]
    BY <1>2
  <1>7. /\ DOMAIN feedbackHandles' = DOMAIN feedbackHandles
        /\ \A x \in DOMAIN feedbackHandles :
             feedbackHandles'[x] = IF feedbackHandles[x] \in dead THEN Null ELSE feedbackHandles[x]
    BY <1>2
  <1>8. Pointed'
    BY <1>1, <1>6, <1>7 DEF Pointed
  <1>9. RefCountExact'
    <2>1. ASSUME NEW h \in DOMAIN heap'
          PROVE  Users(h)' = Users(h)
      BY <1>5, <1>6, <1>7 DEF Users
    <2>2. QED
      BY <1>1, <1>6, <2>1 DEF RefCountExact
  <1>10. Cache'
    <2>1. /\ DOMAIN feedbackHandleHash' = kept
          /\ \A k \in kept : feedbackHandleHash'[k] = feedbackHandleHash[k]
      BY <1>2
    <2>2. \A k \in kept : k \in DOMAIN feedbackHandleHash /\ feedbackHandleHash[k] \notin dead
      BY DEF kept
    <2>3. \A h \in DOMAIN heap' : heap[h].key \in kept
      BY <1>1, <1>6 DEF Cache, CacheExact, kept
    <2>4. QED
      BY <1>1, <1>6, <2>1, <2>2, <2>3 DEF Cache, CacheExact
  <1>11. Fresh'
    <2>1. ASSUME NEW c, c # b, Lost(c)
          PROVE  Lost(c)'
      <3> DEFINE x == [slot |-> "backendDisconnected", on |-> c]
      <3>1. x # Head(events)
        <4>1. x.on # Head(events).on
          BY <2>1 DEF b
        <4>2. QED
          BY <4>1
      <3>2. QED
        BY <1>2, <1>3, <2>1, <3>1 DEF Lost
    <2>2. ASSUME NEW h \in DOMAIN heap'
          PROVE  Current(heap[h].key[2], heap[h].epoch)'
      <3>1. h \in DOMAIN heap /\ heap'[h] = heap[h] /\ heap[h].key[2] # b
        BY <1>4, <1>6
      <3>2. Current(heap[h].key[2], heap[h].epoch)
        BY <1>1, <3>1 DEF Fresh
      <3>3. PICK c : c = heap[h].key[2]
        OBVIOUS
      <3>4. c = heap[h].key[2] /\ c = heap'[h].key[2] /\ c # b
        BY <3>1, <3>3
      <3>5. QED
        BY <1>2, <2>1, <3>1, <3>2, <3>4 DEF Current, links, Lost
    <2>3. QED
      BY <2>2 DEF Fresh
  <1>12. Atomic'
    BY <1>2 DEF Atomic
  <1>13. QED
    BY <1>1, <1>8, <1>9, <1>10, <1>11, <1>12 DEF AInv

\* The slot that runs, when it is the only one.
LEMMA OnlyTop ==
  ASSUME AInv, stack # <<>>
  PROVE  Len(stack) = 1
  <1>1. Len(stack) \in Nat /\ stack \in Seq(Frames) /\ Len(stack) <= 1
    BY StackType DEF AInv, IInv, Atomic
  <1>2. Len(stack) # 0
    BY <1>1, EmptySeq
  <1> DEFINE n == Len(stack)
  <1>3. n \in Nat /\ n <= 1 /\ n # 0
    BY <1>1, <1>2
  <1> HIDE DEF n
  <1>4. n = 1
    BY <1>3
  <1>5. QED
    BY <1>4 DEF n

LEMMA ReturnAtomic ==
  ASSUME AInv, Return \/ Abandon
  PROVE  AInv'
  <1>1. IInv /\ IInv' /\ stack \in Seq(Frames)
    BY ReturnType, AbandonType DEF AInv, IInv, TypeOK
  <1>2. stack # <<>> /\ stack' = Tail(stack) /\ UNCHANGED <<links, objects, events>>
    BY DEF Return, Abandon, Running, Alive
  <1>3. stack' \in Seq(Frames) /\ Len(stack') = 0
    <2>1. Len(stack) = 1
      BY <1>2, OnlyTop
    <2>2. stack' \in Seq(Frames) /\ Len(stack') = Len(stack) - 1
      BY <1>1, <1>2, HeadTailProperties
    <2>3. QED
      BY <2>1, <2>2
  <1>4. stack' = <<>>
    BY <1>3, EmptySeq
  <1>5. Atomic'
    BY <1>3, <1>4 DEF Atomic
  <1>6. QED
    BY <1>1, <1>2, <1>5, ObjectsStay DEF AInv

LEMMA SkipFeedbackAtomic ==
  ASSUME AInv, SkipFeedback
  PROVE  AInv'
  <1> DEFINE g == [top EXCEPT !.pos = top.pos + Len(BackendList)]
  <1>1. IInv /\ IInv' /\ TypeOK /\ Alive /\ ~top.busy /\ top.pos <= Slots
    BY SkipFeedbackType DEF AInv, IInv, SkipFeedback, AtSlot, Running
  <1>2. /\ stack # <<>> /\ top \in Frames /\ session[top.on] # "none" /\ FrameRight(top)
        /\ name = NameAt(top.pos)
    BY <1>1, Standing
  <1>3. Len(stack) = 1 /\ stack \in Seq(Frames)
    BY <1>1, <1>2, OnlyTop DEF TypeOK
  <1>4. /\ top.kind = "themeChanged" /\ name \notin feedbackHash[top.on]
        /\ stack' = [stack EXCEPT ![1] = g] /\ UNCHANGED <<links, objects, events>>
    BY <1>3 DEF SkipFeedback, top
  <1>5. top.dir = 1
    BY <1>1, <1>2, <1>4 DEF FrameRight
  <1>6. g.dir = top.dir /\ g.busy = top.busy
    BY <1>2 DEF Frames
  <1> HIDE DEF g
  <1>7. Len(stack') = 1 /\ top' = g
    BY <1>3, <1>4 DEF top
  <1>8. Atomic'
    BY <1>1, <1>5, <1>6, <1>7 DEF Atomic
  <1>9. QED
    BY <1>1, <1>4, <1>8, ObjectsStay DEF AInv

LEMMA BeginUploadAtomic ==
  ASSUME AInv, BeginUpload
  PROVE  AInv'
  <1> DEFINE g == [top EXCEPT !.dir = Found, !.old = old, !.busy = TRUE, !.epoch = epoch[backend]]
  <1>1. /\ IInv /\ IInv' /\ TypeOK /\ Cache /\ Atomic /\ AtSlot /\ Alive /\ ~top.busy
        /\ top.pos <= Slots
    BY BeginUploadType DEF AInv, IInv, BeginUpload, AtSlot, Running
  <1>2. stack # <<>> /\ top \in Frames /\ backend \in Backends
    BY <1>1, Standing
  <1>3. Len(stack) = 1 /\ stack \in Seq(Frames)
    BY <1>2, OnlyTop DEF AInv, IInv, TypeOK
  <1>4. /\ Found # 0 /\ ~Cached(dirs[Found]) /\ stack' = [stack EXCEPT ![1] = g]
        /\ UNCHANGED <<links, objects, events>>
    BY <1>3 DEF BeginUpload, top
  <1>5. old = feedbackHandles[here]
    BY <1>1, <1>2 DEF old, Atomic
  <1>6. /\ g.on = top.on /\ g.pos = top.pos /\ g.theme = top.theme /\ g.dir = Found /\ g.old = old
        /\ g.epoch = epoch[backend]
    BY <1>2 DEF Frames
  <1>7. connected[backend] /\ <<dirs[Found], backend>> \notin DOMAIN feedbackHandleHash
    BY <1>1, <1>4, FoundIs DEF Loadable, Cached, Cache, CacheExact
  <1> HIDE DEF g
  <1>8. Len(stack') = 1 /\ top' = g
    BY <1>3, <1>4 DEF top
  <1>9. /\ name' = name /\ backend' = backend /\ dirs' = dirs /\ here' = here
    BY <1>6, <1>8 DEF name, backend, dirs, here
  <1>10. top'.old = feedbackHandles'[here']
    BY <1>4, <1>5, <1>6, <1>8, <1>9 DEF objects
  <1>11. <<dirs'[top'.dir], backend'>> \notin DOMAIN feedbackHandleHash'
    BY <1>4, <1>6, <1>7, <1>8, <1>9 DEF objects
  <1>12. Current(backend, top.epoch)'
    BY <1>4, <1>6, <1>7, <1>8, <1>9 DEF Current, links
  <1>13. Atomic'
    BY <1>8, <1>10, <1>11, <1>12 DEF Atomic
  <1>14. QED
    BY <1>1, <1>4, <1>13, ObjectsStay DEF AInv

LEMMA UploadFailsAtomic ==
  ASSUME AInv, UploadFails
  PROVE  AInv'
  <1> DEFINE g == [top EXCEPT !.busy = FALSE, !.dir = top.dir + 1]
  <1>1. IInv /\ IInv' /\ TypeOK /\ Atomic /\ top.busy /\ stack # <<>>
    BY UploadFailsType DEF AInv, IInv, UploadFails, Alive
  <1>2. Len(stack) = 1 /\ stack \in Seq(Frames) /\ top \in Frames
    BY <1>1, OnlyTop, StackType DEF TypeOK
  <1>3. stack' = [stack EXCEPT ![1] = g] /\ UNCHANGED <<links, objects, events>>
    BY <1>2 DEF UploadFails, top
  <1>4. /\ g.on = top.on /\ g.pos = top.pos /\ g.theme = top.theme /\ g.busy = FALSE
        /\ g.old = top.old
    BY <1>2 DEF Frames
  <1> HIDE DEF g
  <1>5. Len(stack') = 1 /\ top' = g
    BY <1>2, <1>3 DEF top
  <1>6. here' = here
    BY <1>4, <1>5 DEF name, backend, here
  <1>7. top'.old = feedbackHandles'[here']
    BY <1>1, <1>3, <1>4, <1>5, <1>6 DEF objects, Atomic
  <1>8. Atomic'
    BY <1>4, <1>5, <1>7 DEF Atomic
  <1>9. QED
    BY <1>1, <1>3, <1>8, ObjectsStay DEF AInv

LEMMA FiniteUsers ==
  ASSUME TypeOK, NEW h
  PROVE  IsFiniteSet(Users(h)) /\ Cardinality(Users(h)) \in Nat
  <1>1. Users(h) \in SUBSET (Sessions \X Names \X Backends)
    BY DEF Users, TypeOK
  <1>2. QED
    BY <1>1, FiniteFeedbacks, FS_Subset, FS_CardinalityType

\* The session that is deleted lets go of what it held; a handle dies with its last user.
LEMMA DeleteAtomic ==
  ASSUME AInv, ~Nested, NEW s \in Sessions, Delete(s)
  PROVE  AInv'
  <1> DEFINE dead == DeadWith(s)
             mine(h) == {x \in Mine(s) : feedbackHandles[x] = h}
  <1>1. /\ IInv /\ IInv' /\ TypeOK /\ Pointed /\ RefCountExact /\ Cache /\ Fresh
    BY DeleteType DEF AInv, IInv
  <1>2. /\ \A h : UsesOf(s, h) \in Nat
        /\ DOMAIN heap' = DOMAIN heap \ DeadWith(s)
        /\ \A h \in DOMAIN heap' :
             /\ heap'[h].refCnt = heap[h].refCnt - UsesOf(s, h)
             /\ heap'[h].key = heap[h].key /\ heap'[h].epoch = heap[h].epoch
        /\ feedbackHandleHash' =
             [k \in DOMAIN feedbackHandleHash \ {heap[h].key : h \in DeadWith(s)} |->
                feedbackHandleHash[k]]
        /\ feedbackHandles' = [x \in Sessions \X Names \X Backends |->
             IF x[1] = s \/ feedbackHandles[x] \in DeadWith(s) THEN Null ELSE feedbackHandles[x]]
        /\ events' = DropCalls(events, s)
        /\ UNCHANGED <<links, stack>>
    BY <1>1, DeleteIs
  <1>3. stack = <<>>
    BY NoneRuns DEF Delete
  <1>4. /\ DOMAIN feedbackHandles = Sessions \X Names \X Backends
        /\ \A h \in DOMAIN heap : h # Null
    BY <1>1, CacheAssumption DEF TypeOK
  <1>5. ASSUME NEW h
        PROVE  /\ mine(h) \in SUBSET Users(h) /\ UsesOf(s, h) = Cardinality(mine(h))
               /\ IsFiniteSet(Users(h)) /\ IsFiniteSet(mine(h))
               /\ UsesOf(s, h) <= Cardinality(Users(h)) /\ Cardinality(Users(h)) \in Nat
    <2>1. mine(h) \in SUBSET Users(h)
      BY DEF Mine, Users
    <2>2. UsesOf(s, h) = Cardinality(mine(h))
      BY DEF UsesOf
    <2> HIDE DEF mine
    <2>3. QED
      BY <1>1, <2>1, <2>2, FiniteUsers, FS_Subset
  <1>6. ASSUME NEW h \in dead
        PROVE  Users(h) = mine(h)
    <2>1. h \in DOMAIN heap /\ heap[h].refCnt <= UsesOf(s, h)
      BY DEF DeadWith
    <2>2. heap[h].refCnt = Cardinality(Users(h))
      BY <1>1, <2>1 DEF RefCountExact
    <2>3. Cardinality(Users(h)) = Cardinality(mine(h))
      BY <1>2, <1>5, <2>1, <2>2
    <2> HIDE DEF mine
    <2>4. QED
      BY <1>5, <2>3, FS_Subset
  <1>7. ASSUME NEW x \in DOMAIN feedbackHandles
        PROVE  feedbackHandles'[x] = IF x[1] = s THEN Null ELSE feedbackHandles[x]
    <2>1. feedbackHandles[x] \in dead => x[1] = s
      BY <1>6 DEF Users, Mine
    <2>2. QED
      BY <1>2, <1>4, <2>1
  <1>8. DOMAIN feedbackHandles' = DOMAIN feedbackHandles
    BY <1>2, <1>4
  <1>9. \A x \in DOMAIN feedbackHandles : feedbackHandles[x] \in dead => x[1] = s
    BY <1>6 DEF Users, Mine
  <1>10. \A h \in DOMAIN heap' : h \in DOMAIN heap /\ h \notin dead
    BY <1>2
  <1>11. Pointed'
    <2> HIDE DEF dead
    <2>1. ASSUME NEW x \in DOMAIN feedbackHandles', feedbackHandles'[x] # Null
          PROVE  feedbackHandles'[x] \in DOMAIN heap' /\ heap'[feedbackHandles'[x]].key[2] = x[3]
      <3>1. x \in DOMAIN feedbackHandles /\ feedbackHandles'[x] = feedbackHandles[x] /\ x[1] # s
        BY <1>7, <1>8, <2>1
      <3>2. feedbackHandles[x] \in DOMAIN heap /\ heap[feedbackHandles[x]].key[2] = x[3]
        BY <1>1, <2>1, <3>1 DEF Pointed
      <3>3. feedbackHandles[x] \in DOMAIN heap'
        BY <1>2, <1>9, <3>1, <3>2 DEF dead
      <3>4. QED
        BY <1>2, <3>1, <3>2, <3>3
    <2>2. QED
      BY <2>1 DEF Pointed
  <1>12. RefCountExact'
    <2>1. ASSUME NEW h \in DOMAIN heap'
          PROVE  heap'[h].refCnt = Cardinality(Users(h)') /\ heap'[h].refCnt > 0
      <3>1. h \in DOMAIN heap /\ h \notin dead /\ h # Null
        BY <1>4, <1>10
      <3>2. Users(h)' = Users(h) \ mine(h)
        BY <1>7, <1>8, <3>1 DEF Users, Mine
      <3>3. Users(h) \cap mine(h) = mine(h)
        BY <1>5
      <3> HIDE DEF mine
      <3>4. Cardinality(Users(h)') = Cardinality(Users(h)) - UsesOf(s, h)
        <4>1. IsFiniteSet(Users(h)) /\ UsesOf(s, h) = Cardinality(mine(h))
          BY <1>5
        <4>2. Cardinality(Users(h) \ mine(h)) =
                Cardinality(Users(h)) - Cardinality(Users(h) \cap mine(h))
          BY <4>1, FS_Difference
        <4>3. QED
          BY <3>2, <3>3, <4>1, <4>2
      <3>5. heap[h].refCnt = Cardinality(Users(h)) /\ heap[h].refCnt > 0
        BY <1>1, <3>1 DEF RefCountExact
      <3>6. heap[h].refCnt - UsesOf(s, h) > 0
        <4>1. UsesOf(s, h) \in Nat /\ heap[h].refCnt \in Nat
          BY <1>2, <1>5, <3>5
        <4>2. UsesOf(s, h) = 0 \/ ~(heap[h].refCnt <= UsesOf(s, h))
          BY <3>1, <4>1 DEF DeadWith
        <4>3. QED
          BY <3>5, <4>1, <4>2
      <3>7. heap'[h].refCnt = heap[h].refCnt - UsesOf(s, h)
        BY <1>2
      <3>8. QED
        BY <3>4, <3>5, <3>6, <3>7
    <2>2. QED
      BY <2>1 DEF RefCountExact
  <1>13. Cache'
    <2> DEFINE cut == {heap[h].key : h \in dead}
    <2>1. /\ DOMAIN feedbackHandleHash' = DOMAIN feedbackHandleHash \ cut
          /\ \A k \in DOMAIN feedbackHandleHash' : feedbackHandleHash'[k] = feedbackHandleHash[k]
      BY <1>2
    <2>2. \A h \in dead : h \in DOMAIN heap
      BY DEF DeadWith
    <2>3. ASSUME NEW k \in DOMAIN feedbackHandleHash'
          PROVE  feedbackHandleHash[k] \in DOMAIN heap' /\ heap'[feedbackHandleHash[k]].key = k
      <3>1. k \in DOMAIN feedbackHandleHash /\ k \notin cut
        BY <2>1
      <3>2. feedbackHandleHash[k] \in DOMAIN heap /\ heap[feedbackHandleHash[k]].key = k
        BY <1>1, <3>1 DEF Cache, CacheExact
      <3>3. feedbackHandleHash[k] \notin dead
        BY <3>1, <3>2
      <3>4. QED
        BY <1>2, <3>2, <3>3
    <2>4. ASSUME NEW h \in DOMAIN heap'
          PROVE  /\ heap'[h].key \in DOMAIN feedbackHandleHash'
                 /\ feedbackHandleHash'[heap'[h].key] = h
      <3>1. h \in DOMAIN heap /\ h \notin dead /\ heap'[h].key = heap[h].key
        BY <1>2
      <3>2. heap[h].key \in DOMAIN feedbackHandleHash /\ feedbackHandleHash[heap[h].key] = h
        BY <1>1, <3>1 DEF Cache, CacheExact
      <3>3. \A d \in dead : feedbackHandleHash[heap[d].key] = d
        BY <1>1, <2>2 DEF Cache, CacheExact
      <3>4. heap[h].key \notin cut
        BY <3>1, <3>2, <3>3
      <3>5. QED
        BY <2>1, <3>1, <3>2, <3>4
    <2> HIDE DEF cut
    <2>5. QED
      BY <2>1, <2>3, <2>4 DEF Cache, CacheExact
  <1>14. Fresh'
    <2>1. \A x \in Range(events) : x.slot = "backendDisconnected" => x \in Range(events)'
      BY <1>1, <1>2, Dropped DEF TypeOK
    <2>2. \A b : \A e : Current(b, e) => Current(b, e)'
      BY <1>2, <2>1, LossKept
    <2>3. \A h \in DOMAIN heap' : /\ Current(heap[h].key[2], heap[h].epoch)
                                  /\ heap'[h].key = heap[h].key /\ heap'[h].epoch = heap[h].epoch
      BY <1>1, <1>2 DEF Fresh
    <2>4. QED
      BY <2>2, <2>3 DEF Fresh
  <1>15. Atomic'
    BY <1>2, <1>3 DEF Atomic
  <1>16. QED
    BY <1>1, <1>11, <1>12, <1>13, <1>14, <1>15 DEF AInv

-----------------------------------------------------------------------------
(* A feedback that changes its handle.                                     *)

\* The objects are right with the heap hp and the cache, but for a handle nobody uses yet.
RightWith(hp, cache, new) ==
    /\ HeapType(hp) /\ CacheType(cache)
    /\ \A x \in DOMAIN feedbackHandles :
         feedbackHandles[x] # Null => /\ feedbackHandles[x] \in DOMAIN hp
                                      /\ hp[feedbackHandles[x]].key[2] = x[3]
    /\ \A h \in DOMAIN hp : /\ hp[h].refCnt = Cardinality(Users(h))
                            /\ h # new => hp[h].refCnt > 0
    /\ \A k \in DOMAIN cache : cache[k] \in DOMAIN hp /\ hp[cache[k]].key = k
    /\ \A h \in DOMAIN hp : hp[h].key \in DOMAIN cache /\ cache[hp[h].key] = h
    /\ \A h \in DOMAIN hp : Current(hp[h].key[2], hp[h].epoch)
    /\ new # Null => new \in DOMAIN hp /\ hp[new].key[2] = backend

\* Who holds a handle once the feedback that is loaded has its new one.
UsersPlaced(h, new) ==
    {x \in DOMAIN feedbackHandles : [feedbackHandles EXCEPT ![here] = new][x] = h}

LEMMA PlacedUsers ==
  ASSUME TypeOK, here \in DOMAIN feedbackHandles, NEW new, NEW h
  PROVE  Cardinality(UsersPlaced(h, new)) =
           Cardinality(Users(h)) + One(h = new) - One(h = feedbackHandles[here])
  <1>1. IsFiniteSet(Users(h)) /\ Cardinality(Users(h)) \in Nat
    BY FiniteUsers
  <1> DEFINE n == Cardinality(Users(h))
  <1>2. n \in Nat
    BY <1>1
  <1>3. CASE h = new /\ h # feedbackHandles[here]
    <2>1. UsersPlaced(h, new) = Users(h) \cup {here} /\ here \notin Users(h)
      BY <1>3 DEF UsersPlaced, Users
    <2>2. Cardinality(UsersPlaced(h, new)) = n + 1
      BY <1>1, <2>1, FS_AddElement
    <2>3. One(h = new) = 1 /\ One(h = feedbackHandles[here]) = 0
      BY <1>3 DEF One
    <2> HIDE DEF n
    <2>4. n + 1 = n + 1 - 0
      BY <1>2
    <2>5. QED
      BY <2>2, <2>3, <2>4 DEF n
  <1>4. CASE h # new /\ h = feedbackHandles[here]
    <2>1. UsersPlaced(h, new) = Users(h) \ {here} /\ here \in Users(h)
      BY <1>4 DEF UsersPlaced, Users
    <2>2. Cardinality(UsersPlaced(h, new)) = n - 1
      BY <1>1, <2>1, FS_RemoveElement
    <2>3. One(h = new) = 0 /\ One(h = feedbackHandles[here]) = 1
      BY <1>4 DEF One
    <2> HIDE DEF n
    <2>4. n - 1 = n + 0 - 1
      BY <1>2
    <2>5. QED
      BY <2>2, <2>3, <2>4 DEF n
  <1>5. CASE (h = new) <=> (h = feedbackHandles[here])
    <2>1. UsersPlaced(h, new) = Users(h)
      BY <1>5 DEF UsersPlaced, Users
    <2>2. One(h = new) = One(h = feedbackHandles[here]) /\ One(h = new) \in Int
      BY <1>5 DEF One
    <2> DEFINE a == One(h = new)
    <2> HIDE DEF n, a
    <2>3. a \in Int /\ n = n + a - a
      BY <1>2, <2>2 DEF a
    <2>4. QED
      BY <2>1, <2>2, <2>3 DEF n, a
  <1>6. QED
    BY <1>3, <1>4, <1>5

\* What the settling does: the handle that is let go goes with its last user only.
LEMMA SettlePlaces ==
  ASSUME AInv, Alive, top.pos <= Slots, old = feedbackHandles[here],
         NEW hp, NEW cache, NEW new \in Handles \cup {Null}, RightWith(hp, cache, new),
         Settle(new, hp, cache)
  PROVE  /\ SettledAs(hp, new, cache)
         /\ LastOf(hp, new) => UsersPlaced(old, new) = {}
         /\ feedbackHandles' = Placed(new)
  <1> DEFINE placed == [feedbackHandles EXCEPT ![here] = new]
             o == feedbackHandles[here]
             last == o \in DOMAIN hp /\ hp[o].refCnt + One(o = new) <= 1
  <1>1. /\ TypeOK /\ IInv
        /\ feedbackHandles \in [Sessions \X Names \X Backends -> Handles \cup {Null}]
        /\ here \in DOMAIN feedbackHandles /\ here[3] = backend
    BY Standing DEF AInv, IInv, TypeOK, here
  <1>2. /\ HeapType(hp) /\ CacheType(cache) /\ (new # Null => new \in DOMAIN hp)
        /\ \A x \in DOMAIN feedbackHandles :
             feedbackHandles[x] # Null => /\ feedbackHandles[x] \in DOMAIN hp
                                          /\ hp[feedbackHandles[x]].key[2] = x[3]
        /\ \A h \in DOMAIN hp : /\ hp[h].refCnt = Cardinality(Users(h))
                                /\ h # new => hp[h].refCnt > 0
        /\ \A k \in DOMAIN cache : cache[k] \in DOMAIN hp /\ hp[cache[k]].key = k
        /\ \A h \in DOMAIN hp : hp[h].key \in DOMAIN cache /\ cache[hp[h].key] = h
        /\ \A h \in DOMAIN hp : Current(hp[h].key[2], hp[h].epoch)
        /\ new # Null => hp[new].key[2] = backend
    BY DEF RightWith
  <1>3. /\ DOMAIN heap' = IF last THEN DOMAIN hp \ {o} ELSE DOMAIN hp
        /\ \A h \in DOMAIN heap' :
             /\ heap'[h].refCnt = hp[h].refCnt + One(h = new) - One(h = o)
             /\ heap'[h].key = hp[h].key /\ heap'[h].epoch = hp[h].epoch
        /\ feedbackHandleHash' =
             IF last THEN [k \in DOMAIN cache \ {hp[o].key} |-> cache[k]] ELSE cache
        /\ feedbackHandles' = IF last THEN [x \in DOMAIN feedbackHandles |->
                                              IF placed[x] = o THEN Null ELSE placed[x]]
                              ELSE placed
        /\ Advance
    <2>1. SettledAs(hp, new, cache)
      BY <1>1, <1>2, SettleIs
    <2>2. old = o /\ Placed(new) = placed
      BY DEF Placed
    <2>3. LastOf(hp, new) <=> last
      BY <2>2 DEF LastOf
    <2> HIDE DEF o, placed, last
    <2>4. QED
      BY <2>1, <2>2, <2>3 DEF SettledAs
  <1>4. \A h \in DOMAIN hp : h \in Handles /\ h # Null /\ Cardinality(Users(h)) \in Nat
    BY <1>1, <1>2, FiniteUsers, CacheAssumption DEF HeapType
  <1>5. \A h \in DOMAIN hp :
          Cardinality(UsersPlaced(h, new)) = hp[h].refCnt + One(h = new) - One(h = o)
    BY <1>1, <1>2, PlacedUsers
  <1>6. One(TRUE) = 1 /\ One(FALSE) = 0 /\ \A p \in BOOLEAN : One(p) \in {0, 1}
    BY DEF One
  <1> HIDE DEF o
  <1>7. last => UsersPlaced(o, new) = {}
    <2> SUFFICES ASSUME last
                 PROVE  UsersPlaced(o, new) = {}
      OBVIOUS
    <2> DEFINE n == hp[o].refCnt
               a == One(o = new)
    <2>1. n \in Nat /\ a \in {0, 1} /\ n + a <= 1 /\ One(o = o) = 1
      BY <1>2, <1>4, <1>6
    <2>2. IsFiniteSet(UsersPlaced(o, new))
      BY <1>1, FiniteFeedbacks, FS_Subset DEF UsersPlaced
    <2>3. Cardinality(UsersPlaced(o, new)) = n + a - 1
      BY <1>5, <2>1
    <2>4. Cardinality(UsersPlaced(o, new)) \in Nat
      BY <2>2, FS_CardinalityType
    <2> HIDE DEF n, a, last
    <2>5. Cardinality(UsersPlaced(o, new)) = 0
      BY <2>1, <2>3, <2>4
    <2>6. QED
      BY <2>2, <2>5, FS_EmptySet
  <1>8. feedbackHandles' = placed
    <2>1. last => \A x \in DOMAIN feedbackHandles : placed[x] # o
      BY <1>7 DEF UsersPlaced
    <2> HIDE DEF last
    <2>2. placed = [x \in DOMAIN feedbackHandles |-> placed[x]]
      OBVIOUS
    <2> HIDE DEF placed
    <2>3. QED
      BY <1>3, <2>1, <2>2
  <1>9. SettledAs(hp, new, cache)
    BY <1>1, <1>2, SettleIs
  <1>10. (LastOf(hp, new) <=> last) /\ old = o /\ Placed(new) = placed
    BY DEF LastOf, Placed, o
  <1> HIDE DEF last, placed
  <1>11. QED
    BY <1>7, <1>8, <1>9, <1>10

\* The new handle is attached before the old one is let go, and the old one dies with its last
\* user: counts, pointers and cache stay right.
LEMMA SettleAtomic ==
  ASSUME AInv, IInv', Alive, top.pos <= Slots, old = feedbackHandles[here],
         top.kind = "setup" \/ name \in feedbackHash[top.on],
         NEW hp, NEW cache, NEW new \in Handles \cup {Null}, RightWith(hp, cache, new),
         Settle(new, hp, cache),
         UNCHANGED <<links, theming, session, setupInProgress, events>>
  PROVE  AInv'
  <1> DEFINE placed == [feedbackHandles EXCEPT ![here] = new]
             o == feedbackHandles[here]
             last == o \in DOMAIN hp /\ hp[o].refCnt + One(o = new) <= 1
  <1>1. /\ TypeOK /\ IInv
        /\ feedbackHandles \in [Sessions \X Names \X Backends -> Handles \cup {Null}]
        /\ here \in DOMAIN feedbackHandles /\ here[3] = backend
    BY Standing DEF AInv, IInv, TypeOK, here
  <1>2. /\ HeapType(hp) /\ CacheType(cache) /\ (new # Null => new \in DOMAIN hp)
        /\ \A x \in DOMAIN feedbackHandles :
             feedbackHandles[x] # Null => /\ feedbackHandles[x] \in DOMAIN hp
                                          /\ hp[feedbackHandles[x]].key[2] = x[3]
        /\ \A h \in DOMAIN hp : /\ hp[h].refCnt = Cardinality(Users(h))
                                /\ h # new => hp[h].refCnt > 0
        /\ \A k \in DOMAIN cache : cache[k] \in DOMAIN hp /\ hp[cache[k]].key = k
        /\ \A h \in DOMAIN hp : hp[h].key \in DOMAIN cache /\ cache[hp[h].key] = h
        /\ \A h \in DOMAIN hp : Current(hp[h].key[2], hp[h].epoch)
        /\ new # Null => hp[new].key[2] = backend
    BY DEF RightWith
  <1>3. /\ DOMAIN heap' = IF last THEN DOMAIN hp \ {o} ELSE DOMAIN hp
        /\ \A h \in DOMAIN heap' :
             /\ heap'[h].refCnt = hp[h].refCnt + One(h = new) - One(h = o)
             /\ heap'[h].key = hp[h].key /\ heap'[h].epoch = hp[h].epoch
        /\ feedbackHandleHash' =
             IF last THEN [k \in DOMAIN cache \ {hp[o].key} |-> cache[k]] ELSE cache
        /\ feedbackHandles' = IF last THEN [x \in DOMAIN feedbackHandles |->
                                              IF placed[x] = o THEN Null ELSE placed[x]]
                              ELSE placed
        /\ Advance
    <2>1. SettledAs(hp, new, cache)
      BY <1>1, <1>2, SettleIs
    <2>2. old = o /\ Placed(new) = placed
      BY DEF Placed
    <2>3. LastOf(hp, new) <=> last
      BY <2>2 DEF LastOf
    <2> HIDE DEF o, placed, last
    <2>4. QED
      BY <2>1, <2>2, <2>3 DEF SettledAs
  <1>4. \A h \in DOMAIN hp : h \in Handles /\ h # Null /\ Cardinality(Users(h)) \in Nat
    BY <1>1, <1>2, FiniteUsers, CacheAssumption DEF HeapType
  <1>5. \A h \in DOMAIN hp :
          Cardinality(UsersPlaced(h, new)) = hp[h].refCnt + One(h = new) - One(h = o)
    BY <1>1, <1>2, PlacedUsers
  <1>6. One(TRUE) = 1 /\ One(FALSE) = 0 /\ \A p \in BOOLEAN : One(p) \in {0, 1}
    BY DEF One
  <1> HIDE DEF o
  <1>7. last => UsersPlaced(o, new) = {}
    BY SettlePlaces DEF LastOf, o
  <1>8. feedbackHandles' = placed
    BY SettlePlaces DEF Placed
  <1>9. \A h : Users(h)' = UsersPlaced(h, new)
    BY <1>8 DEF Users, UsersPlaced
  <1>10. \A h \in DOMAIN heap' : h \in DOMAIN hp /\ (last => h # o)
    BY <1>3
  <1>11. RefCountExact'
    <2>1. ASSUME NEW h \in DOMAIN heap'
          PROVE  heap'[h].refCnt = Cardinality(Users(h)') /\ heap'[h].refCnt > 0
      <3> DEFINE n == hp[h].refCnt
                 a == One(h = new)
                 b == One(h = o)
      <3>1. heap'[h].refCnt = n + a - b /\ heap'[h].refCnt = Cardinality(Users(h)')
        BY <1>3, <1>5, <1>9, <1>10
      <3>2. n \in Nat /\ a \in {0, 1} /\ b \in {0, 1}
        BY <1>2, <1>4, <1>6, <1>10
      <3>3. n + a > b
        <4>1. CASE h # o
          <5>1. b = 0 /\ (h # new => n > 0) /\ (h = new => a = 1)
            BY <1>2, <1>6, <1>10, <4>1
          <5> HIDE DEF n, a, b
          <5>2. QED
            BY <3>2, <5>1
        <4>2. CASE h = o
          <5>1. ~(n + a <= 1) /\ b = 1
            BY <1>6, <1>10, <4>2
          <5> HIDE DEF n, a, b
          <5>2. QED
            BY <3>2, <5>1
        <4>3. QED
          BY <4>1, <4>2
      <3> HIDE DEF n, a, b
      <3>4. n + a - b > 0
        BY <3>2, <3>3
      <3>5. QED
        BY <3>1, <3>4
    <2>2. QED
      BY <2>1 DEF RefCountExact
  <1>12. ASSUME NEW x \in DOMAIN feedbackHandles, placed[x] # Null
         PROVE  placed[x] \in DOMAIN heap' /\ heap'[placed[x]].key[2] = x[3]
    <2>1. placed[x] \in DOMAIN hp /\ hp[placed[x]].key[2] = x[3]
      <3>1. placed[x] = IF x = here THEN new ELSE feedbackHandles[x]
        OBVIOUS
      <3>2. CASE x = here
        BY <1>1, <1>2, <1>12, <3>1, <3>2
      <3>3. CASE x # here
        BY <1>2, <1>12, <3>1, <3>3
      <3>4. QED
        BY <3>2, <3>3
    <2>2. last => placed[x] # o
      BY <1>7 DEF UsersPlaced
    <2> HIDE DEF placed, last
    <2>3. placed[x] \in DOMAIN heap'
      BY <1>3, <2>1, <2>2
    <2>4. QED
      BY <1>3, <2>1, <2>3
  <1>13. Pointed'
    BY <1>8, <1>12 DEF Pointed
  <1>14. Cache'
    <2>1. CASE last
      <3>1. /\ DOMAIN feedbackHandleHash' = DOMAIN cache \ {hp[o].key}
            /\ \A k \in DOMAIN feedbackHandleHash' : feedbackHandleHash'[k] = cache[k]
            /\ DOMAIN heap' = DOMAIN hp \ {o} /\ o \in DOMAIN hp
        BY <1>3, <2>1
      <3> HIDE DEF last
      <3>2. ASSUME NEW k \in DOMAIN feedbackHandleHash'
            PROVE  feedbackHandleHash'[k] \in DOMAIN heap' /\ heap'[feedbackHandleHash'[k]].key = k
        BY <1>2, <1>3, <3>1
      <3>3. ASSUME NEW h \in DOMAIN heap'
            PROVE  heap'[h].key \in DOMAIN feedbackHandleHash' /\ feedbackHandleHash'[heap'[h].key] = h
        BY <1>2, <1>3, <3>1
      <3>4. QED
        BY <3>2, <3>3 DEF Cache, CacheExact
    <2>2. CASE ~last
      <3>1. feedbackHandleHash' = cache /\ DOMAIN heap' = DOMAIN hp
        BY <1>3, <2>2
      <3> HIDE DEF last
      <3>2. QED
        BY <1>2, <1>3, <3>1 DEF Cache, CacheExact
    <2>3. QED
      BY <2>1, <2>2
  <1>15. Fresh'
    <2>1. \A b : \A e : Current(b, e) => Current(b, e)'
      BY DEF Current, Lost, links
    <2> HIDE DEF last
    <2>2. \A h \in DOMAIN heap' : /\ Current(hp[h].key[2], hp[h].epoch)
                                  /\ heap'[h].key = hp[h].key /\ heap'[h].epoch = hp[h].epoch
      BY <1>2, <1>3, <1>10
    <2>3. QED
      BY <2>1, <2>2 DEF Fresh
  <1>16. Atomic'
    <2>1. stack # <<>>
      BY DEF Alive
    <2>2. Len(stack) = 1
      BY <2>1, OnlyTop
    <2>3. Len(stack') = Len(stack) /\ stack'[1].dir = 1 /\ ~stack'[1].busy
      BY <1>1, <1>3, Advanced
    <2>4. QED
      BY <2>2, <2>3 DEF Atomic, top
  <1>17. QED
    BY <1>11, <1>13, <1>14, <1>15, <1>16 DEF AInv

\* The handle to be replaced is the one the feedback holds.
LEMMA OldIs ==
  ASSUME AInv, stack # <<>>
  PROVE  old = feedbackHandles[here]
  <1>1. top.busy \/ top.dir # 1 => top.old = feedbackHandles[here]
    BY DEF AInv, Atomic
  <1>2. QED
    BY <1>1 DEF old

\* What the cache gives may be placed.
LEMMA CachedRight ==
  ASSUME AInv, LoadFromCache, NEW new,
         new = IF Found = 0 THEN Null ELSE feedbackHandleHash[<<dirs[Found], backend>>]
  PROVE  /\ Alive /\ top.pos <= Slots
         /\ top.kind = "setup" \/ name \in feedbackHash[top.on]
         /\ new \in Handles \cup {Null} /\ RightWith(heap, feedbackHandleHash, new)
         /\ Settle(new, heap, feedbackHandleHash)
         /\ UNCHANGED <<links, theming, session, setupInProgress, events>>
         /\ Found # 0 => new # Null /\ heap[new].key = <<dirs[Found], backend>>
  <1>1. /\ AtSlot /\ Alive /\ top.pos <= Slots /\ stack # <<>>
        /\ top.kind = "setup" \/ name \in feedbackHash[top.on]
        /\ Settle(new, heap, feedbackHandleHash)
        /\ UNCHANGED <<links, theming, session, setupInProgress, events>>
    BY DEF LoadFromCache, AtSlot, Running, Alive
  <1>2. /\ IInv /\ TypeOK /\ Pointed /\ RefCountExact /\ Cache /\ Fresh
    BY DEF AInv, IInv
  <1>3. /\ new \in Handles \cup {Null} /\ (new # Null => new \in DOMAIN heap /\ heap[new].key[2] = backend)
        /\ Found # 0 => new # Null /\ heap[new].key = <<dirs[Found], backend>>
    <2>1. CASE Found = 0
      BY <2>1
    <2>2. CASE Found # 0
      <3> DEFINE key == <<dirs[Found], backend>>
      <3>1. /\ feedbackHandleHash[key] \in Handles /\ feedbackHandleHash[key] \in DOMAIN heap
            /\ key \in DOMAIN feedbackHandleHash
        BY <1>1, <1>2, <2>2, FromCache DEF LoadFromCache
      <3>2. heap[feedbackHandleHash[key]].key = key /\ key[2] = backend
        BY <1>2, <3>1 DEF Cache
      <3>3. new = feedbackHandleHash[key] /\ new # Null
        BY <2>2, <3>1, CacheAssumption
      <3>4. QED
        BY <2>2, <3>1, <3>2, <3>3
    <2>3. QED
      BY <2>1, <2>2
  <1>4. HeapType(heap) /\ CacheType(feedbackHandleHash)
    BY <1>2 DEF TypeOK, HeapType, CacheType
  <1>5. RightWith(heap, feedbackHandleHash, new)
    BY <1>2, <1>3, <1>4 DEF RightWith, Pointed, RefCountExact, Cache, CacheExact, Fresh
  <1>6. QED
    BY <1>1, <1>3, <1>5

LEMMA LoadFromCacheAtomic ==
  ASSUME AInv, LoadFromCache
  PROVE  AInv'
  <1>1. PICK new :
          new = IF Found = 0 THEN Null ELSE feedbackHandleHash[<<dirs[Found], backend>>]
    OBVIOUS
  <1>2. /\ Alive /\ top.pos <= Slots
        /\ top.kind = "setup" \/ name \in feedbackHash[top.on]
        /\ new \in Handles \cup {Null} /\ RightWith(heap, feedbackHandleHash, new)
        /\ Settle(new, heap, feedbackHandleHash)
        /\ UNCHANGED <<links, theming, session, setupInProgress, events>>
    BY <1>1, CachedRight
  <1>3. IInv' /\ old = feedbackHandles[here]
    BY <1>2, LoadFromCacheType, OldIs DEF AInv, Alive
  <1>4. QED
    BY <1>2, <1>3, SettleAtomic

\* What is uploaded is new, and may be placed.
LEMMA UploadedRight ==
  ASSUME AInv, EndUpload
  PROVE  RightWith(HeapWith(Fresh1), CacheWith(Fresh1), Fresh1)
  <1> DEFINE new == Fresh1
             hp == HeapWith(Fresh1)
             cache == CacheWith(Fresh1)
             d == dirs[top.dir]
             key == <<d, backend>>
  <1>1. /\ IInv /\ TypeOK /\ Pointed /\ RefCountExact /\ Cache /\ Fresh /\ Atomic
    BY DEF AInv, IInv
  <1>2. /\ Alive /\ top.busy /\ top.pos <= Slots
        /\ top.kind = "setup" \/ name \in feedbackHash[top.on]
        /\ new \in Handles /\ new \notin DOMAIN heap /\ HeapType(hp) /\ CacheType(cache)
        /\ Settle(new, hp, cache)
        /\ UNCHANGED <<links, theming, session, setupInProgress, events>>
    BY <1>1, Uploaded
  <1>3. stack # <<>>
    BY <1>2 DEF Alive
  <1>4. key \notin DOMAIN feedbackHandleHash /\ Current(backend, top.epoch)
    BY <1>1, <1>2, <1>3 DEF Atomic
  <1>5. /\ DOMAIN hp = DOMAIN heap \cup {new}
        /\ hp[new] = Loaded(d) /\ \A h \in DOMAIN heap : h # new /\ hp[h] = heap[h]
    BY <1>2 DEF HeapWith
  <1>6. /\ DOMAIN cache = DOMAIN feedbackHandleHash \cup {key} /\ cache[key] = new
        /\ \A k \in DOMAIN feedbackHandleHash : cache[k] = feedbackHandleHash[k]
    BY <1>4 DEF CacheWith, WithCached
  <1>7. /\ Loaded(d).key = key /\ Loaded(d).key[2] = backend /\ Loaded(d).refCnt = 0
        /\ Loaded(d).epoch = top.epoch
    BY DEF Loaded
  <1> HIDE DEF new, hp, cache, key, d
  <1>8. \A x \in DOMAIN feedbackHandles : feedbackHandles[x] # new
    BY <1>1, <1>2, CacheAssumption DEF Pointed
  <1>9. Cardinality(Users(new)) = 0
    <2>1. Users(new) = {}
      BY <1>8 DEF Users
    <2>2. QED
      BY <2>1, FS_EmptySet
  <1>10. ASSUME NEW x \in DOMAIN feedbackHandles, feedbackHandles[x] # Null
         PROVE  feedbackHandles[x] \in DOMAIN hp /\ hp[feedbackHandles[x]].key[2] = x[3]
    BY <1>1, <1>5, <1>10 DEF Pointed
  <1>11. ASSUME NEW h \in DOMAIN hp
         PROVE  /\ hp[h].refCnt = Cardinality(Users(h)) /\ (h # new => hp[h].refCnt > 0)
                /\ hp[h].key \in DOMAIN cache /\ cache[hp[h].key] = h
                /\ Current(hp[h].key[2], hp[h].epoch)
    <2>1. CASE h = new
      BY <1>4, <1>5, <1>6, <1>7, <1>9, <2>1
    <2>2. CASE h # new
      <3>1. h \in DOMAIN heap /\ hp[h] = heap[h]
        BY <1>5, <2>2
      <3>2. /\ heap[h].key \in DOMAIN feedbackHandleHash /\ feedbackHandleHash[heap[h].key] = h
            /\ heap[h].refCnt = Cardinality(Users(h)) /\ heap[h].refCnt > 0
            /\ Current(heap[h].key[2], heap[h].epoch)
        BY <1>1, <3>1 DEF Cache, CacheExact, RefCountExact, Fresh
      <3>3. QED
        BY <1>6, <3>1, <3>2
    <2>3. QED
      BY <2>1, <2>2
  <1>12. ASSUME NEW k \in DOMAIN cache
         PROVE  cache[k] \in DOMAIN hp /\ hp[cache[k]].key = k
    <2>1. CASE k = key
      BY <1>5, <1>6, <1>7, <2>1
    <2>2. CASE k # key
      <3>1. k \in DOMAIN feedbackHandleHash /\ cache[k] = feedbackHandleHash[k]
        BY <1>6, <2>2
      <3>2. feedbackHandleHash[k] \in DOMAIN heap /\ heap[feedbackHandleHash[k]].key = k
        BY <1>1, <3>1 DEF Cache, CacheExact
      <3>3. QED
        BY <1>5, <3>1, <3>2
    <2>3. QED
      BY <2>1, <2>2
  <1>13. RightWith(hp, cache, new)
    BY <1>2, <1>5, <1>7, <1>10, <1>11, <1>12 DEF RightWith
  <1>14. QED
    BY <1>13 DEF new, hp, cache

LEMMA EndUploadAtomic ==
  ASSUME AInv, EndUpload
  PROVE  AInv'
  <1>1. PICK new, hp, cache : new = Fresh1 /\ hp = HeapWith(Fresh1) /\ cache = CacheWith(Fresh1)
    OBVIOUS
  <1>2. /\ Alive /\ top.pos <= Slots
        /\ top.kind = "setup" \/ name \in feedbackHash[top.on]
        /\ new \in Handles /\ Settle(new, hp, cache)
        /\ UNCHANGED <<links, theming, session, setupInProgress, events>>
    BY <1>1, Uploaded DEF AInv
  <1>3. IInv' /\ old = feedbackHandles[here] /\ RightWith(hp, cache, new)
    BY <1>1, <1>2, EndUploadType, OldIs, UploadedRight DEF AInv, Alive
  <1>4. QED
    BY <1>2, <1>3, SettleAtomic

\* Every step keeps the objects right.
LEMMA AInvStep ==
  ASSUME AInv, ~Nested, [Next]_vars
  PROVE  AInv'
  <1>1. CASE \E b \in Backends : Lose(b) \/ Establish(b)
    BY <1>1, LoseAtomic, EstablishAtomic
  <1>2. CASE backendConnected \/ backendDisconnected \/ \E t \in Themes : loadTheme(t)
    BY <1>2, backendConnectedAtomic, backendDisconnectedAtomic, loadThemeAtomic
  <1>3. CASE \E s \in Sessions : NewSession(s) \/ setup(s) \/ Delete(s)
    BY <1>3, NewSessionAtomic, setupAtomic, DeleteAtomic
  <1>4. CASE UNCHANGED vars \/ \E s \in Sessions : setupLater(s)
    <2>1. UNCHANGED vars
      BY <1>4 DEF setupLater
    <2>2. UNCHANGED <<links, objects, events, stack>>
      BY <2>1 DEF vars
    <2>3. IInv'
      BY <2>1, IInvStep DEF AInv
    <2>4. QED
      BY <2>2, <2>3, LossKept, ObjectsKept
  <1>5. CASE themeChanged \/ LoadFromCache \/ SkipFeedback \/ BeginUpload
    BY <1>5, themeChangedAtomic, LoadFromCacheAtomic, SkipFeedbackAtomic, BeginUploadAtomic
  <1>6. CASE EndUpload \/ UploadFails \/ Return \/ Abandon
    BY <1>6, EndUploadAtomic, UploadFailsAtomic, ReturnAtomic
  <1>7. QED
    BY <1>1, <1>2, <1>3, <1>4, <1>5, <1>6 DEF Next

\* The inductive invariant of the objects holds when no backend runs an event loop of its own.
THEOREM ObjectsRight ==
  ASSUME ~Nested
  PROVE  Spec => []AInv
  <1>1. Init => AInv
    BY AInvInit
  <1>2. AInv /\ [Next]_vars => AInv'
    BY AInvStep
  <1>3. QED
    BY <1>1, <1>2, PTL DEF Spec

\* Unless a backend runs an event loop of its own, the reference count of every handle is the
\* number of feedbacks that hold it and is never 0: attach before detach never deletes a
\* handle under a feedback and never forgets one.
THEOREM CountsRight ==
  ASSUME ~Nested
  PROVE  Spec => []RefCountExact
  <1>1. AInv => RefCountExact
    BY DEF AInv
  <1>2. QED
    BY <1>1, ObjectsRight, PTL

\* Unless a backend runs an event loop of its own, MfManager's cache and the living handles
\* are the same: no entry outlives its handle and nothing is uploaded twice.
THEOREM CacheRight ==
  ASSUME ~Nested
  PROVE  Spec => []CacheExact
  <1>1. AInv => CacheExact
    BY DEF AInv, Cache
  <1>2. QED
    BY <1>1, ObjectsRight, PTL

\* Unless a backend runs an event loop of its own, a handle that is played was uploaded over
\* the connection its backend has now, however often it lost others.
THEOREM PlaysFresh ==
  ASSUME ~Nested
  PROVE  Spec => []PlaysFreshHandle
  <1>1. AInv => PlaysFreshHandle
    <2> SUFFICES ASSUME AInv, NEW x \in DOMAIN feedbackHandles, Played(x)
                 PROVE  heap[feedbackHandles[x]].epoch = epoch[x[3]]
      BY DEF PlaysFreshHandle
    <2>1. feedbackHandles[x] \in DOMAIN heap /\ feedbackHandles[x] # Null
      BY CacheAssumption DEF Played, AInv, IInv, TypeOK
    <2>2. heap[feedbackHandles[x]].key[2] = x[3]
      BY <2>1 DEF AInv, Pointed
    <2>3. QED
      BY <2>1, <2>2 DEF AInv, Fresh, Current
  <1>2. QED
    BY <1>1, ObjectsRight, PTL

-----------------------------------------------------------------------------
(* Which directory a feedback ends up with.  As long as a backend is        *)
(* connected, each of its feedbacks has the handle of the current theme, or *)
(* something is still to come that will give it one: the news of the        *)
(* connection, a themeChanged() posted to the session, or the rest of the   *)
(* slot that runs for the session.                                          *)

\* A theme change is posted to the session.
ThemeCall(call, s) == call.slot = "themeChanged" /\ call.on = s
ToldIn(queue, s) == \E i \in DOMAIN queue : ThemeCall(queue[i], s)
Told(s) == ToldIn(events, s)

\* The last theme change posted to each session is to the theme.
EndsWith(queue, theme) ==
    \A i \in DOMAIN queue :
        queue[i].slot = "themeChanged" =>
          \/ queue[i].theme = theme
          \/ \E j \in DOMAIN queue : j > i /\ ThemeCall(queue[j], queue[i].on)

\* The place of the best directory with content for the backend; 0 if there is none.
BestIn(choices, b) ==
    LET good == {i \in DOMAIN choices : Content[b][choices[i]] # "none"}
    IN  IF good = {} THEN 0 ELSE CHOOSE i \in good : \A j \in good : i <= j

\* The slot that runs has yet to come to the feedback.
Ahead(s, n, b) ==
    /\ stack # <<>> /\ top.on = s
    /\ \E q \in top.pos .. Slots : NameAt(q) = n /\ BackendAt(q) = b

\* The news of a connection.
News(b) == [slot |-> "backendConnected", on |-> b] \in Range(events)

Reloads ==
    \A s \in Sessions, n \in Names, b \in Backends :
        session[s] \in {"setup", "ready"} /\ connected[b] =>
          \/ Held(<<s, n, b>>) = Wanted(<<s, n, b>>)
          \/ News(b) \/ Told(s) \/ Ahead(s, n, b)

\* Theme changes are posted to sessions that are alive, the last one is to the current theme,
\* and so is a slot's that runs after it.
Newest ==
    /\ \A i \in DOMAIN events : events[i].slot = "themeChanged" => session[events[i].on] # "none"
    /\ EndsWith(events, currentTheme)
    /\ stack # <<>> /\ ~Told(top.on) => top.theme = currentTheme

\* setup() inserts every feedback, and only its own session is in it.
Inserted ==
    /\ \A s \in Sessions : session[s] = "ready" => feedbackHash[s] = Names
    /\ \A s \in Sessions : session[s] = "setup" => stack # <<>> /\ top.kind = "setup" /\ top.on = s
    /\ stack # <<>> => session[top.on] # "none"
    /\ stack # <<>> /\ top.kind = "setup" =>
         \A q \in 1 .. top.pos - 1 : q % Len(BackendList) = 0 => NameAt(q) \in feedbackHash[top.on]

\* A backend that is connected all through a slot gives the best directory at once.
Sampled ==
    /\ \A h \in DOMAIN heap : Content[heap[h].key[2]][heap[h].key[1]] # "none"
    /\ stack # <<>> /\ top.pos <= Slots /\ connected[backend] =>
         IF top.busy THEN top.dir = BestIn(dirs, backend) ELSE top.dir = 1
    /\ stack # <<>> /\ top.busy => Content[backend][dirs[top.dir]] # "none"

\* A loss whose news are posted is not made good before they are served.
Reported == \A b \in Backends : Lost(b) => ~connected[b]

TInv == Reloads /\ Newest /\ Inserted /\ Sampled /\ Reported

-----------------------------------------------------------------------------
(* Every feedback of every backend has its position.                       *)

\* Quotient and remainder are unique.
LEMMA Divided ==
  ASSUME NEW L \in Nat \ {0}, NEW q \in Nat, NEW r \in 0 .. L - 1, NEW a, a = q * L + r
  PROVE  a \in Nat /\ a \div L = q /\ a % L = r
  <1> DEFINE k == a \div L
             m == a % L
  <1>1. q * L \in Nat
    OBVIOUS
  <1>2. a \in Nat
    BY <1>1
  <1>3. k \in Nat /\ m \in 0 .. L - 1 /\ a = k * L + m
    BY <1>2
  <1> HIDE DEF k, m
  <1>4. k * L \in Nat
    BY <1>3
  <1>5. ~(k < q)
    <2> SUFFICES ASSUME k < q PROVE FALSE
      OBVIOUS
    <2>1. k + 1 <= q
      BY <1>3
    <2>2. (k + 1) * L <= q * L
      BY <1>3, <2>1
    <2>3. (k + 1) * L = k * L + L
      BY <1>3
    <2>4. QED
      BY <1>1, <1>3, <1>4, <2>2, <2>3
  <1>6. ~(q < k)
    <2> SUFFICES ASSUME q < k PROVE FALSE
      OBVIOUS
    <2>1. q + 1 <= k
      BY <1>3
    <2>2. (q + 1) * L <= k * L
      BY <1>3, <2>1
    <2>3. (q + 1) * L = q * L + L
      OBVIOUS
    <2>4. QED
      BY <1>1, <1>3, <1>4, <2>2, <2>3
  <1>7. k = q
    BY <1>3, <1>5, <1>6
  <1>8. m = r
    <2>1. k * L = q * L
      BY <1>7
    <2>2. QED
      BY <1>1, <1>3, <2>1
  <1>9. QED
    BY <1>2, <1>7, <1>8 DEF k, m

\* The position of the i-th feedback's j-th backend.
LEMMA At ==
  ASSUME NEW i \in 1 .. Len(NameList), NEW j \in 1 .. Len(BackendList),
         NEW p, p = (i - 1) * Len(BackendList) + j
  PROVE  /\ p \in 1 .. Slots /\ NameAt(p) = NameList[i] /\ BackendAt(p) = BackendList[j]
         /\ j = Len(BackendList) => p % Len(BackendList) = 0
  <1> DEFINE N == Len(NameList)
             L == Len(BackendList)
  <1>1. /\ N \in Nat \ {0} /\ L \in Nat \ {0} /\ i \in 1 .. N /\ j \in 1 .. L
        /\ p = (i - 1) * L + j /\ Slots = N * L
    BY Constants DEF Slots
  <1> HIDE DEF N, L
  <1>2. i - 1 \in Nat /\ (i - 1) * L \in Nat /\ j - 1 \in 0 .. L - 1 /\ p \in Nat
    BY <1>1
  <1>3. p - 1 = (i - 1) * L + (j - 1)
    BY <1>1, <1>2
  <1>4. (p - 1) \div L = i - 1 /\ (p - 1) % L = j - 1
    <2> DEFINE q == i - 1
               k == j - 1
               a == p - 1
    <2>1. q \in Nat /\ k \in 0 .. L - 1 /\ a = q * L + k
      BY <1>2, <1>3
    <2> HIDE DEF q, k, a
    <2>2. a \div L = q /\ a % L = k
      BY <1>1, <2>1, Divided
    <2>3. QED
      BY <2>2 DEF q, k, a
  <1>5. p \in 1 .. N * L
    <2>1. (i - 1) * L + L = i * L /\ i * L \in Nat
      BY <1>1, <1>2
    <2>2. i * L <= N * L /\ N * L \in Nat
      BY <1>1
    <2>3. QED
      BY <1>1, <1>2, <2>1, <2>2
  <1>6. j = L => p % L = 0
    <2> SUFFICES ASSUME j = L PROVE p % L = 0
      OBVIOUS
    <2> DEFINE q == i
               k == 0
               a == p
    <2>1. a = q * L + k
      BY <1>1, <1>2
    <2>2. L \in Nat \ {0} /\ q \in Nat /\ k \in 0 .. L - 1
      BY <1>1
    <2> HIDE DEF q, k, a
    <2>3. a \div L = q /\ a % L = k
      BY <2>1, <2>2, Divided
    <2>4. QED
      BY <2>3 DEF k, a
  <1>7. (i - 1) + 1 = i /\ (j - 1) + 1 = j
    BY <1>1
  <1>8. QED
    BY <1>1, <1>4, <1>5, <1>6, <1>7 DEF NameAt, BackendAt, L

LEMMA Covered ==
  ASSUME NEW n \in Names
  PROVE  /\ \A b \in Backends : \E q \in 1 .. Slots : NameAt(q) = n /\ BackendAt(q) = b
         /\ \E q \in 1 .. Slots : NameAt(q) = n /\ q % Len(BackendList) = 0
  <1>1. /\ Len(NameList) \in Nat \ {0} /\ DOMAIN NameList = 1 .. Len(NameList)
        /\ Len(BackendList) \in Nat \ {0} /\ DOMAIN BackendList = 1 .. Len(BackendList)
    BY Constants, LenProperties
  <1>2. PICK i \in 1 .. Len(NameList) : NameList[i] = n
    BY <1>1 DEF Names, Range
  <1>3. ASSUME NEW b \in Backends
        PROVE  \E q \in 1 .. Slots : NameAt(q) = n /\ BackendAt(q) = b
    <2>1. PICK j \in 1 .. Len(BackendList) : BackendList[j] = b
      BY <1>1 DEF Backends, Range
    <2>2. QED
      BY <1>2, <2>1, At
  <1>4. Len(BackendList) \in 1 .. Len(BackendList)
    BY <1>1
  <1>5. QED
    BY <1>2, <1>3, <1>4, At

-----------------------------------------------------------------------------
(* What the queue says of the themes.                                      *)

LEMMA ToldAppended ==
  ASSUME NEW queue \in Seq(Calls), NEW x \in Calls, x.slot # "themeChanged"
  PROVE  /\ \A s : ToldIn(Append(queue, x), s) <=> ToldIn(queue, s)
         /\ \A theme : EndsWith(queue, theme) => EndsWith(Append(queue, x), theme)
         /\ \A i \in DOMAIN Append(queue, x) : Append(queue, x)[i].slot = "themeChanged" =>
              i \in DOMAIN queue /\ Append(queue, x)[i] = queue[i]
  <1> DEFINE new == Append(queue, x)
             n == Len(queue)
  <1>1. /\ n \in Nat /\ DOMAIN queue = 1 .. n /\ DOMAIN new = 1 .. n + 1
        /\ \A i \in 1 .. n : new[i] = queue[i]
        /\ new[n + 1] = x
    OBVIOUS
  <1> HIDE DEF new, n
  <1>2. \A i \in DOMAIN new : new[i].slot = "themeChanged" => i \in DOMAIN queue /\ new[i] = queue[i]
    <2>1. \A i \in DOMAIN new : i \in DOMAIN queue \/ i = n + 1
      BY <1>1
    <2>2. QED
      BY <1>1, <2>1
  <1>3. \A i \in DOMAIN queue : i \in DOMAIN new /\ new[i] = queue[i]
    BY <1>1
  <1>4. \A s : ToldIn(new, s) <=> ToldIn(queue, s)
    BY <1>2, <1>3 DEF ToldIn, ThemeCall
  <1>5. \A theme : EndsWith(queue, theme) => EndsWith(new, theme)
    BY <1>2, <1>3 DEF EndsWith
  <1>6. QED
    BY <1>2, <1>4, <1>5 DEF new

LEMMA ToldTaken ==
  ASSUME NEW queue \in Seq(Calls), queue # <<>>
  PROVE  /\ \A s : ToldIn(Tail(queue), s) => ToldIn(queue, s)
         /\ \A s : ToldIn(queue, s) => ThemeCall(Head(queue), s) \/ ToldIn(Tail(queue), s)
         /\ \A theme : EndsWith(queue, theme) => EndsWith(Tail(queue), theme)
         /\ \A theme, s : EndsWith(queue, theme) /\ ThemeCall(Head(queue), s) =>
              Head(queue).theme = theme \/ ToldIn(Tail(queue), s)
         /\ 1 \in DOMAIN queue /\ Head(queue) = queue[1]
         /\ \A i \in DOMAIN Tail(queue) : i + 1 \in DOMAIN queue /\ Tail(queue)[i] = queue[i + 1]
  <1> DEFINE rest == Tail(queue)
             n == Len(queue)
  <1>1. /\ n \in Nat \ {0} /\ DOMAIN queue = 1 .. n /\ DOMAIN rest = 1 .. n - 1
        /\ \A i \in 1 .. n - 1 : rest[i] = queue[i + 1]
        /\ Head(queue) = queue[1]
    OBVIOUS
  <1> HIDE DEF rest, n
  <1>2. \A i \in DOMAIN rest : i \in Nat /\ i + 1 \in DOMAIN queue /\ rest[i] = queue[i + 1]
    BY <1>1
  <1>3. ASSUME NEW j \in DOMAIN queue, j # 1
        PROVE  \E i \in DOMAIN rest : rest[i] = queue[j] /\ i + 1 = j /\ i \in Nat
    <2>1. j - 1 \in DOMAIN rest /\ j - 1 + 1 = j /\ j - 1 \in Nat
      BY <1>1, <1>3
    <2>2. QED
      BY <1>1, <2>1
  <1>4. 1 \in DOMAIN queue /\ \A j \in DOMAIN queue : j \in Nat /\ j > 0
    BY <1>1
  <1>5. \A s : ToldIn(rest, s) => ToldIn(queue, s)
    BY <1>2 DEF ToldIn
  <1>6. \A s : ToldIn(queue, s) => ThemeCall(Head(queue), s) \/ ToldIn(rest, s)
    BY <1>1, <1>3 DEF ToldIn
  <1>7. ASSUME NEW theme, EndsWith(queue, theme)
        PROVE  EndsWith(rest, theme)
    <2> SUFFICES ASSUME NEW i \in DOMAIN rest, rest[i].slot = "themeChanged", rest[i].theme # theme
                 PROVE  \E j \in DOMAIN rest : j > i /\ ThemeCall(rest[j], rest[i].on)
      BY DEF EndsWith
    <2>1. PICK k \in DOMAIN queue : k > i + 1 /\ ThemeCall(queue[k], rest[i].on)
      BY <1>2, <1>7 DEF EndsWith
    <2>2. k # 1
      BY <1>2, <2>1
    <2>3. PICK j \in DOMAIN rest : rest[j] = queue[k] /\ j + 1 = k /\ j \in Nat
      BY <1>3, <2>2
    <2>4. j > i
      BY <1>2, <2>1, <2>3
    <2>5. QED
      BY <2>1, <2>3, <2>4
  <1>8. ASSUME NEW theme, NEW s, EndsWith(queue, theme), ThemeCall(Head(queue), s),
               Head(queue).theme # theme
        PROVE  ToldIn(rest, s)
    <2>1. PICK k \in DOMAIN queue : k > 1 /\ ThemeCall(queue[k], s)
      BY <1>1, <1>4, <1>8 DEF EndsWith, ThemeCall
    <2>2. PICK j \in DOMAIN rest : rest[j] = queue[k]
      BY <1>3, <1>4, <2>1
    <2>3. QED
      BY <2>1, <2>2 DEF ToldIn
  <1>9. QED
    BY <1>1, <1>2, <1>4, <1>5, <1>6, <1>7, <1>8 DEF rest

\* Every session that is alive is told the theme, after whatever it was told before.
LEMMA ToldPosted ==
  ASSUME NEW queue \in Seq(Calls), NEW theme \in Themes,
         \A i \in DOMAIN queue : queue[i].slot = "themeChanged" => session[queue[i].on] # "none"
  PROVE  LET new == PostThemeChanged(queue, theme)
         IN  /\ \A s \in Sessions : session[s] # "none" => ToldIn(new, s)
             /\ EndsWith(new, theme)
             /\ \A i \in DOMAIN new : new[i].slot = "themeChanged" => session[new[i].on] # "none"
  <1> DEFINE live == {s \in Sessions : session[s] # "none"}
  <1>1. PICK n \in Nat : \E to \in Surjection(1 .. n, live) :
          PostThemeChanged(queue, theme) =
            queue \o [i \in 1 .. n |-> [slot |-> "themeChanged", on |-> to[i], theme |-> theme]]
    BY PostedIs
  <1>2. PICK to \in Surjection(1 .. n, live) :
          PostThemeChanged(queue, theme) =
            queue \o [i \in 1 .. n |-> [slot |-> "themeChanged", on |-> to[i], theme |-> theme]]
    BY <1>1
  <1> DEFINE call(i) == [slot |-> "themeChanged", on |-> to[i], theme |-> theme]
             calls == [i \in 1 .. n |-> call(i)]
             m == Len(queue)
             new == PostThemeChanged(queue, theme)
  <1>3. /\ \A i \in 1 .. n : call(i).slot = "themeChanged" /\ call(i).on = to[i]
                             /\ call(i).theme = theme
        /\ \A i \in 1 .. n : to[i] \in live
        /\ \A s \in live : \E i \in 1 .. n : to[i] = s
    BY <1>2 DEF Surjection
  <1> HIDE DEF call
  <1>4. /\ m \in Nat /\ DOMAIN queue = 1 .. m /\ DOMAIN new = 1 .. m + n
        /\ \A i \in 1 .. m : new[i] = queue[i]
        /\ \A i \in 1 .. n : new[m + i] = call(i)
    <2>1. new = queue \o calls
      BY <1>2 DEF call
    <2>2. calls \in Seq(Range(calls)) /\ Len(calls) = n /\ \A i \in 1 .. n : calls[i] = call(i)
      BY DEF Range
    <2>3. m \in Nat /\ DOMAIN queue = 1 .. m
      OBVIOUS
    <2> HIDE DEF new, calls
    <2>4. /\ Len(queue \o calls) = m + n /\ DOMAIN (queue \o calls) = 1 .. m + n
          /\ \A i \in 1 .. m : (queue \o calls)[i] = queue[i]
          /\ \A i \in 1 .. n : (queue \o calls)[m + i] = calls[i]
      <3> HIDE DEF m
      <3>1. /\ Len(queue \o calls) = m + n
            /\ \A k \in 1 .. m + n :
                 (queue \o calls)[k] = IF k <= m THEN queue[k] ELSE calls[k - m]
        BY <2>2, ConcatProperties DEF m
      <3>2. /\ DOMAIN (queue \o calls) = 1 .. m + n
            /\ \A i \in 1 .. m : (queue \o calls)[i] = queue[i]
        BY <2>2, <2>3, <3>1 DEF m
      <3>3. ASSUME NEW i \in 1 .. n
            PROVE  (queue \o calls)[m + i] = calls[i]
        <4> DEFINE k == m + i
        <4>1. k \in 1 .. m + n /\ ~(k <= m) /\ k - m = i
          BY <2>3
        <4> HIDE DEF k
        <4>2. (queue \o calls)[k] = calls[k - m]
          BY <3>1, <4>1
        <4>3. QED
          BY <4>1, <4>2, Zenon DEF k
      <3>4. QED
        BY <3>1, <3>2, <3>3
    <2>5. QED
      BY <2>1, <2>2, <2>3, <2>4
  <1> HIDE DEF live, m, new
  <1>5. ASSUME NEW s \in live
        PROVE  \E j \in DOMAIN new : j > m /\ ThemeCall(new[j], s)
    <2>1. PICK i \in 1 .. n : to[i] = s
      BY <1>3
    <2>2. m + i \in 1 .. m + n /\ m + i > m
      BY <1>4
    <2>3. new[m + i] = call(i)
      BY <1>4, Zenon
    <2>4. QED
      BY <1>3, <1>4, <2>1, <2>2, <2>3 DEF ThemeCall
  <1>6. \A i \in DOMAIN new :
          \/ i \in DOMAIN queue /\ new[i] = queue[i] /\ i <= m
          \/ new[i].slot = "themeChanged" /\ new[i].theme = theme /\ new[i].on \in live
    <2> SUFFICES ASSUME NEW i \in 1 .. m + n
                 PROVE  \/ i \in DOMAIN queue /\ new[i] = queue[i] /\ i <= m
                        \/ new[i].slot = "themeChanged" /\ new[i].theme = theme /\ new[i].on \in live
      BY <1>4
    <2>1. CASE i \in 1 .. m
      BY <1>4, <2>1
    <2>2. CASE i \in m + 1 .. m + n
      <3>1. PICK k \in 1 .. n : i = m + k
        <4>1. i - m \in 1 .. n /\ i = m + (i - m)
          BY <1>4, <2>2
        <4>2. QED
          BY <4>1
      <3>2. new[i] = call(k)
        BY <1>4, <3>1, Zenon
      <3>3. QED
        BY <1>3, <3>2
    <2>3. QED
      BY <1>4, <2>1, <2>2
  <1>7. \A i \in DOMAIN queue : queue[i].slot = "themeChanged" => queue[i].on \in live
    <2>1. \A i \in DOMAIN queue : queue[i] \in Calls
      BY LenProperties
    <2>2. \A c \in Calls : c.slot = "themeChanged" => c.on \in Sessions
      BY DEF Calls
    <2>3. QED
      BY <2>1, <2>2 DEF live
  <1>8. EndsWith(new, theme)
    <2> SUFFICES ASSUME NEW i \in DOMAIN new, new[i].slot = "themeChanged", new[i].theme # theme
                 PROVE  \E j \in DOMAIN new : j > i /\ ThemeCall(new[j], new[i].on)
      BY DEF EndsWith
    <2>1. i \in DOMAIN queue /\ new[i] = queue[i] /\ i <= m
      BY <1>6
    <2>2. PICK j \in DOMAIN new : j > m /\ ThemeCall(new[j], new[i].on)
      BY <1>5, <1>7, <2>1
    <2>3. j > i
      BY <1>4, <2>1, <2>2
    <2>4. QED
      BY <2>2, <2>3
  <1>9. \A i \in DOMAIN new : new[i].slot = "themeChanged" => new[i].on \in live
    BY <1>6, <1>7
  <1>10. \A s \in Sessions : session[s] # "none" => ToldIn(new, s)
    BY <1>5 DEF ToldIn, live
  <1>11. QED
    BY <1>8, <1>9, <1>10 DEF new, live

LEMMA ToldDropped ==
  ASSUME NEW queue \in Seq(Calls), NEW s
  PROVE  LET new == DropCalls(queue, s)
         IN  /\ \A r : r # s /\ ToldIn(queue, r) => ToldIn(new, r)
             /\ \A theme : EndsWith(queue, theme) => EndsWith(new, theme)
             /\ \A i \in DOMAIN new : new[i].slot = "themeChanged" =>
                  new[i].on # s /\ \E j \in DOMAIN queue : queue[j] = new[i]
  <1>1. PICK n \in Nat : \E at \in [1 .. n -> DOMAIN queue] :
           /\ DropCalls(queue, s) = [m \in 1 .. n |-> queue[at[m]]]
           /\ \A i, j \in 1 .. n : i < j => at[i] < at[j]
           /\ \A i \in DOMAIN queue :
                (\E m \in 1 .. n : at[m] = i) <=>
                  (queue[i].slot = "themeChanged" => queue[i].on # s)
    BY Kept
  <1>2. PICK at \in [1 .. n -> DOMAIN queue] :
           /\ DropCalls(queue, s) = [m \in 1 .. n |-> queue[at[m]]]
           /\ \A i, j \in 1 .. n : i < j => at[i] < at[j]
           /\ \A i \in DOMAIN queue :
                (\E m \in 1 .. n : at[m] = i) <=>
                  (queue[i].slot = "themeChanged" => queue[i].on # s)
    BY <1>1
  <1> DEFINE new == DropCalls(queue, s)
  <1>3. /\ DOMAIN new = 1 .. n
        /\ \A m \in 1 .. n : new[m] = queue[at[m]] /\ at[m] \in DOMAIN queue
    BY <1>2
  <1> HIDE DEF new
  <1>4. \A m \in 1 .. n : new[m].slot = "themeChanged" => new[m].on # s
    BY <1>2, <1>3
  <1>5. ASSUME NEW i \in DOMAIN queue, NEW r, r # s, ThemeCall(queue[i], r)
        PROVE  \E m \in 1 .. n : at[m] = i /\ new[m] = queue[i]
    BY <1>2, <1>3, <1>5 DEF ThemeCall
  <1>6. \A r : r # s /\ ToldIn(queue, r) => ToldIn(new, r)
    BY <1>3, <1>5 DEF ToldIn
  <1>7. ASSUME NEW theme, EndsWith(queue, theme)
        PROVE  EndsWith(new, theme)
    <2> SUFFICES ASSUME NEW i \in 1 .. n, new[i].slot = "themeChanged", new[i].theme # theme
                 PROVE  \E j \in 1 .. n : j > i /\ ThemeCall(new[j], new[i].on)
      BY <1>3 DEF EndsWith
    <2>1. PICK k \in DOMAIN queue : k > at[i] /\ ThemeCall(queue[k], new[i].on)
      BY <1>3, <1>7 DEF EndsWith
    <2>2. PICK j \in 1 .. n : at[j] = k /\ new[j] = queue[k]
      BY <1>4, <1>5, <2>1
    <2>3. DOMAIN queue = 1 .. Len(queue) /\ Len(queue) \in Nat
      BY LenProperties
    <2>4. at[i] \in Int /\ at[j] \in Int /\ i \in Int /\ j \in Int
      BY <1>3, <2>3
    <2>5. ~(j < i) /\ j # i
      BY <1>2, <2>1, <2>2, <2>4
    <2>6. j > i
      BY <2>4, <2>5
    <2>7. QED
      BY <2>1, <2>2, <2>6
  <1>8. \A i \in DOMAIN new : new[i].slot = "themeChanged" =>
          new[i].on # s /\ \E j \in DOMAIN queue : queue[j] = new[i]
    BY <1>3, <1>4
  <1>9. QED
    BY <1>6, <1>7, <1>8 DEF new

-----------------------------------------------------------------------------
(* Losses, connections and themes.                                         *)

LEMMA HeldSame ==
  ASSUME UNCHANGED <<heap, feedbackHandles>>
  PROVE  \A x : Held(x)' = Held(x)
  BY DEF Held

LEMMA WantedSame ==
  ASSUME UNCHANGED currentTheme
  PROVE  \A x : Wanted(x)' = Wanted(x)
  BY DEF Wanted

LEMMA InitTheme == Init => TInv
  <1> SUFFICES ASSUME Init PROVE TInv
    OBVIOUS
  <1>1. /\ events = <<>> /\ stack = <<>> /\ DOMAIN heap = {}
        /\ \A s \in Sessions : session[s] = "none"
    BY DEF Init
  <1>2. Reloads
    BY <1>1 DEF Reloads
  <1>3. Newest /\ Inserted /\ Sampled
    BY <1>1 DEF Newest, EndsWith, Inserted, Sampled
  <1>4. Reported
    BY <1>1 DEF Reported, Lost, Range
  <1>5. QED
    BY <1>2, <1>3, <1>4 DEF TInv

\* Sessions, slots and objects stay, and no slot sees a new connection.
LEMMA SlotsStay ==
  ASSUME TInv, UNCHANGED <<stack, session, feedbackHash, heap>>,
         stack # <<>> => \A b : connected'[b] => connected[b]
  PROVE  Inserted' /\ Sampled'
  <1>1. Inserted'
    BY DEF TInv, Inserted, NameAt, top
  <1>2. /\ \A h \in DOMAIN heap' : Content[heap'[h].key[2]][heap'[h].key[1]] # "none"
        /\ stack # <<>> => /\ top' = top /\ backend' = backend /\ dirs' = dirs
    BY DEF TInv, Sampled, top, backend, dirs, name
  <1>3. Sampled'
    BY <1>2 DEF TInv, Sampled
  <1>4. QED
    BY <1>1, <1>3

LEMMA LoseTheme ==
  ASSUME AInv, TInv, NEW b \in Backends, Lose(b)
  PROVE  TInv'
  <1> DEFINE x == [slot |-> "backendDisconnected", on |-> b]
  <1>1. /\ \A c : connected'[c] => connected[c]
        /\ ~connected'[b]
        /\ events' = Append(events, x) /\ events \in Seq(Calls) /\ x \in Calls
        /\ UNCHANGED <<theming, objects, sessions, stack>>
    BY DEF Lose, AInv, IInv, TypeOK, Calls
  <1>2. x.slot = "backendDisconnected" /\ x.on = b
    OBVIOUS
  <1> HIDE DEF x
  <1>3. Range(events') = Range(events) \cup {x}
    BY <1>1, Appended
  <1>4. /\ \A s : Told(s)' <=> Told(s)
        /\ EndsWith(events, currentTheme) => EndsWith(events', currentTheme)
        /\ \A i \in DOMAIN events' : events'[i].slot = "themeChanged" =>
             i \in DOMAIN events /\ events'[i] = events[i]
    BY <1>1, <1>2, ToldAppended DEF Told
  <1>5. Reloads'
    <2>1. \A c : News(c) => News(c)'
      BY <1>3 DEF News
    <2>2. \A s, n, c : Ahead(s, n, c)' <=> Ahead(s, n, c)
      BY <1>1 DEF Ahead, top, NameAt, BackendAt
    <2>3. \A y : Held(y)' = Held(y) /\ Wanted(y)' = Wanted(y)
      BY <1>1, HeldSame, WantedSame DEF objects, theming
    <2>4. QED
      BY <1>1, <1>4, <2>1, <2>2, <2>3 DEF TInv, Reloads, sessions
  <1>6. Newest'
    BY <1>1, <1>4 DEF TInv, Newest, sessions, theming, top, EndsWith
  <1>7. Reported'
    <2>1. ASSUME NEW c \in Backends, Lost(c)', c # b
          PROVE  Lost(c)
      <3>1. [slot |-> "backendDisconnected", on |-> c] # x
        BY <1>2, <2>1
      <3>2. QED
        BY <1>3, <2>1, <3>1 DEF Lost
    <2>2. QED
      BY <1>1, <2>1 DEF TInv, Reported
  <1>8. Inserted' /\ Sampled'
    BY <1>1, SlotsStay DEF sessions, objects
  <1>9. QED
    BY <1>5, <1>6, <1>7, <1>8 DEF TInv

LEMMA EstablishTheme ==
  ASSUME AInv, TInv, ~Nested, NEW b \in Backends, Establish(b)
  PROVE  TInv'
  <1> DEFINE x == [slot |-> "backendConnected", on |-> b]
  <1>1. /\ \A c : c # b /\ connected'[c] => connected[c]
        /\ ~Lost(b) /\ stack = <<>>
        /\ events' = Append(events, x) /\ events \in Seq(Calls) /\ x \in Calls
        /\ UNCHANGED <<theming, objects, sessions, stack>>
    BY NoneRuns DEF Establish, AInv, IInv, TypeOK, Calls, Lost
  <1>2. x.slot = "backendConnected" /\ x.on = b
    OBVIOUS
  <1>3. Range(events') = Range(events) \cup {x}
    BY <1>1, Appended
  <1>4. News(b)'
    BY <1>3 DEF News
  <1> HIDE DEF x
  <1>5. /\ \A s : Told(s)' <=> Told(s)
        /\ EndsWith(events, currentTheme) => EndsWith(events', currentTheme)
        /\ \A i \in DOMAIN events' : events'[i].slot = "themeChanged" =>
             i \in DOMAIN events /\ events'[i] = events[i]
    BY <1>1, <1>2, ToldAppended DEF Told
  <1>6. Reloads'
    <2>1. \A c : News(c) => News(c)'
      BY <1>3 DEF News
    <2>2. \A s, n, c : Ahead(s, n, c)' <=> Ahead(s, n, c)
      BY <1>1 DEF Ahead, top, NameAt, BackendAt
    <2>3. \A y : Held(y)' = Held(y) /\ Wanted(y)' = Wanted(y)
      BY <1>1, HeldSame, WantedSame DEF objects, theming
    <2>4. QED
      BY <1>1, <1>4, <1>5, <2>1, <2>2, <2>3 DEF TInv, Reloads, sessions
  <1>7. Newest'
    BY <1>1, <1>5 DEF TInv, Newest, sessions, theming, top, EndsWith
  <1>8. Reported'
    <2>1. \A c \in Backends : Lost(c)' => Lost(c)
      <3>1. \A c : [slot |-> "backendDisconnected", on |-> c] # x
        BY <1>2
      <3>2. QED
        BY <1>3, <3>1 DEF Lost
    <2>2. QED
      BY <1>1, <2>1 DEF TInv, Reported
  <1>9. Inserted' /\ Sampled'
    BY <1>1, SlotsStay DEF sessions, objects
  <1>10. QED
    BY <1>6, <1>7, <1>8, <1>9 DEF TInv

\* Every session is told a theme.
LEMMA PostTheme ==
  ASSUME AInv, TInv, stack = <<>>, NEW queue \in Seq(Calls), NEW theme \in Themes,
         Range(queue) \subseteq Range(events),
         \A i \in DOMAIN queue : queue[i].slot = "themeChanged" => session[queue[i].on] # "none",
         events' = PostThemeChanged(queue, theme), currentTheme' = theme,
         UNCHANGED <<links, objects, sessions, stack>>
  PROVE  TInv'
  <1>1. /\ \A s \in Sessions : session[s] # "none" => Told(s)'
        /\ EndsWith(events', theme)
        /\ \A i \in DOMAIN events' : events'[i].slot = "themeChanged" => session[events'[i].on] # "none"
    BY ToldPosted DEF Told
  <1>2. \A x \in Range(events') : x.slot # "themeChanged" => x \in Range(events)
    BY Posted
  <1>3. Reloads'
    BY <1>1 DEF Reloads, sessions
  <1>4. Newest'
    BY <1>1 DEF Newest, sessions
  <1>5. Reported'
    <2>1. \A c \in Backends : Lost(c)' => Lost(c)
      BY <1>2 DEF Lost
    <2>2. QED
      BY <2>1 DEF TInv, Reported, links
  <1>6. Inserted' /\ Sampled'
    BY SlotsStay DEF sessions, objects
  <1>7. QED
    BY <1>3, <1>4, <1>5, <1>6 DEF TInv

LEMMA backendConnectedTheme ==
  ASSUME AInv, TInv, ~Nested, backendConnected
  PROVE  TInv'
  <1>1. /\ stack = <<>> /\ events # <<>>
        /\ events' = PostThemeChanged(Tail(events), currentTheme)
        /\ UNCHANGED <<links, theming, objects, sessions, stack>>
    BY NoneRuns DEF backendConnected, Next1
  <1>2. events \in Seq(Calls) /\ currentTheme \in Themes
    BY DEF AInv, IInv, TypeOK
  <1>3. Tail(events) \in Seq(Calls) /\ Range(Tail(events)) \subseteq Range(events)
    BY <1>1, <1>2, Taken
  <1>4. \A i \in DOMAIN Tail(events) : i + 1 \in DOMAIN events /\ Tail(events)[i] = events[i + 1]
    BY <1>1, <1>2, ToldTaken
  <1>5. \A i \in DOMAIN Tail(events) :
          Tail(events)[i].slot = "themeChanged" => session[Tail(events)[i].on] # "none"
    BY <1>4 DEF TInv, Newest
  <1>6. QED
    BY <1>1, <1>2, <1>3, <1>5, PostTheme DEF theming

LEMMA loadThemeTheme ==
  ASSUME AInv, TInv, ~Nested, NEW t \in Themes, loadTheme(t)
  PROVE  TInv'
  <1>1. /\ stack = <<>> /\ events' = PostThemeChanged(events, t) /\ currentTheme' = t
        /\ UNCHANGED <<links, objects, sessions, stack>>
    BY NoneRuns DEF loadTheme
  <1>2. events \in Seq(Calls)
    BY DEF AInv, IInv, TypeOK
  <1>3. QED
    BY <1>1, <1>2, PostTheme DEF TInv, Newest

\* What a feedback holds, seen from its pointer.
LEMMA HeldIs ==
  ASSUME TypeOK, Pointed, NEW x \in DOMAIN feedbackHandles
  PROVE  Held(x) = IF feedbackHandles[x] = Null THEN Null ELSE heap[feedbackHandles[x]].key[1]
  BY CacheAssumption DEF TypeOK, Pointed, Held

LEMMA backendDisconnectedTheme ==
  ASSUME AInv, AInv', TInv, ~Nested, backendDisconnected
  PROVE  TInv'
  <1> DEFINE b == Head(events).on
             dead == HandlesOf(b)
  <1>1. /\ TypeOK /\ Pointed /\ TypeOK' /\ Pointed'
    BY DEF AInv, IInv
  <1>2. /\ stack = <<>> /\ events # <<>> /\ events' = Tail(events)
        /\ heap' = [h \in DOMAIN heap \ dead |-> heap[h]]
        /\ feedbackHandles' = [x \in DOMAIN feedbackHandles |->
             IF feedbackHandles[x] \in dead THEN Null ELSE feedbackHandles[x]]
        /\ UNCHANGED <<links, theming, sessions, stack>>
    BY NoneRuns DEF backendDisconnected, Restrict, Forget, Next1
  <1>3. events \in Seq(Calls) /\ b \in Backends /\ Lost(b) /\ Head(events).slot = "backendDisconnected"
    <2>1. b \in Backends /\ Head(events) = [slot |-> "backendDisconnected", on |-> b]
      BY <1>1, Called DEF backendDisconnected
    <2>2. 1 \in DOMAIN events /\ Head(events) = events[1] /\ events \in Seq(Calls)
      BY <1>1, <1>2, ToldTaken DEF TypeOK
    <2>3. QED
      BY <2>1, <2>2 DEF Lost, Range
  <1>4. ~connected[b]
    BY <1>3 DEF TInv, Reported
  <1>5. \A h \in dead : h \in DOMAIN heap /\ heap[h].key[2] = b
    BY DEF HandlesOf
  <1> HIDE DEF b, dead
  <1>6. /\ \A s : Told(s) => Told(s)'
        /\ EndsWith(events, currentTheme) => EndsWith(events', currentTheme)
        /\ \A i \in DOMAIN events' : i + 1 \in DOMAIN events /\ events'[i] = events[i + 1]
        /\ Range(events') \subseteq Range(events)
        /\ \A x \in Range(events) : x # Head(events) => x \in Range(events')
    BY <1>2, <1>3, ToldTaken, Taken DEF Told, ThemeCall
  <1>7. Reloads'
    <2>1. \A c : News(c) => News(c)'
      <3>1. \A c : [slot |-> "backendConnected", on |-> c] # Head(events)
        BY <1>3
      <3>2. QED
        BY <1>6, <3>1 DEF News
    <2>2. ASSUME NEW s \in Sessions, NEW n \in Names, NEW c \in Backends, c # b
          PROVE  Held(<<s, n, c>>)' = Held(<<s, n, c>>)
      <3> DEFINE x == <<s, n, c>>
      <3>1. x \in DOMAIN feedbackHandles /\ x[3] = c /\ DOMAIN feedbackHandles' = DOMAIN feedbackHandles
        BY <1>1 DEF TypeOK
      <3> HIDE DEF x
      <3>2. feedbackHandles[x] \notin dead
        BY <1>1, <1>5, <2>2, <3>1, CacheAssumption DEF Pointed, TypeOK
      <3>3. feedbackHandles'[x] = feedbackHandles[x]
        BY <1>2, <3>1, <3>2
      <3>4. feedbackHandles[x] # Null => heap'[feedbackHandles[x]] = heap[feedbackHandles[x]]
        BY <1>1, <1>2, <3>1, <3>2 DEF Pointed
      <3>5. Held(x) = IF feedbackHandles[x] = Null THEN Null ELSE heap[feedbackHandles[x]].key[1]
        BY <1>1, <3>1, HeldIs
      <3>6. Held(x)' = IF feedbackHandles'[x] = Null THEN Null ELSE heap'[feedbackHandles'[x]].key[1]
        BY <1>1, <3>1, HeldIs, CacheAssumption DEF TypeOK, Pointed, Held
      <3>7. QED
        BY <3>3, <3>4, <3>5, <3>6 DEF x
    <2>3. \A y : Wanted(y)' = Wanted(y)
      BY <1>2, WantedSame DEF theming
    <2>4. QED
      BY <1>2, <1>4, <1>6, <2>1, <2>2, <2>3 DEF TInv, Reloads, sessions, links, Ahead
  <1>8. Newest'
    BY <1>2, <1>6 DEF TInv, Newest, sessions, theming
  <1>9. Reported'
    <2>1. \A c \in Backends : Lost(c)' => Lost(c)
      BY <1>6 DEF Lost
    <2>2. QED
      BY <1>2, <2>1 DEF TInv, Reported, links
  <1>10. Inserted'
    BY <1>2 DEF TInv, Inserted, sessions
  <1>11. Sampled'
    BY <1>2 DEF TInv, Sampled
  <1>12. QED
    BY <1>7, <1>8, <1>9, <1>10, <1>11 DEF TInv

-----------------------------------------------------------------------------
(* Slots begin and end.                                                    *)

LEMMA EnterTop ==
  ASSUME stack = <<>>, NEW kind, NEW s, NEW theme, Enter(kind, s, theme)
  PROVE  /\ stack' # <<>> /\ top'.kind = kind /\ top'.on = s /\ top'.theme = theme
         /\ top'.pos = 1 /\ top'.dir = 1 /\ top'.busy = FALSE
  <1> DEFINE f == [kind |-> kind, on |-> s, theme |-> theme, pos |-> 1, dir |-> 1,
                   old |-> Null, busy |-> FALSE, epoch |-> 0]
  <1>1. stack' = <<f>> \o stack
    BY DEF Enter
  <1>2. /\ f.kind = kind /\ f.on = s /\ f.theme = theme
        /\ f.pos = 1 /\ f.dir = 1 /\ f.busy = FALSE
    OBVIOUS
  <1> HIDE DEF f
  <1>3. stack' = <<f>>
    BY <1>1
  <1>4. stack' # <<>> /\ stack'[1] = f
    BY <1>3
  <1>5. QED
    BY <1>2, <1>4 DEF top

\* A slot that begins has all feedbacks of its session ahead of it.
LEMMA EnterTheme ==
  ASSUME TInv, stack = <<>>, NEW kind \in {"setup", "themeChanged"}, NEW s \in Sessions, NEW theme,
         Enter(kind, s, theme), session'[s] # "none",
         \A r \in Sessions : r # s => session'[r] = session[r] /\ (Told(r) => Told(r)'),
         session'[s] = IF kind = "setup" THEN "setup" ELSE session[s],
         \A b \in Backends : (News(b) => News(b)') /\ (Lost(b)' => Lost(b)),
         \A i \in DOMAIN events' : events'[i].slot = "themeChanged" => session'[events'[i].on] # "none",
         EndsWith(events', currentTheme), ~Told(s)' => theme = currentTheme,
         UNCHANGED <<links, theming, objects, feedbackHash>>
  PROVE  TInv'
  <1>1. /\ stack' # <<>> /\ top'.kind = kind /\ top'.on = s /\ top'.theme = theme
        /\ top'.pos = 1 /\ top'.dir = 1 /\ top'.busy = FALSE
    BY EnterTop
  <1>2. \A n \in Names, b \in Backends : Ahead(s, n, b)'
    BY <1>1, Covered DEF Ahead, NameAt, BackendAt
  <1>3. \A y : Held(y)' = Held(y) /\ Wanted(y)' = Wanted(y)
    BY HeldSame, WantedSame DEF objects, theming
  <1>4. Reloads'
    <2>1. \A r, n, b : ~Ahead(r, n, b)
      BY DEF Ahead
    <2>2. QED
      BY <1>2, <1>3, <2>1 DEF TInv, Reloads, links
  <1>5. Newest'
    BY <1>1 DEF Newest, theming
  <1>6. Inserted'
    <2>1. \A r \in Sessions : session[r] # "setup"
      BY DEF TInv, Inserted
    <2>2. \A r \in Sessions : session'[r] = "setup" => r = s /\ kind = "setup"
      BY <2>1
    <2>3. \A r \in Sessions : session'[r] = "ready" => session[r] = "ready"
      OBVIOUS
    <2>4. \A q \in 1 .. top'.pos - 1 : FALSE
      BY <1>1
    <2>5. QED
      BY <1>1, <2>2, <2>3, <2>4 DEF TInv, Inserted
  <1>7. Sampled'
    BY <1>1 DEF TInv, Sampled, objects
  <1>8. Reported'
    BY DEF TInv, Reported, links
  <1>9. QED
    BY <1>4, <1>5, <1>6, <1>7, <1>8 DEF TInv

LEMMA ThemeCallsOn ==
  ASSUME TypeOK
  PROVE  \A i \in DOMAIN events : events[i].slot = "themeChanged" => events[i].on \in Sessions
  <1>1. events \in Seq(Calls)
    BY DEF TypeOK
  <1>2. \A i \in DOMAIN events : events[i] \in Calls
    BY <1>1, LenProperties
  <1>3. \A c \in Calls : c.slot = "themeChanged" => c.on \in Sessions
    BY DEF Calls
  <1>4. QED
    BY <1>2, <1>3

LEMMA NewSessionTheme ==
  ASSUME AInv, TInv, ~Nested, NEW s \in Sessions, NewSession(s)
  PROVE  TInv'
  <1>1. /\ stack = <<>> /\ session[s] = "none" /\ session' = [session EXCEPT ![s] = "scheduled"]
        /\ session \in [Sessions -> {"none", "scheduled", "setup", "ready"}]
        /\ UNCHANGED <<links, theming, objects, feedbackHash, setupInProgress, events, stack>>
    BY NoneRuns DEF NewSession, AInv, IInv, TypeOK
  <1>2. \A r \in Sessions : session'[r] = IF r = s THEN "scheduled" ELSE session[r]
    BY <1>1
  <1>3. \A y : Held(y)' = Held(y) /\ Wanted(y)' = Wanted(y)
    BY <1>1, HeldSame, WantedSame DEF objects, theming
  <1>4. Reloads'
    BY <1>1, <1>2, <1>3 DEF TInv, Reloads, Told, News, Ahead, links
  <1>5. Newest'
    <2>1. \A i \in DOMAIN events : events[i].slot = "themeChanged" => events[i].on \in Sessions
      BY ThemeCallsOn DEF AInv, IInv
    <2>2. QED
      BY <1>1, <1>2, <2>1 DEF TInv, Newest, EndsWith, theming
  <1>6. Inserted' /\ Sampled' /\ Reported'
    BY <1>1, <1>2 DEF TInv, Inserted, Sampled, Reported, Lost, links, objects
  <1>7. QED
    BY <1>4, <1>5, <1>6 DEF TInv

LEMMA setupTheme ==
  ASSUME AInv, TInv, ~Nested, NEW s \in Sessions, setup(s)
  PROVE  TInv'
  <1>1. /\ stack = <<>> /\ session[s] = "scheduled" /\ session' = [session EXCEPT ![s] = "setup"]
        /\ session \in [Sessions -> {"none", "scheduled", "setup", "ready"}]
        /\ Enter("setup", s, currentTheme)
        /\ UNCHANGED <<links, theming, objects, feedbackHash, events>>
    BY NoneRuns DEF setup, AInv, IInv, TypeOK
  <1>2. \A r \in Sessions : session'[r] = IF r = s THEN "setup" ELSE session[r]
    BY <1>1
  <1>3. \A i \in DOMAIN events' : events'[i].slot = "themeChanged" => session'[events'[i].on] # "none"
    BY <1>1 DEF TInv, Newest
  <1>4. EndsWith(events', currentTheme)
    BY <1>1 DEF TInv, Newest
  <1>5. /\ \A r \in Sessions : Told(r) => Told(r)'
        /\ \A b \in Backends : (News(b) => News(b)') /\ (Lost(b)' => Lost(b))
    BY <1>1 DEF Told, News, Lost
  <1>6. "setup" \in {"setup", "themeChanged"}
    OBVIOUS
  <1>7. QED
    BY <1>1, <1>2, <1>3, <1>4, <1>5, <1>6, EnterTheme

LEMMA themeChangedTheme ==
  ASSUME AInv, TInv, ~Nested, themeChanged
  PROVE  TInv'
  <1>0. PICK s, theme : s = Head(events).on /\ theme = Head(events).theme
    OBVIOUS
  <1>1. /\ stack = <<>> /\ events # <<>> /\ Head(events).slot = "themeChanged"
        /\ Enter("themeChanged", s, theme) /\ events' = Tail(events)
        /\ UNCHANGED <<links, theming, objects, sessions>>
    BY <1>0, NoneRuns DEF themeChanged, Next1
  <1>2. /\ TypeOK /\ events \in Seq(Calls) /\ s \in Sessions
    BY <1>0, Called DEF AInv, IInv, TypeOK, themeChanged
  <1>3. /\ \A r : Told(r) => ThemeCall(Head(events), r) \/ Told(r)'
        /\ EndsWith(events, currentTheme) => EndsWith(events', currentTheme)
        /\ \A r : EndsWith(events, currentTheme) /\ ThemeCall(Head(events), r) =>
             theme = currentTheme \/ Told(r)'
        /\ 1 \in DOMAIN events /\ Head(events) = events[1]
        /\ \A i \in DOMAIN events' : i + 1 \in DOMAIN events /\ events'[i] = events[i + 1]
    BY <1>0, <1>1, <1>2, ToldTaken DEF Told
  <1>4. /\ \A x \in Range(events) : x # Head(events) => x \in Range(events')
        /\ Range(events') \subseteq Range(events)
    BY <1>1, <1>2, Taken
  <1>5. /\ \A r : ThemeCall(Head(events), r) <=> r = s
        /\ session[s] # "none" /\ EndsWith(events, currentTheme)
    BY <1>0, <1>1, <1>3 DEF ThemeCall, TInv, Newest
  <1>6. /\ \A r \in Sessions : r # s /\ Told(r) => Told(r)'
        /\ EndsWith(events', currentTheme) /\ (~Told(s)' => theme = currentTheme)
    BY <1>3, <1>5
  <1>7. \A i \in DOMAIN events' : events'[i].slot = "themeChanged" => session'[events'[i].on] # "none"
    BY <1>1, <1>3 DEF TInv, Newest, sessions
  <1>8. \A b \in Backends : (News(b) => News(b)') /\ (Lost(b)' => Lost(b))
    <2>1. \A b \in Backends : [slot |-> "backendConnected", on |-> b] # Head(events)
      BY <1>1
    <2>2. QED
      BY <1>4, <2>1 DEF News, Lost
  <1>9. "themeChanged" \in {"setup", "themeChanged"} /\ "themeChanged" # "setup"
    OBVIOUS
  <1>10. session' = session /\ UNCHANGED <<links, theming, objects, feedbackHash>>
    BY <1>1 DEF sessions
  <1>11. QED
    BY <1>1, <1>2, <1>5, <1>6, <1>7, <1>8, <1>9, <1>10, EnterTheme

\* A slot that returns has nothing ahead.
LEMMA ReturnTheme ==
  ASSUME AInv, TInv, Return
  PROVE  TInv'
  <1>1. /\ stack # <<>> /\ stack' = Tail(stack) /\ top.pos > Slots
        /\ IF top.kind = "setup" THEN session' = [session EXCEPT ![top.on] = "ready"]
                                 ELSE session' = session
        /\ UNCHANGED <<links, theming, objects, feedbackHash, events>>
    BY DEF Return, Running, Alive
  <1>2. /\ TypeOK /\ IInv /\ session \in [Sessions -> {"none", "scheduled", "setup", "ready"}]
        /\ feedbackHash \in [Sessions -> SUBSET Names]
    BY DEF AInv, IInv, TypeOK
  <1>3. /\ top \in Frames /\ 1 \in DOMAIN stack /\ top.on \in Sessions /\ top.pos \in 1 .. Slots + 1
    BY <1>1, <1>2, StackType, FrameFields
  <1>4. stack' = <<>>
    <2>1. Len(stack) = 1 /\ stack \in Seq(Frames)
      BY <1>1, <1>2, OnlyTop DEF TypeOK
    <2>2. QED
      BY <1>1, <2>1
  <1>5. Slots \in Nat
    BY Constants
  <1>6. \A s, n, b : ~Ahead(s, n, b)
    <2>1. \A q \in top.pos .. Slots : FALSE
      BY <1>1, <1>3, <1>5
    <2>2. QED
      BY <2>1 DEF Ahead
  <1>7. \A y : Held(y)' = Held(y) /\ Wanted(y)' = Wanted(y)
    BY <1>1, HeldSame, WantedSame DEF objects, theming
  <1>8. /\ top.kind = "setup" => session[top.on] = "setup"
        /\ \A s \in Sessions :
             \/ session'[s] = session[s]
             \/ s = top.on /\ top.kind = "setup" /\ session'[s] = "ready"
    <2>1. top.kind = "setup" => session[top.on] = "setup"
      BY <1>2, <1>3 DEF IInv, Locked, top
    <2>2. PICK r \in Sessions : r = top.on
      BY <1>3
    <2>3. top.kind = "setup" => \A s \in Sessions : session'[s] = IF s = r THEN "ready" ELSE session[s]
      BY <1>1, <1>2, <2>2
    <2>4. top.kind # "setup" => \A s \in Sessions : session'[s] = session[s]
      BY <1>1
    <2>5. QED
      BY <2>1, <2>2, <2>3, <2>4
  <1>9. Reloads'
    BY <1>1, <1>6, <1>7, <1>8 DEF TInv, Reloads, Told, News, links
  <1>10. Newest'
    <2>1. \A s \in Sessions : session[s] # "none" => session'[s] # "none"
      BY <1>8
    <2>2. \A i \in DOMAIN events : events[i].slot = "themeChanged" => events[i].on \in Sessions
      BY <1>2, ThemeCallsOn
    <2>3. QED
      BY <1>1, <1>4, <2>1, <2>2 DEF TInv, Newest, EndsWith, theming
  <1>11. Inserted'
    <2>1. ASSUME top.kind = "setup"
          PROVE  feedbackHash[top.on] = Names
      <3>1. \A n \in Names : \E q \in 1 .. Slots : NameAt(q) = n /\ q % Len(BackendList) = 0
        BY Covered
      <3>2. \A q \in 1 .. Slots : q \in 1 .. top.pos - 1
        BY <1>1, <1>3, <1>5
      <3>3. QED
        <4>1. \A q \in 1 .. top.pos - 1 : q % Len(BackendList) = 0 => NameAt(q) \in feedbackHash[top.on]
          BY <1>1, <2>1 DEF TInv, Inserted
        <4>2. \A n \in Names : n \in feedbackHash[top.on]
          BY <3>1, <3>2, <4>1
        <4>3. feedbackHash[top.on] \subseteq Names
          BY <1>2, <1>3
        <4>4. QED
          BY <4>2, <4>3
    <2>2. \A s \in Sessions : session[s] = "setup" => top.kind = "setup" /\ top.on = s
      BY DEF TInv, Inserted
    <2>3. \A s \in Sessions : session'[s] # "setup"
      <3>1. ASSUME NEW s \in Sessions, session[s] = "setup"
            PROVE  session'[s] = "ready"
        BY <1>1, <1>2, <2>2, <3>1
      <3>2. QED
        BY <1>8, <3>1
    <2>4. \A s \in Sessions : session'[s] = "ready" => feedbackHash'[s] = Names
      BY <1>1, <1>8, <2>1 DEF TInv, Inserted
    <2>5. QED
      BY <1>4, <2>3, <2>4 DEF Inserted
  <1>12. Sampled' /\ Reported'
    BY <1>1, <1>4 DEF TInv, Sampled, Reported, Lost, links, objects
  <1>13. QED
    BY <1>9, <1>10, <1>11, <1>12 DEF TInv

-----------------------------------------------------------------------------
(* A slot goes on.                                                         *)

\* A slot stays with its session and theme, and has what it had ahead as far as that counts.
LEMMA SlotGoesOn ==
  ASSUME TInv, stack # <<>>, stack' # <<>>,
         top'.kind = top.kind, top'.on = top.on, top'.theme = top.theme,
         top.kind = "setup" => top'.pos = top.pos,
         session[top.on] \in {"setup", "ready"} => top'.pos = top.pos,
         UNCHANGED <<links, theming, objects, sessions, events>>
  PROVE  Reloads' /\ Newest' /\ Inserted' /\ Reported'
  <1>1. \A y : Held(y)' = Held(y) /\ Wanted(y)' = Wanted(y)
    BY HeldSame, WantedSame DEF objects, theming
  <1>2. \A s \in Sessions : session[s] \in {"setup", "ready"} =>
          \A n, b : Ahead(s, n, b) => Ahead(s, n, b)'
    BY DEF Ahead, NameAt, BackendAt
  <1>3. Reloads'
    BY <1>1, <1>2 DEF TInv, Reloads, Told, News, links, sessions
  <1>4. Newest'
    BY DEF TInv, Newest, Told, EndsWith, theming, sessions
  <1>5. Inserted'
    BY DEF TInv, Inserted, NameAt, sessions
  <1>6. Reported'
    BY DEF TInv, Reported, Lost, links
  <1>7. QED
    BY <1>3, <1>4, <1>5, <1>6

\* Only a session whose setup() has not run has a feedback that is not inserted.
LEMMA SkipFeedbackTheme ==
  ASSUME AInv, TInv, SkipFeedback
  PROVE  TInv'
  <1> DEFINE g == [top EXCEPT !.pos = top.pos + Len(BackendList)]
  <1>1. /\ TypeOK /\ IInv /\ Alive /\ ~top.busy /\ top.pos <= Slots
    BY DEF SkipFeedback, AtSlot, Running, AInv, IInv
  <1>2. /\ stack # <<>> /\ top \in Frames /\ session[top.on] # "none" /\ FrameRight(top)
        /\ top.pos \in 1 .. Slots /\ name = NameAt(top.pos) /\ name \in Names /\ top.on \in Sessions
    BY <1>1, Standing
  <1>3. 1 \in DOMAIN stack
    BY <1>1, <1>2, StackType
  <1>4. /\ top.kind = "themeChanged" /\ name \notin feedbackHash[top.on]
        /\ stack' = [stack EXCEPT ![1] = g]
        /\ UNCHANGED <<links, theming, objects, sessions, events>>
    BY <1>3 DEF SkipFeedback, top
  <1>5. top.dir = 1
    BY <1>1, <1>2, <1>4 DEF FrameRight
  <1>6. /\ g.kind = top.kind /\ g.on = top.on /\ g.theme = top.theme /\ g.busy = top.busy
        /\ g.dir = top.dir
    BY <1>2 DEF Frames
  <1> HIDE DEF g
  <1>7. top' = g /\ stack' # <<>>
    BY <1>3, <1>4 DEF top
  <1>8. session[top.on] \notin {"setup", "ready"}
    BY <1>2, <1>4 DEF TInv, Inserted
  <1>9. Reloads' /\ Newest' /\ Inserted' /\ Reported'
    <2>1. "themeChanged" # "setup"
      OBVIOUS
    <2>2. QED
      BY <1>2, <1>4, <1>6, <1>7, <1>8, <2>1, SlotGoesOn
  <1>10. Sampled'
    BY <1>1, <1>4, <1>5, <1>6, <1>7 DEF TInv, Sampled, objects
  <1>11. QED
    BY <1>9, <1>10 DEF TInv

LEMMA UploadFailsTheme ==
  ASSUME AInv, TInv, UploadFails
  PROVE  TInv'
  <1> DEFINE g == [top EXCEPT !.busy = FALSE, !.dir = top.dir + 1]
  <1>1. /\ TypeOK /\ IInv /\ Alive /\ stack # <<>> /\ top.busy /\ ~connected[backend]
    BY DEF UploadFails, Alive, AInv, IInv
  <1>2. 1 \in DOMAIN stack /\ top \in Frames
    BY <1>1, StackType
  <1>3. /\ stack' = [stack EXCEPT ![1] = g]
        /\ UNCHANGED <<links, theming, objects, sessions, events>>
    BY <1>2 DEF UploadFails, top
  <1>4. /\ g.kind = top.kind /\ g.on = top.on /\ g.theme = top.theme /\ g.busy = FALSE
        /\ g.pos = top.pos
    BY <1>2 DEF Frames
  <1> HIDE DEF g
  <1>5. top' = g /\ stack' # <<>>
    BY <1>2, <1>3 DEF top
  <1>6. Reloads' /\ Newest' /\ Inserted' /\ Reported'
    BY <1>1, <1>3, <1>4, <1>5, SlotGoesOn
  <1>7. backend' = backend
    BY <1>4, <1>5 DEF backend
  <1>8. Sampled'
    BY <1>1, <1>3, <1>4, <1>5, <1>7 DEF TInv, Sampled, objects, links
  <1>9. QED
    BY <1>6, <1>8 DEF TInv

\* What is cached has content, so a connected backend finds the best directory.
LEMMA FoundBest ==
  ASSUME AInv, TInv, AtSlot
  PROVE  /\ \A i \in 1 .. Len(dirs) : Cached(dirs[i]) => Content[backend][dirs[i]] # "none"
         /\ connected[backend] => Found = BestIn(dirs, backend)
         /\ Found # 0 => Content[backend][dirs[Found]] # "none"
  <1>1. /\ TypeOK /\ IInv /\ Cache /\ Alive /\ ~top.busy /\ top.pos <= Slots
    BY DEF AtSlot, Running, AInv, IInv
  <1>2. /\ stack # <<>> /\ dirs \in Seq(Dirs) /\ Len(dirs) \in Nat /\ DOMAIN dirs = 1 .. Len(dirs)
    BY <1>1, Standing, LenProperties
  <1>3. ASSUME NEW d, Cached(d)
        PROVE  Content[backend][d] # "none"
    <2>1. <<d, backend>> \in DOMAIN feedbackHandleHash
      BY <1>3 DEF Cached
    <2>2. /\ feedbackHandleHash[<<d, backend>>] \in DOMAIN heap
          /\ heap[feedbackHandleHash[<<d, backend>>]].key = <<d, backend>>
      BY <1>1, <2>1 DEF Cache, CacheExact
    <2>3. QED
      BY <2>2 DEF TInv, Sampled
  <1>4. ASSUME connected[backend]
        PROVE  Found = BestIn(dirs, backend)
    <2>1. top.dir = 1
      BY <1>1, <1>2, <1>4 DEF TInv, Sampled
    <2>2. \A d : Cached(d) \/ Loadable(d) <=> Content[backend][d] # "none"
      BY <1>3, <1>4 DEF Loadable
    <2> DEFINE good == {i \in top.dir .. Len(dirs) : Cached(dirs[i]) \/ Loadable(dirs[i])}
               full == {i \in DOMAIN dirs : Content[backend][dirs[i]] # "none"}
    <2>3. good = full
      BY <1>2, <2>1, <2>2
    <2>4. /\ Found = IF good = {} THEN 0 ELSE CHOOSE i \in good : \A j \in good : i <= j
          /\ BestIn(dirs, backend) =
               IF full = {} THEN 0 ELSE CHOOSE i \in full : \A j \in full : i <= j
      BY DEF Found, BestIn
    <2> HIDE DEF good, full
    <2>5. QED
      BY <2>3, <2>4
  <1>5. Found # 0 => Content[backend][dirs[Found]] # "none"
    BY <1>1, <1>3, FoundIs DEF Loadable
  <1>6. QED
    BY <1>3, <1>4, <1>5

LEMMA BeginUploadTheme ==
  ASSUME AInv, TInv, BeginUpload
  PROVE  TInv'
  <1> DEFINE g == [top EXCEPT !.dir = Found, !.old = old, !.busy = TRUE, !.epoch = epoch[backend]]
  <1>1. /\ TypeOK /\ IInv /\ AtSlot /\ stack # <<>> /\ Found # 0
    BY DEF AInv, IInv, BeginUpload, AtSlot, Running, Alive
  <1>2. 1 \in DOMAIN stack /\ top \in Frames
    BY <1>1, StackType
  <1>3. /\ stack' = [stack EXCEPT ![1] = g]
        /\ UNCHANGED <<links, theming, objects, sessions, events>>
    BY <1>2 DEF BeginUpload, top
  <1>4. /\ g.kind = top.kind /\ g.on = top.on /\ g.theme = top.theme /\ g.busy = TRUE
        /\ g.pos = top.pos /\ g.dir = Found
    BY <1>2 DEF Frames
  <1> HIDE DEF g
  <1>5. top' = g /\ stack' # <<>>
    BY <1>2, <1>3 DEF top
  <1>6. Reloads' /\ Newest' /\ Inserted' /\ Reported'
    BY <1>1, <1>3, <1>4, <1>5, SlotGoesOn
  <1>7. backend' = backend /\ dirs' = dirs
    BY <1>4, <1>5 DEF backend, dirs, name
  <1>8. /\ connected[backend] => Found = BestIn(dirs, backend)
        /\ Content[backend][dirs[Found]] # "none"
    BY <1>1, FoundBest
  <1>9. Sampled'
    <2>1. \A c, b : BestIn(c, b)' = BestIn(c, b)
      BY DEF BestIn
    <2>2. connected' = connected /\ heap' = heap
      BY <1>3 DEF links, objects
    <2>3. BestIn(dirs, backend)' = BestIn(dirs, backend)
      BY <1>7 DEF BestIn
    <2>4. QED
      BY <1>4, <1>5, <1>7, <1>8, <2>2, <2>3 DEF TInv, Sampled
  <1>10. QED
    BY <1>6, <1>9 DEF TInv

\* What dies with a session is held by nobody else.
LEMMA DeadOnly ==
  ASSUME TypeOK, RefCountExact, NEW s \in Sessions
  PROVE  \A x \in DOMAIN feedbackHandles : feedbackHandles[x] \in DeadWith(s) => x[1] = s
  <1> DEFINE mine(h) == {x \in Mine(s) : feedbackHandles[x] = h}
  <1>1. ASSUME NEW h \in DeadWith(s)
        PROVE  Users(h) = mine(h)
    <2>1. mine(h) \in SUBSET Users(h)
      BY DEF Mine, Users
    <2>2. UsesOf(s, h) = Cardinality(mine(h))
      BY DEF UsesOf
    <2>3. h \in DOMAIN heap /\ heap[h].refCnt <= UsesOf(s, h) /\ heap[h].refCnt = Cardinality(Users(h))
      BY DEF DeadWith, RefCountExact
    <2> HIDE DEF mine
    <2>4. IsFiniteSet(Users(h)) /\ Cardinality(Users(h)) \in Nat
      BY FiniteUsers
    <2>5. Cardinality(mine(h)) <= Cardinality(Users(h)) /\ Cardinality(mine(h)) \in Nat
      BY <2>1, <2>4, FS_Subset, FS_CardinalityType
    <2>6. Cardinality(Users(h)) = Cardinality(mine(h))
      BY <2>2, <2>3, <2>4, <2>5
    <2>7. QED
      BY <2>1, <2>4, <2>6, FS_Subset
  <1>2. QED
    BY <1>1 DEF Users, Mine

LEMMA DeleteTheme ==
  ASSUME AInv, AInv', TInv, ~Nested, NEW s \in Sessions, Delete(s)
  PROVE  TInv'
  <1>1. /\ IInv /\ TypeOK /\ TypeOK' /\ Pointed /\ Pointed' /\ events \in Seq(Calls)
        /\ session \in [Sessions -> {"none", "scheduled", "setup", "ready"}]
        /\ feedbackHash \in [Sessions -> SUBSET Names]
    BY DEF AInv, IInv, TypeOK
  <1>2. /\ DOMAIN heap' = DOMAIN heap \ DeadWith(s)
        /\ \A h \in DOMAIN heap' : heap'[h].key = heap[h].key
        /\ feedbackHandles' = [x \in Sessions \X Names \X Backends |->
             IF x[1] = s \/ feedbackHandles[x] \in DeadWith(s) THEN Null ELSE feedbackHandles[x]]
        /\ session' = [session EXCEPT ![s] = "none"]
        /\ feedbackHash' = [feedbackHash EXCEPT ![s] = {}]
        /\ events' = DropCalls(events, s)
        /\ UNCHANGED <<links, theming, stack>>
    BY <1>1, DeleteIs
  <1>3. stack = <<>>
    BY NoneRuns DEF Delete
  <1>4. /\ \A r : r # s /\ Told(r) => Told(r)'
        /\ EndsWith(events, currentTheme) => EndsWith(events', currentTheme)
        /\ \A i \in DOMAIN events' : events'[i].slot = "themeChanged" =>
             events'[i].on # s /\ \E j \in DOMAIN events : events[j] = events'[i]
    BY <1>1, <1>2, ToldDropped DEF Told
  <1>5. /\ \A x \in Range(events) : x.slot # "themeChanged" => x \in Range(events')
        /\ Range(events') \subseteq Range(events)
    BY <1>1, <1>2, Dropped
  <1>6. \A r \in Sessions : r # s => session'[r] = session[r] /\ feedbackHash'[r] = feedbackHash[r]
    BY <1>1, <1>2
  <1>7. session'[s] = "none"
    BY <1>1, <1>2
  <1>8. ASSUME NEW x \in Sessions \X Names \X Backends, x[1] # s
        PROVE  Held(x)' = Held(x)
    <2>1. feedbackHandles'[x] = IF feedbackHandles[x] \in DeadWith(s) THEN Null ELSE feedbackHandles[x]
      BY <1>2, <1>8
    <2>2. /\ x \in DOMAIN feedbackHandles /\ x \in DOMAIN feedbackHandles'
      BY <1>1 DEF TypeOK
    <2>3. feedbackHandles[x] \notin DeadWith(s)
      BY <1>1, <1>8, <2>2, DeadOnly DEF AInv
    <2>4. feedbackHandles[x] # Null => heap'[feedbackHandles[x]].key = heap[feedbackHandles[x]].key
      BY <1>1, <1>2, <2>2, <2>3 DEF Pointed
    <2>5. Held(x) = IF feedbackHandles[x] = Null THEN Null ELSE heap[feedbackHandles[x]].key[1]
      BY <1>1, <2>2, HeldIs
    <2>6. Held(x)' = IF feedbackHandles'[x] = Null THEN Null ELSE heap'[feedbackHandles'[x]].key[1]
      BY <1>1, <2>2, CacheAssumption DEF TypeOK, Pointed, Held
    <2>7. QED
      BY <2>1, <2>3, <2>4, <2>5, <2>6
  <1>9. Reloads'
    <2>1. \A b : News(b) => News(b)'
      BY <1>5 DEF News
    <2>2. \A y : Wanted(y)' = Wanted(y)
      BY <1>2, WantedSame DEF theming
    <2>3. SUFFICES ASSUME NEW r \in Sessions, NEW n \in Names, NEW b \in Backends,
                          session'[r] \in {"setup", "ready"}, connected'[b]
                   PROVE  (Held(<<r, n, b>>) = Wanted(<<r, n, b>>))' \/ News(b)' \/ Told(r)'
      BY DEF Reloads
    <2>4. r # s /\ session[r] \in {"setup", "ready"} /\ connected[b]
      BY <1>2, <1>6, <1>7, <2>3 DEF links
    <2>5. Held(<<r, n, b>>) = Wanted(<<r, n, b>>) \/ News(b) \/ Told(r)
      BY <1>3, <2>4 DEF TInv, Reloads, Ahead
    <2>6. Held(<<r, n, b>>)' = Held(<<r, n, b>>)
      BY <1>8, <2>4
    <2>7. QED
      BY <1>4, <2>1, <2>2, <2>4, <2>5, <2>6
  <1>10. Newest'
    <2>1. \A i \in DOMAIN events : events[i].slot = "themeChanged" => events[i].on \in Sessions
      BY <1>1, ThemeCallsOn
    <2>2. \A i \in DOMAIN events' : events'[i].slot = "themeChanged" => session'[events'[i].on] # "none"
      BY <1>4, <1>6, <2>1 DEF TInv, Newest
    <2>3. QED
      BY <1>2, <1>3, <1>4, <2>2 DEF TInv, Newest, theming
  <1>11. Inserted'
    <2>1. \A r \in Sessions : session'[r] \in {"ready", "setup"} => r # s
      BY <1>7
    <2>2. QED
      BY <1>2, <1>3, <1>6, <2>1 DEF TInv, Inserted
  <1>12. Sampled'
    <2>1. \A h \in DOMAIN heap' : h \in DOMAIN heap /\ heap'[h].key = heap[h].key
      BY <1>2
    <2>2. QED
      BY <1>2, <1>3, <2>1 DEF TInv, Sampled
  <1>13. Reported'
    <2>1. \A b \in Backends : Lost(b)' => Lost(b)
      BY <1>5 DEF Lost
    <2>2. QED
      BY <1>2, <2>1 DEF TInv, Reported, links
  <1>14. QED
    BY <1>9, <1>10, <1>11, <1>12, <1>13 DEF TInv

-----------------------------------------------------------------------------
(* A feedback gets its handle.                                             *)

LEMMA BestIs ==
  ASSUME NEW choices \in Seq(Dirs), NEW b
  PROVE  LET good == {i \in DOMAIN choices : Content[b][choices[i]] # "none"}
         IN  IF good = {} THEN BestIn(choices, b) = 0
             ELSE /\ BestIn(choices, b) = CHOOSE i \in good : \A j \in good : i <= j
                  /\ BestIn(choices, b) # 0
  <1> DEFINE good == {i \in DOMAIN choices : Content[b][choices[i]] # "none"}
  <1>1. DOMAIN choices = 1 .. Len(choices) /\ Len(choices) \in Nat
    BY LenProperties
  <1>2. good \in SUBSET Nat /\ 0 \notin good
    BY <1>1
  <1>3. BestIn(choices, b) = IF good = {} THEN 0 ELSE CHOOSE i \in good : \A j \in good : i <= j
    BY DEF BestIn
  <1> HIDE DEF good
  <1>4. CASE good # {}
    <2>1. PICK i \in good : \A j \in good : ~ (<<j, i>> \in OpToRel(<, Nat))
      BY <1>2, <1>4, NatLessThanWellFounded, WFMin
    <2>2. \A j \in good : i <= j
      <3>1. \A j \in good : ~(j < i)
        BY <1>2, <2>1 DEF OpToRel
      <3>2. QED
        BY <1>2, <3>1
    <2>3. BestIn(choices, b) \in good
      BY <1>3, <1>4, <2>2
    <2>4. QED
      BY <1>2, <1>3, <1>4, <2>3 DEF good
  <1>5. CASE good = {}
    BY <1>3, <1>5 DEF good
  <1>6. QED
    BY <1>4, <1>5

\* What a feedback should hold is the best directory of the current theme.
LEMMA WantedIs ==
  ASSUME TypeOK, NEW s, NEW n \in Names, NEW b, NEW choices, choices = DirList[currentTheme][n]
  PROVE  Wanted(<<s, n, b>>) =
           IF BestIn(choices, b) = 0 THEN Null ELSE choices[BestIn(choices, b)]
  <1> DEFINE good == {i \in DOMAIN choices : Content[b][choices[i]] # "none"}
             x == <<s, n, b>>
  <1>1. choices \in Seq(Dirs)
    BY Constants DEF TypeOK
  <1>2. IF good = {} THEN BestIn(choices, b) = 0
        ELSE /\ BestIn(choices, b) = CHOOSE i \in good : \A j \in good : i <= j
             /\ BestIn(choices, b) # 0
    BY <1>1, BestIs
  <1>3. x[2] = n /\ x[3] = b
    OBVIOUS
  <1> HIDE DEF x
  <1>4. Wanted(x) = IF good = {} THEN Null
                    ELSE choices[CHOOSE i \in good : \A j \in good : i <= j]
    BY <1>3 DEF Wanted
  <1> HIDE DEF good
  <1>5. QED
    BY <1>2, <1>4 DEF x

\* What a handle gives the feedback that holds it.
Gives(hp, h) == IF h = Null THEN Null ELSE hp[h].key[1]

\* The handle a connected backend gives is the best one.
GivesBest(hp, new) ==
    connected[backend] =>
      Gives(hp, new) = IF BestIn(dirs, backend) = 0 THEN Null ELSE dirs[BestIn(dirs, backend)]

\* Only the feedback that is loaded changes what it holds.
LEMMA SettleHeld ==
  ASSUME AInv, AInv', Alive, top.pos <= Slots, old = feedbackHandles[here],
         NEW hp, NEW cache, NEW new \in Handles \cup {Null}, RightWith(hp, cache, new),
         Settle(new, hp, cache), NEW x0, x0 = here,
         \A h \in DOMAIN heap : h \in DOMAIN hp /\ hp[h].key = heap[h].key
  PROVE  /\ \A x \in DOMAIN feedbackHandles : x # x0 => Held(x)' = Held(x)
         /\ Held(x0)' = Gives(hp, new)
         /\ \A h \in DOMAIN heap' : h \in DOMAIN hp /\ heap'[h].key = hp[h].key
         /\ Advance
  <1>1. /\ TypeOK /\ TypeOK' /\ Pointed /\ Pointed' /\ IInv
    BY DEF AInv, IInv
  <1>2. SettledAs(hp, new, cache) /\ feedbackHandles' = Placed(new)
    BY SettlePlaces
  <1>3. /\ \A h \in DOMAIN heap' : h \in DOMAIN hp /\ heap'[h].key = hp[h].key
        /\ Advance
    BY <1>2 DEF SettledAs
  <1>4. /\ x0 \in Sessions \X Names \X Backends
        /\ DOMAIN feedbackHandles = Sessions \X Names \X Backends
        /\ DOMAIN feedbackHandles' = DOMAIN feedbackHandles
    BY <1>1, Standing DEF TypeOK
  <1>5. /\ \A x \in DOMAIN feedbackHandles : x # x0 => feedbackHandles'[x] = feedbackHandles[x]
        /\ feedbackHandles'[x0] = new
    BY <1>2, <1>4 DEF Placed
  <1>6. \A x \in DOMAIN feedbackHandles : Held(x)' = Gives(heap', feedbackHandles'[x])
    BY <1>1, <1>4, CacheAssumption DEF TypeOK, Pointed, Held, Gives
  <1>7. ASSUME NEW x \in DOMAIN feedbackHandles, x # x0
        PROVE  Held(x)' = Held(x)
    <2>1. feedbackHandles[x] # Null => /\ feedbackHandles[x] \in DOMAIN heap
                                       /\ feedbackHandles[x] \in DOMAIN heap'
      BY <1>1, <1>4, <1>5, <1>7 DEF Pointed
    <2>2. feedbackHandles[x] # Null => heap'[feedbackHandles[x]].key = heap[feedbackHandles[x]].key
      BY <1>3, <2>1
    <2>3. Held(x) = IF feedbackHandles[x] = Null THEN Null ELSE heap[feedbackHandles[x]].key[1]
      BY <1>1, HeldIs
    <2>4. Held(x)' = Gives(heap', feedbackHandles[x])
      BY <1>5, <1>6, <1>7
    <2>5. QED
      BY <2>2, <2>3, <2>4 DEF Gives
  <1>8. Held(x0)' = Gives(hp, new)
    <2>1. Held(x0)' = Gives(heap', new)
      BY <1>4, <1>5, <1>6
    <2>2. new # Null => new \in DOMAIN heap'
      BY <1>1, <1>4, <1>5 DEF Pointed
    <2>3. QED
      BY <1>3, <2>1, <2>2 DEF Gives
  <1>9. QED
    BY <1>3, <1>7, <1>8

\* The slot moves on to the next backend, and setup() inserts a feedback with its last one.
LEMMA AdvanceIs ==
  ASSUME IInv, Alive, top.pos <= Slots, Advance
  PROVE  /\ stack' # <<>> /\ top'.kind = top.kind /\ top'.on = top.on /\ top'.theme = top.theme
         /\ top'.pos = top.pos + 1 /\ top'.dir = 1 /\ top'.busy = FALSE
         /\ \A s \in Sessions : /\ feedbackHash[s] \subseteq feedbackHash'[s]
                                /\ feedbackHash'[s] \subseteq Names
         /\ top.kind = "setup" /\ top.pos % Len(BackendList) = 0 =>
              NameAt(top.pos) \in feedbackHash'[top.on]
  <1> DEFINE one == 1
             zero == 0
             g == [top EXCEPT !.pos = top.pos + 1, !.dir = one, !.old = Null, !.busy = FALSE,
                              !.epoch = zero]
  <1>1. /\ stack # <<>> /\ top \in Frames /\ top.on \in Sessions /\ name \in Names
        /\ name = NameAt(top.pos)
    BY Standing
  <1>2. /\ TypeOK /\ 1 \in DOMAIN stack
    BY <1>1, StackType DEF IInv
  <1>3. stack' = [stack EXCEPT ![1] = g]
    BY <1>2 DEF Advance, top
  <1>4. /\ g.kind = top.kind /\ g.on = top.on /\ g.theme = top.theme /\ g.pos = top.pos + 1
        /\ g.dir = one /\ g.busy = FALSE
    BY <1>1 DEF Frames
  <1> HIDE DEF g
  <1>5. stack' # <<>> /\ top' = g
    BY <1>2, <1>3 DEF top
  <1>6. feedbackHash \in [Sessions -> SUBSET Names]
    BY <1>2 DEF TypeOK
  <1>7. /\ \A s \in Sessions : /\ feedbackHash[s] \subseteq feedbackHash'[s]
                               /\ feedbackHash'[s] \subseteq Names
        /\ top.kind = "setup" /\ top.pos % Len(BackendList) = 0 =>
             NameAt(top.pos) \in feedbackHash'[top.on]
    BY <1>1, <1>6 DEF Advance, LastBackend
  <1>8. QED
    BY <1>4, <1>5, <1>7

LEMMA SettleTheme ==
  ASSUME AInv, AInv', TInv, Alive, top.pos <= Slots, old = feedbackHandles[here],
         NEW hp, NEW cache, NEW new \in Handles \cup {Null}, RightWith(hp, cache, new),
         Settle(new, hp, cache), GivesBest(hp, new),
         \A h \in DOMAIN heap : h \in DOMAIN hp /\ hp[h].key = heap[h].key,
         \A h \in DOMAIN hp : Content[hp[h].key[2]][hp[h].key[1]] # "none",
         UNCHANGED <<links, theming, session, setupInProgress, events>>
  PROVE  TInv'
  <1>1. PICK x0 \in DOMAIN feedbackHandles, p \in 1 .. Slots, s0 \in Sessions :
          /\ x0 = here /\ p = top.pos /\ s0 = top.on
          /\ x0 = <<s0, NameAt(p), BackendAt(p)>>
    <2>1. /\ here \in DOMAIN feedbackHandles /\ top.pos \in 1 .. Slots /\ top.on \in Sessions
          /\ here = <<top.on, NameAt(top.pos), BackendAt(top.pos)>>
      BY Standing DEF AInv, IInv, TypeOK, here
    <2>2. QED
      BY <2>1
  <1>2. /\ \A x \in DOMAIN feedbackHandles : x # x0 => Held(x)' = Held(x)
        /\ Held(x0)' = Gives(hp, new)
        /\ \A h \in DOMAIN heap' : h \in DOMAIN hp /\ heap'[h].key = hp[h].key
        /\ Advance
    BY <1>1, SettleHeld
  <1>3. /\ stack' # <<>> /\ top'.kind = top.kind /\ top'.on = top.on /\ top'.theme = top.theme
        /\ top'.pos = top.pos + 1 /\ top'.dir = 1 /\ top'.busy = FALSE
        /\ \A s \in Sessions : /\ feedbackHash[s] \subseteq feedbackHash'[s]
                               /\ feedbackHash'[s] \subseteq Names
        /\ top.kind = "setup" /\ top.pos % Len(BackendList) = 0 =>
             NameAt(top.pos) \in feedbackHash'[top.on]
    BY <1>2, AdvanceIs DEF AInv
  <1>4. stack # <<>> /\ TypeOK /\ Slots \in Nat
    BY Constants DEF Alive, AInv, IInv
  <1>5. connected[BackendAt(p)] /\ ~Told(s0) => Held(x0)' = Wanted(x0)
    <2> SUFFICES ASSUME connected[BackendAt(p)], ~Told(s0)
                 PROVE  Held(x0)' = Wanted(x0)
      OBVIOUS
    <2>1. /\ backend = BackendAt(p) /\ name = NameAt(p) /\ name \in Names
      BY <1>1, Standing DEF AInv
    <2>2. dirs = DirList[currentTheme][NameAt(p)]
      BY <1>1, <1>4, <2>1 DEF TInv, Newest, dirs
    <2>3. PICK choices, b, n : choices = dirs /\ b = backend /\ n = name
      OBVIOUS
    <2>4. Gives(hp, new) = IF BestIn(choices, b) = 0 THEN Null ELSE choices[BestIn(choices, b)]
      BY <2>1, <2>3 DEF GivesBest
    <2>5. Wanted(<<s0, n, b>>) =
            IF BestIn(choices, b) = 0 THEN Null ELSE choices[BestIn(choices, b)]
      BY <1>4, <2>1, <2>2, <2>3, WantedIs
    <2>6. QED
      BY <1>1, <1>2, <2>1, <2>3, <2>4, <2>5
  <1>6. ASSUME NEW s \in Sessions, NEW n \in Names, NEW b \in Backends, Ahead(s, n, b),
               <<s, n, b>> # x0
        PROVE  Ahead(s, n, b)'
    <2>1. PICK q \in top.pos .. Slots : NameAt(q) = n /\ BackendAt(q) = b /\ top.on = s
      BY <1>6 DEF Ahead
    <2>2. q # top.pos
      BY <1>1, <1>6, <2>1
    <2>3. q \in top'.pos .. Slots
      BY <1>1, <1>3, <1>4, <2>1, <2>2
    <2>4. QED
      BY <1>3, <2>1, <2>3 DEF Ahead, NameAt, BackendAt
  <1>7. Reloads'
    <2>1. \A y : Wanted(y)' = Wanted(y)
      BY WantedSame DEF theming
    <2>2. ASSUME NEW s \in Sessions, NEW n \in Names, NEW b \in Backends,
                 session[s] \in {"setup", "ready"}, connected[b]
          PROVE  (Held(<<s, n, b>>) = Wanted(<<s, n, b>>))' \/ News(b)' \/ Told(s)' \/ Ahead(s, n, b)'
      <3>1. CASE <<s, n, b>> = x0
        <4>1. s = s0 /\ b = BackendAt(p)
          BY <1>1, <3>1
        <4>2. Told(s)' = Told(s)
          BY DEF Told
        <4>3. QED
          BY <1>5, <2>1, <2>2, <3>1, <4>1, <4>2
      <3>2. CASE <<s, n, b>> # x0
        <4>1. <<s, n, b>> \in DOMAIN feedbackHandles
          BY <1>4 DEF TypeOK
        <4>2. Held(<<s, n, b>>) = Wanted(<<s, n, b>>) \/ News(b) \/ Told(s) \/ Ahead(s, n, b)
          BY <2>2 DEF TInv, Reloads
        <4>3. Told(s)' = Told(s) /\ News(b)' = News(b)
          BY DEF Told, News
        <4>4. Held(<<s, n, b>>)' = Held(<<s, n, b>>)
          BY <1>2, <3>2, <4>1
        <4>5. QED
          BY <1>6, <2>1, <3>2, <4>2, <4>3, <4>4
      <3>3. QED
        BY <3>1, <3>2
    <2>3. QED
      BY <2>2 DEF Reloads, links
  <1>8. Newest'
    BY <1>3, <1>4 DEF TInv, Newest, Told, theming
  <1>9. Inserted'
    <2>1. \A s \in Sessions : session[s] = "ready" => feedbackHash'[s] = Names
      <3>1. \A s \in Sessions : session[s] = "ready" => feedbackHash[s] = Names
        BY DEF TInv, Inserted
      <3>2. \A s \in Sessions : feedbackHash[s] = Names => feedbackHash'[s] = Names
        BY <1>3
      <3>3. QED
        BY <3>1, <3>2
    <2>2. ASSUME top.kind = "setup", NEW q \in 1 .. top'.pos - 1, q % Len(BackendList) = 0
          PROVE  NameAt(q) \in feedbackHash'[s0]
      <3>1. CASE q = p
        BY <1>1, <1>3, <2>2, <3>1
      <3>2. CASE q # p
        <4>1. q \in 1 .. top.pos - 1
          BY <1>1, <1>3, <2>2, <3>2
        <4>2. NameAt(q) \in feedbackHash[s0]
          BY <1>1, <1>4, <2>2, <4>1 DEF TInv, Inserted
        <4>3. QED
          BY <1>3, <4>2
      <3>3. QED
        BY <3>1, <3>2
    <2>3. \A s \in Sessions : session[s] = "setup" => top.kind = "setup" /\ top.on = s
      BY DEF TInv, Inserted
    <2>4. session[top.on] # "none"
      BY DEF Alive
    <2>5. QED
      BY <1>1, <1>3, <2>1, <2>2, <2>3, <2>4 DEF Inserted, NameAt
  <1>10. Sampled'
    BY <1>2, <1>3 DEF Sampled
  <1>11. Reported'
    BY DEF TInv, Reported, Lost, links
  <1>12. QED
    BY <1>7, <1>8, <1>9, <1>10, <1>11 DEF TInv

LEMMA LoadFromCacheTheme ==
  ASSUME AInv, AInv', TInv, LoadFromCache
  PROVE  TInv'
  <1>1. PICK new :
          new = IF Found = 0 THEN Null ELSE feedbackHandleHash[<<dirs[Found], backend>>]
    OBVIOUS
  <1>2. /\ Alive /\ top.pos <= Slots
        /\ new \in Handles \cup {Null} /\ RightWith(heap, feedbackHandleHash, new)
        /\ Settle(new, heap, feedbackHandleHash)
        /\ UNCHANGED <<links, theming, session, setupInProgress, events>>
        /\ Found # 0 => new # Null /\ heap[new].key = <<dirs[Found], backend>>
    BY <1>1, CachedRight
  <1>3. old = feedbackHandles[here]
    BY <1>2, OldIs DEF Alive
  <1>4. GivesBest(heap, new)
    <2>1. connected[backend] => Found = BestIn(dirs, backend)
      BY FoundBest DEF LoadFromCache
    <2>2. Found = 0 => new = Null
      BY <1>1
    <2>3. Gives(heap, new) = IF Found = 0 THEN Null ELSE dirs[Found]
      BY <1>2, <2>2 DEF Gives
    <2>4. QED
      BY <2>1, <2>3 DEF GivesBest
  <1>5. \A h \in DOMAIN heap : Content[heap[h].key[2]][heap[h].key[1]] # "none"
    BY DEF TInv, Sampled
  <1>6. QED
    BY <1>2, <1>3, <1>4, <1>5, SettleTheme

LEMMA EndUploadTheme ==
  ASSUME AInv, AInv', TInv, EndUpload
  PROVE  TInv'
  <1>1. PICK new, hp, cache : new = Fresh1 /\ hp = HeapWith(Fresh1) /\ cache = CacheWith(Fresh1)
    OBVIOUS
  <1>2. /\ Alive /\ top.busy /\ top.pos <= Slots /\ stack # <<>>
        /\ new \in Handles /\ new \notin DOMAIN heap /\ Settle(new, hp, cache)
        /\ top.dir \in 1 .. Len(dirs)
        /\ UNCHANGED <<links, theming, session, setupInProgress, events>>
    BY <1>1, Uploaded DEF AInv, Alive
  <1>3. old = feedbackHandles[here] /\ RightWith(hp, cache, new) /\ new # Null
    BY <1>1, <1>2, OldIs, UploadedRight, CacheAssumption
  <1>4. /\ DOMAIN hp = DOMAIN heap \cup {new} /\ hp[new] = Loaded(dirs[top.dir])
        /\ \A h \in DOMAIN heap : h # new /\ hp[h] = heap[h]
    BY <1>1, <1>2 DEF HeapWith
  <1>5. /\ hp[new].key = <<dirs[top.dir], backend>>
        /\ hp[new].key[1] = dirs[top.dir] /\ hp[new].key[2] = backend
    BY <1>4 DEF Loaded
  <1>6. GivesBest(hp, new)
    <2>1. connected[backend] => top.dir = BestIn(dirs, backend)
      BY <1>2 DEF TInv, Sampled
    <2>2. top.dir # 0
      <3>1. \A i \in 1 .. Len(dirs) : i # 0
        OBVIOUS
      <3>2. QED
        BY <1>2, <3>1
    <2>3. Gives(hp, new) = dirs[top.dir]
      BY <1>3, <1>5 DEF Gives
    <2>4. QED
      BY <2>1, <2>2, <2>3 DEF GivesBest
  <1>7. \A h \in DOMAIN hp : Content[hp[h].key[2]][hp[h].key[1]] # "none"
    <2>1. Content[backend][dirs[top.dir]] # "none"
      BY <1>2 DEF TInv, Sampled
    <2>2. \A h \in DOMAIN heap : Content[heap[h].key[2]][heap[h].key[1]] # "none"
      BY DEF TInv, Sampled
    <2>3. QED
      BY <1>4, <1>5, <2>1, <2>2
  <1>8. \A h \in DOMAIN heap : h \in DOMAIN hp /\ hp[h].key = heap[h].key
    BY <1>4
  <1>9. QED
    BY <1>2, <1>3, <1>6, <1>7, <1>8, SettleTheme

-----------------------------------------------------------------------------
(* Every step keeps what is still to come.                                 *)

LEMMA TInvStep ==
  ASSUME AInv, AInv', TInv, ~Nested, [Next]_vars
  PROVE  TInv'
  <1>1. CASE \E b \in Backends : Lose(b) \/ Establish(b)
    BY <1>1, LoseTheme, EstablishTheme
  <1>2. CASE backendConnected \/ backendDisconnected \/ \E t \in Themes : loadTheme(t)
    BY <1>2, backendConnectedTheme, backendDisconnectedTheme, loadThemeTheme
  <1>3. CASE \E s \in Sessions : NewSession(s) \/ setup(s) \/ Delete(s)
    BY <1>3, NewSessionTheme, setupTheme, DeleteTheme
  <1>4. CASE UNCHANGED vars \/ \E s \in Sessions : setupLater(s)
    <2>1. UNCHANGED <<links, theming, objects, sessions, events, stack>>
      BY <1>4 DEF setupLater, vars
    <2>2. \A y : Held(y)' = Held(y) /\ Wanted(y)' = Wanted(y)
      BY <2>1, HeldSame, WantedSame DEF objects, theming
    <2>3. Reloads'
      BY <2>1, <2>2 DEF TInv, Reloads, News, Told, Ahead, NameAt, BackendAt, top, links, sessions
    <2>4. Newest'
      BY <2>1 DEF TInv, Newest, EndsWith, Told, top, theming, sessions
    <2>5. Inserted' /\ Sampled'
      BY <2>1, SlotsStay DEF objects, sessions, links
    <2>6. Reported'
      BY <2>1 DEF TInv, Reported, Lost, links
    <2>7. QED
      BY <2>3, <2>4, <2>5, <2>6 DEF TInv
  <1>5. CASE themeChanged \/ LoadFromCache \/ SkipFeedback \/ BeginUpload
    BY <1>5, themeChangedTheme, LoadFromCacheTheme, SkipFeedbackTheme, BeginUploadTheme
  <1>6. CASE EndUpload \/ UploadFails \/ Return
    BY <1>6, EndUploadTheme, UploadFailsTheme, ReturnTheme
  <1>7. CASE Abandon
    BY <1>7 DEF Abandon, TInv, Inserted
  <1>8. QED
    BY <1>1, <1>2, <1>3, <1>4, <1>5, <1>6, <1>7 DEF Next

\* With nothing left to come, every feedback has what it should hold.
LEMMA NothingToCome ==
  ASSUME AInv, TInv
  PROVE  ThemeSettled
  <1> SUFFICES ASSUME NEW x \in DOMAIN feedbackHandles, Settled(x)
               PROVE  Held(x) = IF connected[x[3]] THEN Wanted(x) ELSE Null
    BY DEF ThemeSettled
  <1>1. /\ stack = <<>> /\ events = <<>> /\ session[x[1]] = "ready"
    BY DEF Settled, Idle
  <1>2. /\ TypeOK /\ Pointed
        /\ x \in Sessions \X Names \X Backends
    BY DEF AInv, IInv, TypeOK
  <1>3. x = <<x[1], x[2], x[3]>> /\ x[1] \in Sessions /\ x[2] \in Names /\ x[3] \in Backends
    BY <1>2
  <1>4. \A y : y \notin Range(events)
    BY <1>1 DEF Range
  <1>5. CASE connected[x[3]]
    <2>1. \A s, n, b : ~News(b) /\ ~Told(s) /\ ~Ahead(s, n, b)
      BY <1>1, <1>4 DEF News, Told, ToldIn, Ahead
    <2>2. Held(<<x[1], x[2], x[3]>>) = Wanted(<<x[1], x[2], x[3]>>)
      BY <1>1, <1>3, <1>5, <2>1 DEF TInv, Reloads
    <2>3. QED
      BY <1>3, <1>5, <2>2
  <1>6. CASE ~connected[x[3]]
    <2>1. ASSUME feedbackHandles[x] # Null
          PROVE  FALSE
      <3>1. feedbackHandles[x] \in DOMAIN heap /\ heap[feedbackHandles[x]].key[2] = x[3]
        BY <1>2, <2>1 DEF Pointed
      <3>2. Current(x[3], heap[feedbackHandles[x]].epoch)
        BY <3>1 DEF AInv, Fresh
      <3>3. QED
        BY <1>4, <1>6, <3>2 DEF Current, Lost
    <2>2. QED
      BY <1>2, <1>6, <2>1, HeldIs
  <1>7. QED
    BY <1>5, <1>6

\* Unless a backend runs an event loop of its own, once the posted calls are served every
\* feedback of every session has the handle the current theme gives it on a connected backend
\* and none of a backend that is not, however sessions, theme changes, losses and reconnections
\* came in between: none of them is ever left without the call that reloads it.
THEOREM ThemeSettles ==
  ASSUME ~Nested
  PROVE  Spec => []ThemeSettled
  <1>1. Init => AInv /\ TInv
    BY AInvInit, InitTheme
  <1>2. (AInv /\ TInv) /\ [Next]_vars => (AInv /\ TInv)'
    BY AInvStep, TInvStep
  <1>3. AInv /\ TInv => ThemeSettled
    BY NothingToCome
  <1>4. QED
    BY <1>1, <1>2, <1>3, PTL DEF Spec

=============================================================================
