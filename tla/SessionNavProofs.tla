--------------------------- MODULE SessionNavProofs ---------------------------
(***************************************************************************)
(* Proofs about SessionNav, for any chats, identifiers and bounds.         *)
(*                                                                         *)
(* The navigation state is a record that the helpers of the code map to a  *)
(* record, so the inductive invariant is a predicate on such a record, and *)
(* each helper has one lemma: from a sound state it makes a sound one, at  *)
(* a known cost.  The steps only put those lemmas together.                *)
(***************************************************************************)
EXTENDS SessionNav, FiniteSetTheorems, TLAPS

-----------------------------------------------------------------------------
(* The invariant.                                                          *)

\* NavType with deferred chats counted without end
CallShape ==
    [kind : {"select", "mat", "drop", "delete", "list", "peek", "pick", "default", "auto",
             "catalog"},
     id : Sessions \cup {None}, chat : Nat, token : Nat,
     phase : {"sent", "served", "swap", "failed"}, timer : BOOLEAN, adopt : BOOLEAN,
     ids : SUBSET Sessions]

Shape ==
    [current : Sessions \cup {None}, token : Nat, pending : Nat, chats : Nat,
     manual : SUBSET Nat, promise : Nat, pane : Sessions \cup {None, Loading, Failed},
     hash : Sessions \cup {None}, last : Sessions \cup {None},
     saved : Sessions \cup {None}, row : Sessions \cup {None}, skip : BOOLEAN,
     rooted : BOOLEAN, listed : SUBSET Sessions, picking : {"no", "valid", "stale"},
     auto : BOOLEAN, sending : {"no", "slash", "adopt", "mat", "default", "confirm"},
     from : Sessions \cup {None} \cup Nat, waits : Nat, held : BOOLEAN, calls : SUBSET CallShape]

\* A deferred chat is known by the number it got when it was made, and only the last one
\* can be the deferred chat of now.
Numbered(n) ==
    /\ n.pending \in {0, n.chats} /\ n.promise <= n.chats /\ n.waits <= n.chats
    /\ n.manual \subseteq 1 .. n.chats
    /\ n.from \in Nat => n.from <= n.chats
    /\ \A c \in n.calls : c.chat <= n.chats

\* Creations: one for each chat, known to the promise while the chat is the deferred one,
\* and an answered one is on record.
Creations(n, M) ==
    /\ \A c \in n.calls : c.kind = "mat" =>
          /\ c.chat # 0
          /\ c.chat = n.pending => n.promise = n.pending
          /\ c.phase = "served" => [chat |-> c.chat, id |-> c.id] \in M
    /\ \A c, d \in n.calls : c.kind = "mat" /\ d.kind = "mat" /\ c.chat = d.chat => c = d
    /\ n.promise # 0 => \E c \in n.calls : c.kind = "mat" /\ c.chat = n.promise

\* The message being sent: one from a deferred chat waits for that chat or for an older one,
\* and what is asked for its sake is asked once.
Sending(n) ==
    /\ n.waits # 0 <=> n.sending = "mat"
    /\ n.sending \in {"slash", "adopt", "default"} => n.from \notin Nat
    /\ n.sending = "mat" /\ n.from \in Nat => n.waits <= n.from
    /\ \A c \in n.calls : c.kind = "default" => c = NewCall("default") /\ n.sending = "default"
    /\ \A c \in n.calls : c.kind = "catalog" => c = NewCall("catalog") /\ n.sending = "slash"

Sound(n, M) == n \in Shape /\ IsFiniteSet(n.calls) /\ Numbered(n) /\ Creations(n, M) /\ Sending(n)

\* Calls that may end in a new deferred chat: a reload may find no chat at all.
Makers == {"mat", "delete", "list", "pick", "auto"}
Making(n) == {c \in n.calls : c.kind \in Makers}
Made(n) == n.chats + Cardinality(Making(n))
Owed(n) == IF n.sending \in {"slash", "adopt", "default"} THEN 2 ELSE 0

NavInv ==
    /\ Sound(nav, made)
    /\ Made(nav) + Owed(nav) <= 2 * inputs + 1
    /\ inputs \in Nat /\ inputs <= MaxInputs
    /\ exists \subseteq Sessions
    /\ made \subseteq [chat : 0 .. nav.chats, id : Fresh]
    /\ posts \subseteq [from : Sessions \cup {None} \cup 0 .. nav.chats, to : Sessions]
    /\ SentToItsChat

-----------------------------------------------------------------------------
(* Records and sets of calls.                                              *)

\* A new call is one, and nothing but its kind is set.
LEMMA CallTyped ==
    ASSUME NEW kind \in Makers \cup {"select", "drop", "peek", "default", "catalog"}
    PROVE  /\ NewCall(kind) \in CallShape
           /\ NewCall(kind).kind = kind /\ NewCall(kind).chat = 0
           /\ NewCall(kind).phase = "sent"
BY DEF NewCall, CallShape, Makers

LEMMA NoneIsNoChat == None \notin Nat /\ \A s \in Sessions : s \notin Nat
BY NavAssumption

\* What the cardinality counts.
LEMMA MakingCounted ==
    ASSUME NEW n, IsFiniteSet(n.calls)
    PROVE  IsFiniteSet(Making(n)) /\ Cardinality(Making(n)) \in Nat
<1>1. Making(n) \subseteq n.calls
  BY DEF Making
<1>2. QED
  BY <1>1, FS_Subset, FS_CardinalityType

\* A call more.
LEMMA CallAdded ==
    ASSUME NEW n, NEW r, NEW c, IsFiniteSet(n.calls), r.calls = n.calls \cup {c}
    PROVE  /\ IsFiniteSet(r.calls)
           /\ Cardinality(Making(r)) <= Cardinality(Making(n)) + 1
           /\ c.kind \notin Makers => Cardinality(Making(r)) = Cardinality(Making(n))
<1>1. IsFiniteSet(r.calls)
  BY FS_AddElement
<1>2. CASE c.kind \in Makers
  <2>1. Making(r) = Making(n) \cup {c}
    BY <1>2 DEF Making
  <2>2. /\ IsFiniteSet(Making(n)) /\ Cardinality(Making(n)) \in Nat
        /\ Cardinality(Making(n) \cup {c}) \in {Cardinality(Making(n)), Cardinality(Making(n)) + 1}
    BY MakingCounted, FS_AddElement
  <2>3. QED
    BY <1>1, <1>2, <2>1, <2>2
<1>3. CASE c.kind \notin Makers
  <2>1. Making(r) = Making(n)
    BY <1>3 DEF Making
  <2>2. QED
    BY <1>1, <2>1, MakingCounted
<1>4. QED
  BY <1>2, <1>3

\* A call less.
LEMMA CallRemoved ==
    ASSUME NEW n, NEW r, NEW c \in n.calls, IsFiniteSet(n.calls), r.calls = n.calls \ {c}
    PROVE  /\ IsFiniteSet(r.calls)
           /\ Cardinality(Making(r)) <= Cardinality(Making(n))
           /\ c.kind \in Makers => Cardinality(Making(r)) + 1 = Cardinality(Making(n))
<1>1. IsFiniteSet(r.calls)
  BY FS_RemoveElement
<1>2. CASE c.kind \in Makers
  <2>1. Making(r) = Making(n) \ {c} /\ c \in Making(n)
    BY <1>2 DEF Making
  <2>2. /\ IsFiniteSet(Making(n)) /\ Cardinality(Making(n)) \in Nat
        /\ Cardinality(Making(n) \ {c}) = Cardinality(Making(n)) - 1
    BY <2>1, MakingCounted, FS_RemoveElement
  <2>3. QED
    BY <1>1, <2>1, <2>2
<1>3. CASE c.kind \notin Makers
  <2>1. Making(r) = Making(n)
    BY <1>3 DEF Making
  <2>2. QED
    BY <1>1, <1>3, <2>1, MakingCounted
<1>4. QED
  BY <1>2, <1>3

-----------------------------------------------------------------------------
(* Sound states from sound states.                                         *)

\* The fields that the invariant does not relate may change, and the deferred chat may go.
LEMMA KeepSound ==
    ASSUME NEW M, NEW n, Sound(n, M), NEW r \in Shape,
           r.chats = n.chats, r.manual = n.manual, r.waits = n.waits, r.from = n.from,
           r.sending = n.sending, r.calls = n.calls,
           \/ r.pending = n.pending /\ r.promise = n.promise
           \/ r.pending = 0 /\ r.promise \in {0, n.promise}
    PROVE  Sound(r, M) /\ Made(r) = Made(n) /\ Owed(r) = Owed(n)
<1>1. n \in Shape /\ IsFiniteSet(r.calls)
  BY DEF Sound
<1>2. Numbered(r)
  BY <1>1 DEF Sound, Numbered, Shape
<1>3. Creations(r, M)
  BY <1>1 DEF Sound, Creations, Shape
<1>4. Sending(r)
  BY <1>1 DEF Sound, Sending
<1>5. QED
  BY <1>1, <1>2, <1>3, <1>4 DEF Sound, Made, Owed, Making

\* A new deferred chat.
LEMMA NewChatSound ==
    ASSUME NEW M, NEW n, Sound(n, M), NEW r \in Shape,
           r.chats = n.chats + 1, r.pending = n.chats + 1, r.promise \in {0, n.promise},
           r.manual \in {n.manual, n.manual \cup {n.chats + 1}},
           r.waits = n.waits, r.from = n.from, r.sending = n.sending, r.calls = n.calls
    PROVE  Sound(r, M) /\ Made(r) = Made(n) + 1 /\ Owed(r) = Owed(n)
<1>1. n \in Shape /\ IsFiniteSet(r.calls) /\ n.chats \in Nat
  BY DEF Sound, Shape
<1>2. Numbered(r)
  <2>1. \A c \in n.calls : c.chat \in Nat /\ c.chat <= n.chats
    BY <1>1 DEF Sound, Numbered, Shape, CallShape
  <2>2. n.waits \in Nat /\ n.promise \in Nat /\ n.waits <= n.chats /\ n.promise <= n.chats
    BY <1>1 DEF Sound, Numbered, Shape
  <2>3. (n.from \in Nat => n.from <= n.chats) /\ n.manual \subseteq 1 .. n.chats
    BY <1>1 DEF Sound, Numbered
  <2>4. r.manual \subseteq 1 .. r.chats
    BY <1>1, <2>3
  <2>5. QED
    BY <1>1, <2>1, <2>2, <2>3, <2>4 DEF Numbered
<1>3. Creations(r, M)
  <2>1. \A c \in n.calls : c.chat \in Nat /\ c.chat # r.pending
    BY <1>1 DEF Sound, Numbered, Shape, CallShape
  <2>2. QED
    BY <1>1, <2>1 DEF Sound, Creations
<1>4. Sending(r)
  BY <1>1 DEF Sound, Sending
<1>5. Made(r) = Made(n) + 1
  <2>1. Making(r) = Making(n) /\ Cardinality(Making(n)) \in Nat
    BY <1>1, MakingCounted DEF Making, Sound
  <2>2. QED
    BY <1>1, <2>1 DEF Made
<1>6. QED
  BY <1>1, <1>2, <1>3, <1>4, <1>5 DEF Sound, Owed

\* A request that is neither a creation nor made for the message being sent.
LEMMA AddSound ==
    ASSUME NEW M, NEW n, Sound(n, M), NEW c \in CallShape,
           c.kind \notin {"mat", "default", "catalog"}, c.chat = 0
    PROVE  /\ Sound(Add(n, c), M) /\ Owed(Add(n, c)) = Owed(n)
           /\ Made(Add(n, c)) <= Made(n) + 1
           /\ c.kind \notin Makers => Made(Add(n, c)) = Made(n)
<1> DEFINE r == Add(n, c)
<1>1. n \in Shape /\ IsFiniteSet(n.calls) /\ n.chats \in Nat
  BY DEF Sound, Shape
<1>2. /\ r \in Shape /\ r.calls = n.calls \cup {c} /\ r.chats = n.chats
      /\ r.pending = n.pending /\ r.promise = n.promise /\ r.waits = n.waits
      /\ r.manual = n.manual /\ r.from = n.from /\ r.sending = n.sending
  BY <1>1 DEF Add, Shape
<1> HIDE DEF r
<1>3. Numbered(r)
  BY <1>1, <1>2 DEF Sound, Numbered
<1>4. Creations(r, M)
  BY <1>2 DEF Sound, Creations
<1>5. Sending(r)
  BY <1>2 DEF Sound, Sending
<1>6. /\ IsFiniteSet(r.calls) /\ Made(r) <= Made(n) + 1
      /\ c.kind \notin Makers => Made(r) = Made(n)
  <2>1. /\ IsFiniteSet(r.calls)
        /\ Cardinality(Making(r)) <= Cardinality(Making(n)) + 1
        /\ c.kind \notin Makers => Cardinality(Making(r)) = Cardinality(Making(n))
    BY <1>1, <1>2, CallAdded
  <2>2. Cardinality(Making(n)) \in Nat /\ Cardinality(Making(r)) \in Nat
    BY <1>1, <2>1, MakingCounted
  <2>3. QED
    BY <1>1, <1>2, <2>1, <2>2 DEF Made
<1>7. QED
  BY <1>2, <1>3, <1>4, <1>5, <1>6 DEF Sound, Owed, r

\* A request that is answered, other than a creation.
LEMMA DropSound ==
    ASSUME NEW M, NEW n, Sound(n, M), NEW c \in n.calls, c.kind # "mat",
           NEW r, r = [n EXCEPT !.calls = @ \ {c}]
    PROVE  /\ Sound(r, M) /\ Owed(r) = Owed(n) /\ Made(r) <= Made(n)
           /\ c.kind \in Makers => Made(r) + 1 = Made(n)
<1>1. n \in Shape /\ IsFiniteSet(n.calls) /\ n.chats \in Nat
  BY DEF Sound, Shape
<1>2. /\ r \in Shape /\ r.calls = n.calls \ {c} /\ r.chats = n.chats
      /\ r.pending = n.pending /\ r.promise = n.promise /\ r.waits = n.waits
      /\ r.manual = n.manual /\ r.from = n.from /\ r.sending = n.sending
  BY <1>1 DEF Shape
<1>3. Numbered(r)
  BY <1>1, <1>2 DEF Sound, Numbered
<1>4. Creations(r, M)
  <2>1. r.promise # 0 => \E d \in r.calls : d.kind = "mat" /\ d.chat = r.promise
    BY <1>2 DEF Sound, Creations
  <2>2. QED
    BY <1>2, <2>1 DEF Sound, Creations
<1>5. Sending(r)
  BY <1>2 DEF Sound, Sending
<1>6. /\ IsFiniteSet(r.calls) /\ Made(r) <= Made(n)
      /\ c.kind \in Makers => Made(r) + 1 = Made(n)
  <2>1. /\ IsFiniteSet(r.calls)
        /\ Cardinality(Making(r)) <= Cardinality(Making(n))
        /\ c.kind \in Makers => Cardinality(Making(r)) + 1 = Cardinality(Making(n))
    BY <1>1, <1>2, CallRemoved
  <2>2. Cardinality(Making(n)) \in Nat /\ Cardinality(Making(r)) \in Nat
    BY <1>1, <2>1, MakingCounted
  <2>3. QED
    BY <1>1, <1>2, <2>1, <2>2 DEF Made
<1>7. QED
  BY <1>2, <1>3, <1>4, <1>5, <1>6 DEF Sound, Owed

\* A request served, or a timer gone off: the same call in another phase.
LEMMA SwapSound ==
    ASSUME NEW M, NEW n, Sound(n, M), NEW c \in n.calls, NEW d \in CallShape,
           d.kind = c.kind, d.chat = c.chat, c.kind \notin {"default", "catalog"},
           d.kind = "mat" /\ d.phase = "served" => [chat |-> d.chat, id |-> d.id] \in M,
           NEW r \in Shape, r.calls = (n.calls \ {c}) \cup {d},
           r.chats = n.chats, r.pending = n.pending, r.promise = n.promise, r.waits = n.waits,
           r.manual = n.manual, r.from = n.from, r.sending = n.sending
    PROVE  Sound(r, M) /\ Owed(r) = Owed(n) /\ Made(r) <= Made(n)
<1>1. n \in Shape /\ IsFiniteSet(n.calls) /\ n.chats \in Nat
  BY DEF Sound, Shape
<1>2. Numbered(r)
  BY <1>1 DEF Sound, Numbered
<1>3. Creations(r, M)
  <2>1. \A e, f \in r.calls : e.kind = "mat" /\ f.kind = "mat" /\ e.chat = f.chat => e = f
    BY DEF Sound, Creations
  <2>2. r.promise # 0 => \E e \in r.calls : e.kind = "mat" /\ e.chat = r.promise
    BY DEF Sound, Creations
  <2>3. \A e \in r.calls : e.kind = "mat" =>
          /\ e.chat # 0
          /\ e.chat = r.pending => r.promise = r.pending
          /\ e.phase = "served" => [chat |-> e.chat, id |-> e.id] \in M
    BY DEF Sound, Creations
  <2>4. QED
    BY <2>1, <2>2, <2>3 DEF Creations
<1>4. Sending(r)
  BY DEF Sound, Sending
<1>5. IsFiniteSet(r.calls) /\ Made(r) <= Made(n)
  <2> DEFINE m == [calls |-> n.calls \ {c}]
  <2>1. m.calls = n.calls \ {c}
    OBVIOUS
  <2>2. /\ IsFiniteSet(m.calls) /\ Cardinality(Making(m)) <= Cardinality(Making(n))
        /\ c.kind \in Makers => Cardinality(Making(m)) + 1 = Cardinality(Making(n))
    <3> HIDE DEF m
    <3>1. QED
      BY <1>1, <2>1, CallRemoved
  <2> HIDE DEF m
  <2>3. /\ IsFiniteSet(r.calls) /\ Cardinality(Making(r)) <= Cardinality(Making(m)) + 1
        /\ d.kind \notin Makers => Cardinality(Making(r)) = Cardinality(Making(m))
    BY <2>1, <2>2, CallAdded
  <2>4. /\ Cardinality(Making(n)) \in Nat /\ Cardinality(Making(r)) \in Nat
        /\ Cardinality(Making(m)) \in Nat
    BY <1>1, <2>2, <2>3, MakingCounted
  <2>5. Cardinality(Making(r)) <= Cardinality(Making(n))
    BY <2>2, <2>3, <2>4
  <2>6. QED
    BY <1>1, <2>3, <2>4, <2>5 DEF Made
<1>6. QED
  BY <1>2, <1>3, <1>4, <1>5 DEF Sound, Owed

\* A creation that is answered or fails: its promise is forgotten, and no other one had it.
LEMMA SettledSound ==
    ASSUME NEW M, NEW n, Sound(n, M), NEW c \in n.calls, c.kind = "mat",
           NEW r, r = Settle([n EXCEPT !.calls = @ \ {c}], c)
    PROVE  /\ Sound(r, M) /\ Owed(r) = Owed(n) /\ Made(r) + 1 = Made(n)
           /\ r.calls = n.calls \ {c} /\ r.pending = n.pending /\ r.sending = n.sending
           /\ r.waits = n.waits /\ r.from = n.from /\ r.current = n.current /\ r.pane = n.pane
           /\ r.chats = n.chats /\ (n.pending = c.chat => r.promise = 0)
<1>1. n \in Shape /\ IsFiniteSet(n.calls) /\ n.chats \in Nat
  BY DEF Sound, Shape
<1>2. /\ r \in Shape /\ r.calls = n.calls \ {c} /\ r.chats = n.chats
      /\ r.pending = n.pending /\ r.waits = n.waits /\ r.current = n.current
      /\ r.manual = n.manual /\ r.from = n.from /\ r.sending = n.sending /\ r.pane = n.pane
      /\ r.promise = IF n.promise = c.chat THEN 0 ELSE n.promise
  <2> DEFINE m == [n EXCEPT !.calls = @ \ {c}]
  <2>1. m \in Shape
    BY <1>1 DEF Shape
  <2>2. /\ m.calls = n.calls \ {c} /\ m.chats = n.chats
        /\ m.pending = n.pending /\ m.waits = n.waits /\ m.current = n.current
        /\ m.manual = n.manual /\ m.from = n.from /\ m.sending = n.sending
        /\ m.promise = n.promise /\ m.pane = n.pane
    BY <1>1 DEF Shape
  <2>3. r = Settle(m, c)
    OBVIOUS
  <2> HIDE DEF m
  <2>4. [m EXCEPT !.promise = 0] \in Shape
    BY <2>1 DEF Shape
  <2>5. r \in Shape
    BY <2>1, <2>3, <2>4 DEF Settle
  <2>6. QED
    BY <2>1, <2>2, <2>3, <2>5 DEF Settle, Shape
<1>3. Numbered(r)
  <2>1. r.promise <= r.chats
    BY <1>1, <1>2 DEF Sound, Numbered
  <2>2. QED
    BY <1>1, <1>2, <2>1 DEF Sound, Numbered
<1>4. Creations(r, M)
  <2>1. \A d \in r.calls : d.kind = "mat" => d.chat # c.chat /\ d \in n.calls
    BY <1>2 DEF Sound, Creations
  <2>2. \A d \in r.calls : d.kind = "mat" =>
          /\ d.chat # 0
          /\ d.chat = r.pending => r.promise = r.pending
          /\ d.phase = "served" => [chat |-> d.chat, id |-> d.id] \in M
    BY <1>2, <2>1, ZenonT(60) DEF Sound, Creations
  <2>3. r.promise # 0 => \E d \in r.calls : d.kind = "mat" /\ d.chat = r.promise
    BY <1>2 DEF Sound, Creations
  <2>4. QED
    BY <1>2, <2>2, <2>3 DEF Sound, Creations
<1>5. Sending(r)
  BY <1>2 DEF Sound, Sending
<1>6. IsFiniteSet(r.calls) /\ Made(r) + 1 = Made(n)
  <2>1. /\ IsFiniteSet(r.calls)
        /\ Cardinality(Making(r)) + 1 = Cardinality(Making(n))
    BY <1>1, <1>2, CallRemoved DEF Makers
  <2>2. Cardinality(Making(n)) \in Nat /\ Cardinality(Making(r)) \in Nat
    BY <1>1, <2>1, MakingCounted
  <2>3. QED
    BY <1>1, <1>2, <2>1, <2>2 DEF Made
<1>7. n.pending = c.chat => r.promise = 0
  BY <1>2 DEF Sound, Creations
<1>8. QED
  BY <1>2, <1>3, <1>4, <1>5, <1>6, <1>7 DEF Sound, Owed

\* A message sent or given up, when no request is in flight for its sake.
LEMMA ReleaseSound ==
    ASSUME NEW M, NEW n, Sound(n, M), \A c \in n.calls : c.kind \notin {"default", "catalog"}
    PROVE  /\ Sound(Release(n), M) /\ Owed(Release(n)) = 0 /\ Made(Release(n)) = Made(n)
           /\ Release(n).calls = n.calls /\ Release(n).chats = n.chats
           /\ Release(n).current = n.current /\ Release(n).pane = n.pane
           /\ Release(n).pending = n.pending
<1> DEFINE r == Release(n)
<1>1. n \in Shape /\ IsFiniteSet(n.calls) /\ n.chats \in Nat
  BY DEF Sound, Shape
<1>2. /\ r \in Shape /\ r.calls = n.calls /\ r.chats = n.chats /\ r.waits = 0
      /\ r.pending = n.pending /\ r.promise = n.promise /\ r.from = None
      /\ r.manual = n.manual /\ r.sending = "no" /\ r.current = n.current /\ r.pane = n.pane
  <2>1. r = [n EXCEPT !.sending = "no", !.from = None, !.waits = 0, !.held = FALSE]
    BY DEF Release
  <2> HIDE DEF r
  <2>2. r \in Shape
    BY <1>1, <2>1 DEF Shape
  <2>3. QED
    BY <1>1, <2>1, <2>2 DEF Shape
<1> HIDE DEF r
<1>3. Numbered(r)
  BY <1>1, <1>2, NoneIsNoChat DEF Sound, Numbered
<1>4. Creations(r, M)
  BY <1>2 DEF Sound, Creations
<1>5. Sending(r)
  BY <1>2 DEF Sending
<1>6. QED
  BY <1>1, <1>2, <1>3, <1>4, <1>5 DEF Sound, Owed, Made, Making, r

-----------------------------------------------------------------------------
(* The helpers of the code.                                                *)

\* Opening a chat leaves the deferred one behind.
LEMMA SelectSound ==
    ASSUME NEW M, NEW n, Sound(n, M), NEW id \in Sessions, NEW adopt \in BOOLEAN,
           NEW r, r = selectSession(n, id, adopt)
    PROVE  /\ Sound(r, M) /\ Made(r) = Made(n) /\ Owed(r) = Owed(n)
           /\ r.pane = n.pane /\ r.current = id /\ r.pending = 0 /\ r.chats = n.chats
           /\ r.sending = n.sending /\ r.from = n.from /\ n.calls \subseteq r.calls
<1> DEFINE m == [n EXCEPT !.token = @ + 1, !.pending = 0, !.promise = 0, !.current = id,
                          !.last = id, !.row = IF id \in n.listed THEN id ELSE None,
                          !.hash = IF id \in Transient THEN @ ELSE id,
                          !.saved = IF id \in Transient THEN @ ELSE id]
           c == [NewCall("select") EXCEPT !.id = id, !.token = m.token, !.adopt = adopt,
                                          !.timer = ~adopt /\ n.current # id]
<1>1. r = Add(m, c)
  BY DEF selectSession
<1>2. n \in Shape
  BY DEF Sound
<1>3. /\ m.calls = n.calls /\ m.chats = n.chats /\ m.waits = n.waits
      /\ m.pending = 0 /\ m.promise = 0 /\ m.from = n.from /\ m.pane = n.pane
      /\ m.manual = n.manual /\ m.sending = n.sending /\ m.current = id
  BY <1>2 DEF Shape
<1>4. m \in Shape
  <2> DEFINE h == IF id \in Transient THEN n.hash ELSE id
             s == IF id \in Transient THEN n.saved ELSE id
             w == IF id \in n.listed THEN id ELSE None
             t == n.token + 1
  <2>1. /\ h \in Sessions \cup {None} /\ t \in Nat /\ 0 \in Nat
        /\ id \in Sessions \cup {None} /\ s \in Sessions \cup {None}
        /\ w \in Sessions \cup {None}
    BY <1>2 DEF Shape
  <2>2. m = [n EXCEPT !.token = t, !.pending = 0, !.promise = 0, !.current = id,
                      !.last = id, !.row = w, !.hash = h, !.saved = s]
    OBVIOUS
  <2> HIDE DEF h, s, w, t
  <2>3. [n EXCEPT !.token = t, !.pending = 0, !.promise = 0, !.current = id,
                  !.last = id, !.row = w, !.hash = h, !.saved = s] \in Shape
    BY <1>2, <2>1 DEF Shape
  <2>4. QED
    BY <2>2, <2>3
<1>5. c \in CallShape /\ c.kind = "select" /\ c.chat = 0
  <2>1. m.token \in Nat /\ (~adopt /\ n.current # id) \in BOOLEAN
    BY <1>4 DEF Shape
  <2> HIDE DEF m
  <2>2. QED
    BY <2>1 DEF NewCall, CallShape
<1> HIDE DEF m, c
<1>6. Sound(m, M) /\ Made(m) = Made(n) /\ Owed(m) = Owed(n)
  BY <1>3, <1>4, KeepSound
<1>7. Sound(r, M) /\ Made(r) = Made(m) /\ Owed(r) = Owed(m)
  BY <1>1, <1>5, <1>6, AddSound DEF Makers
<1>8. /\ r.pane = m.pane /\ r.current = m.current /\ r.pending = m.pending
      /\ r.chats = m.chats /\ r.sending = m.sending /\ r.from = m.from
      /\ r.calls = m.calls \cup {c}
  BY <1>1, <1>4 DEF Add, Shape
<1>9. QED
  BY <1>3, <1>6, <1>7, <1>8

LEMMA SetPendingSound ==
    ASSUME NEW M, NEW n, Sound(n, M), NEW isManual \in BOOLEAN,
           NEW r, r = setPendingChat(n, isManual)
    PROVE  /\ Sound(r, M) /\ Made(r) = Made(n) + 1 /\ Owed(r) = Owed(n)
           /\ r.pane = n.pane /\ r.calls = n.calls /\ r.chats = n.chats + 1
           /\ r.pending = r.chats /\ r.promise = n.promise /\ r.manual \subseteq Nat
           /\ r.sending = n.sending /\ r.from = n.from /\ r.waits = n.waits
           /\ r.manual \in {n.manual, n.manual \cup {n.chats + 1}}
<1>1. n \in Shape
  BY DEF Sound
<1>2. /\ r.calls = n.calls /\ r.chats = n.chats + 1 /\ r.waits = n.waits
      /\ r.pending = n.chats + 1 /\ r.promise = n.promise /\ r.from = n.from
      /\ r.manual \in {n.manual, n.manual \cup {n.chats + 1}} /\ r.sending = n.sending
      /\ r.pane = n.pane
  BY <1>1 DEF setPendingChat, Shape
<1>3. r \in Shape
  <2> DEFINE chats == n.chats + 1
             manual == IF isManual THEN n.manual \cup {n.chats + 1} ELSE n.manual
  <2>1. chats \in Nat /\ manual \in SUBSET Nat
    BY <1>1 DEF Shape
  <2>2. r = [n EXCEPT !.pending = chats, !.chats = chats, !.manual = manual]
    BY <1>1 DEF setPendingChat, Shape
  <2> HIDE DEF chats, manual
  <2>3. QED
    BY ONLY <1>1, <2>1, <2>2 DEF Shape
<1>4. QED
  BY <1>1, <1>2, <1>3, NewChatSound DEF Shape

\* A new chat, unless an automatic one would replace the user's.
LEMMA CreateSound ==
    ASSUME NEW M, NEW n, Sound(n, M), NEW isManual \in BOOLEAN,
           NEW r, r = createDirectChat(n, isManual)
    PROVE  /\ Sound(r, M) /\ Made(r) <= Made(n) + 1 /\ Owed(r) = Owed(n)
           /\ r.pane \in {n.pane, None} /\ r.calls = n.calls
           /\ r.pending # 0 /\ r.sending = n.sending /\ r.from = n.from
           /\ n.chats <= r.chats
<1>1. n \in Shape /\ n.chats \in Nat
  BY DEF Sound, Shape
<1>2. CASE r = n /\ n.pending \in n.manual
  <2>1. n.pending # 0
    BY <1>1, <1>2 DEF Sound, Numbered
  <2>2. Made(n) \in Nat
    BY <1>1, MakingCounted DEF Made, Sound
  <2>3. QED
    BY <1>1, <1>2, <2>1, <2>2
<1>3. CASE r # n \/ n.pending \notin n.manual
  <2> DEFINE p == setPendingChat(n, isManual)
  <2>1. r = [p EXCEPT !.token = @ + 1, !.promise = 0, !.current = None, !.pane = None,
                      !.hash = None, !.last = None, !.saved = None, !.row = None,
                      !.skip = TRUE]
    BY <1>3 DEF createDirectChat
  <2>2. /\ p \in Shape /\ p.calls = n.calls /\ p.chats = n.chats + 1 /\ p.waits = n.waits
        /\ p.pending = p.chats /\ p.from = n.from
        /\ p.manual \in {n.manual, n.manual \cup {n.chats + 1}} /\ p.sending = n.sending
    BY SetPendingSound DEF Sound
  <2> HIDE DEF p
  <2>3. /\ r \in Shape /\ r.calls = n.calls /\ r.chats = n.chats + 1 /\ r.waits = n.waits
        /\ r.pending = n.chats + 1 /\ r.promise = 0 /\ r.from = n.from
        /\ r.manual \in {n.manual, n.manual \cup {n.chats + 1}} /\ r.sending = n.sending
        /\ r.pane = None
    <3>1. p.token + 1 \in Nat /\ 0 \in Nat
      BY <2>2 DEF Shape
    <3>2. r \in Shape
      BY ONLY <2>1, <2>2, <3>1, ZenonT(60) DEF Shape
    <3>3. /\ r.calls = p.calls /\ r.chats = p.chats /\ r.waits = p.waits
          /\ r.pending = p.pending /\ r.promise = 0 /\ r.from = p.from
          /\ r.manual = p.manual /\ r.sending = p.sending /\ r.pane = None
      BY ONLY <2>1, <2>2 DEF Shape
    <3>4. QED
      BY <2>2, <3>2, <3>3
  <2>4. Sound(r, M) /\ Made(r) = Made(n) + 1 /\ Owed(r) = Owed(n)
    BY <2>3, NewChatSound
  <2>5. Made(n) \in Nat
    BY <1>1, MakingCounted DEF Made, Sound
  <2>6. QED
    BY <1>1, <2>3, <2>4, <2>5
<1>4. QED
  BY <1>2, <1>3

\* The promise belongs to one deferred chat: an earlier caller's is kept, or one is made.
LEMMA MaterializeSound ==
    ASSUME NEW M, NEW n, Sound(n, M), NEW r, r = materializePendingSession(n)
    PROVE  /\ Sound(r, M) /\ Made(r) <= Made(n) + 1 /\ Owed(r) = Owed(n)
           /\ r.pane = n.pane /\ r.current = n.current /\ n.calls \subseteq r.calls
           /\ r.pending = n.pending /\ r.chats = n.chats /\ r.sending = n.sending
           /\ r.from = n.from /\ r.waits = n.waits
           /\ n.pending # 0 => r.promise # 0
<1>1. n \in Shape /\ n.chats \in Nat /\ n.pending \in Nat /\ IsFiniteSet(n.calls)
  BY DEF Sound, Shape
<1>2. CASE n.promise # 0 \/ n.pending = 0
  <2>1. r = n /\ Made(n) \in Nat
    BY <1>1, <1>2, MakingCounted DEF materializePendingSession, Made
  <2>2. QED
    BY <1>2, <2>1
<1>3. CASE n.promise = 0 /\ n.pending # 0
  <2> DEFINE c == [NewCall("mat") EXCEPT !.chat = n.pending]
             m == [n EXCEPT !.promise = n.pending]
  <2>1. c \in CallShape /\ c.kind = "mat" /\ c.chat = n.pending /\ c.phase = "sent"
    BY <1>1 DEF NewCall, CallShape
  <2>2. /\ m \in Shape /\ m.calls = n.calls /\ m.promise = n.pending
        /\ m.pane = n.pane /\ m.current = n.current /\ m.pending = n.pending
        /\ m.chats = n.chats /\ m.sending = n.sending /\ m.from = n.from
        /\ m.waits = n.waits /\ m.manual = n.manual
    BY <1>1 DEF Shape
  <2>3. r = Add(m, c)
    BY <1>3 DEF materializePendingSession
  <2> HIDE DEF c, m
  <2>4. /\ r \in Shape /\ r.calls = n.calls \cup {c} /\ r.promise = n.pending
        /\ r.pane = n.pane /\ r.current = n.current /\ r.pending = n.pending
        /\ r.chats = n.chats /\ r.sending = n.sending /\ r.from = n.from
        /\ r.waits = n.waits /\ r.manual = n.manual
    BY <2>1, <2>2, <2>3 DEF Add, Shape
  <2>5. Numbered(r)
    BY <1>1, <1>3, <2>1, <2>4 DEF Sound, Numbered
  <2>6. Creations(r, M)
    <3>1. \A d \in n.calls : d.kind = "mat" => d.chat # n.pending
      BY <1>3 DEF Sound, Creations
    <3>2. \A d, e \in r.calls : d.kind = "mat" /\ e.kind = "mat" /\ d.chat = e.chat => d = e
      BY <2>1, <2>4, <3>1 DEF Sound, Creations
    <3>3. \A d \in r.calls : d.kind = "mat" =>
            /\ d.chat # 0
            /\ d.chat = r.pending => r.promise = r.pending
            /\ d.phase = "served" => [chat |-> d.chat, id |-> d.id] \in M
      BY <1>3, <2>1, <2>4 DEF Sound, Creations
    <3>4. \E d \in r.calls : d.kind = "mat" /\ d.chat = r.promise
      BY <2>1, <2>4
    <3>5. QED
      BY <3>2, <3>3, <3>4 DEF Creations
  <2>7. Sending(r)
    BY <2>1, <2>4 DEF Sound, Sending
  <2>8. IsFiniteSet(r.calls) /\ Made(r) <= Made(n) + 1
    <3>1. IsFiniteSet(r.calls) /\ Cardinality(Making(r)) <= Cardinality(Making(n)) + 1
      BY <1>1, <2>4, CallAdded
    <3>2. Cardinality(Making(n)) \in Nat /\ Cardinality(Making(r)) \in Nat
      BY <1>1, <3>1, MakingCounted
    <3>3. QED
      BY <1>1, <2>4, <3>1, <3>2 DEF Made
  <2>9. QED
    BY <1>3, <2>4, <2>5, <2>6, <2>7, <2>8 DEF Sound, Owed
<1>4. QED
  BY <1>2, <1>3

\* What it asks for is a creation.
LEMMA MaterializeNew ==
    ASSUME NEW M, NEW n, Sound(n, M), NEW r, r = materializePendingSession(n)
    PROVE  \A c \in r.calls \ n.calls : c.kind = "mat"
<1> DEFINE c == [NewCall("mat") EXCEPT !.chat = n.pending]
           m == [n EXCEPT !.promise = n.pending]
<1>1. c.kind = "mat" /\ m.calls = n.calls /\ m \in Shape
  BY DEF NewCall, Sound, Shape
<1>2. r = n \/ r = Add(m, c)
  BY DEF materializePendingSession
<1> HIDE DEF c, m
<1>3. Add(m, c).calls = n.calls \cup {c}
  BY <1>1 DEF Add, Shape
<1>4. QED
  BY <1>1, <1>2, <1>3

\* A reload's token is free: there is one among as many and one more.
LEMMA LoadSound ==
    ASSUME NEW M, NEW n, Sound(n, M), NEW r, r = loadSessions(n)
    PROVE  /\ Sound(r, M) /\ Made(r) <= Made(n) + 1 /\ Owed(r) = Owed(n)
           /\ r.pane = n.pane /\ r.current = n.current /\ n.calls \subseteq r.calls
           /\ r.pending = n.pending /\ r.chats = n.chats /\ r.sending = n.sending
           /\ r.from = n.from /\ r.waits = n.waits /\ r.promise = n.promise
           /\ \A d \in r.calls \ n.calls : d.kind = "list"
<1> DEFINE lists == {d \in n.calls : d.kind = "list"}
           used == {c.token : c \in lists}
           free == CHOOSE t \in 0 .. Cardinality(used) : t \notin used
           c == [NewCall("list") EXCEPT !.token = free]
<1>1. n \in Shape /\ IsFiniteSet(n.calls)
  BY DEF Sound
<1>2. IsFiniteSet(used) /\ Cardinality(used) \in Nat
  <2> DEFINE token == [d \in lists |-> d.token]
  <2>1. IsFiniteSet(lists)
    BY <1>1, FS_Subset
  <2>2. /\ DOMAIN token = lists /\ \A d \in lists : token[d] \in used
        /\ \A u \in used : \E d \in lists : token[d] = u
        /\ token \in [lists -> used]
    OBVIOUS
  <2> HIDE DEF lists, token, used
  <2>3. token \in Surjection(lists, used)
    BY <2>2 DEF Surjection
  <2>4. IsFiniteSet(used)
    BY <2>1, <2>3, FS_Surjection
  <2>5. QED
    BY <2>4, FS_CardinalityType
<1>3. r = Add(n, c)
  BY DEF loadSessions
<1>4. free \in Nat
  <2> DEFINE some == 0 .. Cardinality(used)
  <2> HIDE DEF used
  <2>1. IsFiniteSet(some) /\ Cardinality(some) = Cardinality(used) + 1
    BY <1>2, FS_Interval
  <2>2. ~(some \subseteq used)
    BY <1>2, <2>1, FS_Subset
  <2>3. \E t \in some : t \notin used
    BY <2>2
  <2>4. free \in some
    BY <2>3
  <2>5. QED
    BY <1>2, <2>4
<1> HIDE DEF free, used
<1>5. c \in CallShape /\ c.kind = "list" /\ c.chat = 0
  BY <1>4 DEF NewCall, CallShape
<1> HIDE DEF c
<1>6. Sound(r, M) /\ Made(r) <= Made(n) + 1 /\ Owed(r) = Owed(n)
  BY <1>3, <1>5, AddSound
<1>7. /\ r.pane = n.pane /\ r.current = n.current /\ r.calls = n.calls \cup {c}
      /\ r.pending = n.pending /\ r.chats = n.chats /\ r.sending = n.sending
      /\ r.from = n.from /\ r.waits = n.waits /\ r.promise = n.promise
  BY <1>1, <1>3 DEF Add, Shape
<1>8. QED
  BY <1>5, <1>6, <1>7

\* The rest of handleChatSubmit pays for itself with what it was owed.
LEMMA SubmitSound ==
    ASSUME NEW M, NEW n, Sound(n, M), n.sending \in {"no", "adopt"},
           n.from \in Nat => n.from # 0 /\ n.pending = n.from,
           NEW r, r = Submit(n)
    PROVE  /\ Sound(r, M) /\ Made(r) + Owed(r) <= Made(n) + 2
           /\ r.pane = n.pane /\ r.current = n.current /\ n.calls \subseteq r.calls
           /\ r.pending = n.pending /\ r.chats = n.chats
           /\ r.sending = "no" => r.current # None /\ r.pending = 0
           /\ r.from = n.from
<1>1. n \in Shape /\ IsFiniteSet(n.calls) /\ Made(n) \in Nat
  BY MakingCounted DEF Sound, Made, Shape
<1>2. CASE n.pending # 0
  <2> DEFINE m == materializePendingSession(n)
  <2>1. r = [m EXCEPT !.sending = "mat", !.waits = m.promise]
    BY <1>2 DEF Submit
  <2>2. m = materializePendingSession(n)
    OBVIOUS
  <2> HIDE DEF m
  <2>3. /\ Sound(m, M) /\ Made(m) <= Made(n) + 1
        /\ m.pane = n.pane /\ m.current = n.current /\ n.calls \subseteq m.calls
        /\ m.pending = n.pending /\ m.chats = n.chats /\ m.sending = n.sending
        /\ m.from = n.from /\ m.promise # 0
    BY <1>2, <2>2, MaterializeSound
  <2>4. m \in Shape /\ m.chats \in Nat /\ m.promise \in Nat /\ Made(m) \in Nat
    BY <2>3, MakingCounted DEF Sound, Made, Shape
  <2>5. /\ r \in Shape /\ r.calls = m.calls /\ r.promise = m.promise
        /\ r.pane = m.pane /\ r.current = m.current /\ r.pending = m.pending
        /\ r.chats = m.chats /\ r.sending = "mat" /\ r.from = m.from
        /\ r.waits = m.promise /\ r.manual = m.manual
    <3>1. r \in Shape
      BY ONLY <2>1, <2>4 DEF Shape
    <3>2. QED
      BY <2>1, <2>4, <3>1 DEF Shape
  <2>6. Numbered(r)
    BY <2>3, <2>5 DEF Sound, Numbered
  <2>7. Creations(r, M)
    BY <2>3, <2>5 DEF Sound, Creations
  <2>8. Sending(r)
    <3>1. r.from \in Nat => r.from = m.chats /\ m.promise <= m.chats
      BY <1>2, <2>3, <2>5 DEF Sound, Numbered
    <3>2. \A c \in m.calls : c.kind \notin {"default", "catalog"}
      BY <2>3 DEF Sound, Sending
    <3>3. QED
      BY <2>3, <2>5, <3>1, <3>2 DEF Sending
  <2>9. Made(r) = Made(m) /\ Owed(r) = 0
    BY <2>5 DEF Made, Making, Owed
  <2>10. QED
    BY <1>1, <2>3, <2>4, <2>5, <2>6, <2>7, <2>8, <2>9 DEF Sound
<1>3. CASE n.pending = 0 /\ n.current = None
  <2> DEFINE c == NewCall("default")
             m == [n EXCEPT !.sending = "default"]
  <2>1. r = Add(m, c)
    BY <1>3 DEF Submit
  <2>2. /\ m \in Shape /\ m.calls = n.calls /\ m.promise = n.promise
        /\ m.pane = n.pane /\ m.current = n.current /\ m.pending = n.pending
        /\ m.chats = n.chats /\ m.sending = "default" /\ m.from = n.from
        /\ m.waits = n.waits /\ m.manual = n.manual
    BY <1>1 DEF Shape
  <2>3. c \in CallShape /\ c.kind = "default" /\ c.chat = 0
    BY CallTyped
  <2> HIDE DEF m, c
  <2>4. /\ r \in Shape /\ r.calls = n.calls \cup {c} /\ r.promise = n.promise
        /\ r.pane = n.pane /\ r.current = n.current /\ r.pending = n.pending
        /\ r.chats = n.chats /\ r.sending = "default" /\ r.from = n.from
        /\ r.waits = n.waits /\ r.manual = n.manual
    BY <2>1, <2>2, <2>3 DEF Add, Shape
  <2>5. Numbered(r)
    <3>1. n.chats \in Nat
      BY <1>1 DEF Shape
    <3>2. QED
      BY <2>3, <2>4, <3>1 DEF Sound, Numbered
  <2>6. Creations(r, M)
    BY <2>3, <2>4 DEF Sound, Creations
  <2>7. Sending(r)
    <3>1. r.from \notin Nat
      BY <1>3, <2>4
    <3>2. n.waits = 0
      BY DEF Sound, Sending
    <3>3. \A d \in n.calls : d.kind \notin {"default", "catalog"}
      BY DEF Sound, Sending
    <3>4. \A d \in r.calls : d.kind \in {"default", "catalog"} => d = NewCall("default")
      BY <2>4, <3>3 DEF c
    <3>5. c.kind = "default" /\ c = NewCall("default")
      BY <2>3 DEF c
    <3>6. QED
      BY <2>4, <3>1, <3>2, <3>4, <3>5 DEF Sending
  <2>8. IsFiniteSet(r.calls) /\ Made(r) = Made(n) /\ Owed(r) = 2
    BY <1>1, <2>3, <2>4, CallAdded DEF Made, Owed, Makers
  <2>9. QED
    BY <1>1, <2>4, <2>5, <2>6, <2>7, <2>8 DEF Sound
<1>4. CASE n.pending = 0 /\ n.current # None
  <2>1. r = [n EXCEPT !.sending = "no"]
    BY <1>4 DEF Submit
  <2>2. /\ r \in Shape /\ r.calls = n.calls /\ r.promise = n.promise
        /\ r.pane = n.pane /\ r.current = n.current /\ r.pending = n.pending
        /\ r.chats = n.chats /\ r.sending = "no" /\ r.from = n.from
        /\ r.waits = n.waits /\ r.manual = n.manual
    BY <1>1, <2>1 DEF Shape
  <2>3. Numbered(r) /\ Creations(r, M)
    BY <2>2 DEF Sound, Numbered, Creations
  <2>4. Sending(r)
    BY <2>2 DEF Sound, Sending
  <2>5. Made(r) = Made(n) /\ Owed(r) = 0
    BY <2>2 DEF Made, Making, Owed
  <2>6. QED
    BY <1>1, <1>4, <2>2, <2>3, <2>4, <2>5 DEF Sound
<1>5. QED
  BY <1>2, <1>3, <1>4

\* A select that ends, with the message that waits for it.
LEMMA EndedSound ==
    ASSUME NEW M, NEW n, Sound(n, M), NEW c, NEW r, r = Ended(n, c)
    PROVE  /\ Sound(r, M) /\ Made(r) + Owed(r) <= Made(n) + Owed(n)
           /\ r.pane = n.pane /\ r.current = n.current /\ n.calls \subseteq r.calls
           /\ r.pending = n.pending /\ r.chats = n.chats
           /\ r.from = n.from
           /\ n.sending # "no" /\ r.sending = "no" => r.current # None /\ r.from \notin Nat
<1>1. Made(n) + Owed(n) \in Nat
  BY MakingCounted DEF Sound, Made, Owed, Shape
<1>2. CASE c.adopt /\ n.sending = "adopt"
  <2>1. n.from \notin Nat
    BY <1>2 DEF Sound, Sending
  <2>2. r = Submit(n) /\ Owed(n) = 2
    BY <1>2 DEF Ended, Owed
  <2>3. /\ Sound(r, M) /\ Made(r) + Owed(r) <= Made(n) + 2
        /\ r.pane = n.pane /\ r.current = n.current /\ n.calls \subseteq r.calls
        /\ r.pending = n.pending /\ r.chats = n.chats
        /\ r.sending = "no" => r.current # None
        /\ r.from = n.from
    <3>1. n.sending \in {"no", "adopt"} /\ (n.from \in Nat => n.from # 0 /\ n.pending = n.from)
      BY <1>2, <2>1
    <3>2. QED
      BY <2>2, <3>1, SubmitSound
  <2>4. QED
    BY <2>1, <2>2, <2>3
<1>3. CASE ~(c.adopt /\ n.sending = "adopt")
  <2>1. r = n
    BY <1>3 DEF Ended
  <2>2. QED
    BY <1>1, <2>1
<1>4. QED
  BY <1>2, <1>3

\* A chat opened again for the message, which waits for it, or the rest at once.
LEMMA AdoptSound ==
    ASSUME NEW M, NEW n, Sound(n, M), n.sending = "no",
           n.from \in Nat => n.from # 0 /\ n.pending = n.from,
           NEW r, r = Adopt(n)
    PROVE  /\ Sound(r, M) /\ Made(r) + Owed(r) <= Made(n) + 2
           /\ r.pane = n.pane /\ n.calls \subseteq r.calls /\ r.chats = n.chats
           /\ r.sending = "no" => r.current # None /\ r.from \notin Nat
<1> DEFINE opened == IF n.row # None THEN n.row ELSE IF n.hash # None THEN n.hash ELSE n.last
           adopt == n.current = None /\ n.pending = 0 /\ opened # None
           yes == TRUE
           t == selectSession(n, opened, yes)
<1>1. n \in Shape /\ Made(n) \in Nat
  BY MakingCounted DEF Sound, Made, Shape
<1>2. opened \in Sessions \cup {None}
  BY <1>1 DEF Shape
<1>3. r = IF adopt THEN [t EXCEPT !.sending = "adopt"] ELSE Submit(n)
  BY DEF Adopt
<1>4. CASE adopt
  <2>1. r = [t EXCEPT !.sending = "adopt"] /\ opened \in Sessions /\ yes \in BOOLEAN
    BY <1>2, <1>3, <1>4
  <2>2. t = selectSession(n, opened, yes) /\ n.from \notin Nat
    BY <1>4
  <2> HIDE DEF yes, opened, adopt, t
  <2>3. /\ Sound(t, M) /\ Made(t) = Made(n)
        /\ t.pane = n.pane /\ t.pending = 0 /\ t.chats = n.chats
        /\ t.sending = n.sending /\ t.from = n.from /\ n.calls \subseteq t.calls
    BY <2>1, <2>2, SelectSound
  <2>4. t \in Shape
    BY <2>3 DEF Sound
  <2>5. /\ r \in Shape /\ r.pane = t.pane /\ r.calls = t.calls /\ r.chats = t.chats
        /\ r.manual = t.manual /\ r.waits = t.waits /\ r.from = t.from
        /\ r.sending = "adopt" /\ r.pending = t.pending /\ r.promise = t.promise
    BY <2>1, <2>4 DEF Shape
  <2>6. Numbered(r) /\ Creations(r, M)
    BY <2>3, <2>5 DEF Sound, Numbered, Creations
  <2>7. Sending(r)
    BY <2>2, <2>3, <2>5 DEF Sound, Sending
  <2>8. Made(r) = Made(t) /\ Owed(r) = 2
    BY <2>5 DEF Made, Making, Owed
  <2>9. Sound(r, M)
    BY <2>3, <2>5, <2>6, <2>7 DEF Sound
  <2>10. QED
    BY <1>1, <2>3, <2>5, <2>8, <2>9
<1>5. CASE ~adopt
  <2>1. r = Submit(n)
    BY <1>3, <1>5
  <2>2. QED
    BY <2>1, SubmitSound
<1>6. QED
  BY <1>4, <1>5

\* A message held back is no longer of the chat it was written in.
HeldFor(n, sending) == [Hold(n) EXCEPT !.sending = sending]

LEMMA HoldSound ==
    ASSUME NEW M, NEW n, Sound(n, M), n.sending = "no",
           NEW sending \in {"slash", "confirm"},
           NEW r, r = HeldFor(n, sending)
    PROVE  /\ Sound(r, M) /\ Made(r) = Made(n) /\ (sending = "confirm" => Owed(r) = 0)
           /\ r.pane = n.pane /\ r.calls = n.calls /\ r.chats = n.chats
           /\ r.current = n.current /\ r.sending = sending
           /\ \A c \in r.calls : c.kind \notin {"default", "catalog"}
<1>1. n \in Shape
  BY DEF Sound
<1>2. /\ r \in Shape /\ r.pane = n.pane /\ r.calls = n.calls /\ r.chats = n.chats
      /\ r.manual = n.manual /\ r.waits = n.waits /\ r.from = None /\ r.current = n.current
      /\ r.sending = sending /\ r.pending = n.pending /\ r.promise = n.promise
  <2>1. r = [n EXCEPT !.held = TRUE, !.from = None, !.sending = sending]
    BY <1>1 DEF HeldFor, Hold, Shape
  <2>2. r \in Shape
    BY <1>1, <2>1, ZenonT(60) DEF Shape
  <2>3. QED
    BY <1>1, <2>1, <2>2 DEF Shape
<1>3. Numbered(r) /\ Creations(r, M)
  BY <1>2, NoneIsNoChat DEF Sound, Numbered, Creations
<1>4. \A c \in r.calls : c.kind \notin {"default", "catalog"}
  BY <1>2 DEF Sound, Sending
<1>5. Sending(r)
  BY <1>2, <1>4, NoneIsNoChat DEF Sound, Sending
<1>6. QED
  BY <1>2, <1>3, <1>4, <1>5 DEF Sound, Made, Making, Owed

\* A message that has its chat: sent there, or held back until the user confirms it.
LEMMA ProceedSound ==
    ASSUME NEW M, NEW n, Sound(n, M), Proceed(n),
           n.sending = "no" => /\ n.current # None
                               /\ n.from \in Nat => [chat |-> n.from, id |-> n.current] \in M
    PROVE  /\ Sound(nav', M) /\ Made(nav') = Made(n) /\ Owed(nav') = Owed(n)
           /\ nav'.pane = n.pane /\ nav'.calls = n.calls /\ nav'.chats = n.chats
           /\ nav'.current = n.current
           /\ \A p \in posts' \ posts :
                 /\ p \in [from : Sessions \cup {None} \cup 0 .. nav'.chats, to : Sessions]
                 /\ p.from \in Chats => [chat |-> p.from, id |-> p.to] \in M
<1>1. CASE n.sending # "no"
  BY <1>1 DEF Proceed
<1>2. CASE n.sending = "no" /\ nav' = Release(n)
  <2>1. \A c \in n.calls : c.kind \notin {"default", "catalog"}
    BY <1>2 DEF Sound, Sending
  <2>2. /\ Sound(nav', M) /\ Owed(nav') = 0 /\ Made(nav') = Made(n)
        /\ nav'.pane = n.pane /\ nav'.calls = n.calls /\ nav'.chats = n.chats
        /\ nav'.current = n.current
    BY <1>2, <2>1, ReleaseSound
  <2>3. \A p \in posts' \ posts : p = [from |-> n.from, to |-> n.current]
    BY <1>2 DEF Proceed, Hold, Release
  <2>4. n.current \in Sessions /\ n.from \in Sessions \cup {None} \cup 0 .. nav'.chats
    BY <1>2, <2>2 DEF Sound, Numbered, Shape
  <2>5. n.from \in Chats => [chat |-> n.from, id |-> n.current] \in M
    BY <1>2, NavAssumption DEF Chats
  <2>6. Owed(n) = 0
    BY <1>2 DEF Owed
  <2>7. QED
    BY <2>2, <2>3, <2>4, <2>5, <2>6
<1>3. CASE /\ n.sending = "no" /\ nav' = [Hold(n) EXCEPT !.sending = "confirm"]
           /\ UNCHANGED posts
  <2> DEFINE sending == "confirm"
  <2>1. nav' = HeldFor(n, sending) /\ sending \in {"slash", "confirm"}
    BY <1>3 DEF HeldFor
  <2>2. sending = "confirm" /\ Owed(n) = 0 /\ n.sending = "no"
    BY <1>3 DEF Owed
  <2> HIDE DEF sending
  <2>3. /\ Sound(nav', M) /\ Owed(nav') = 0 /\ Made(nav') = Made(n)
        /\ nav'.pane = n.pane /\ nav'.calls = n.calls /\ nav'.chats = n.chats
        /\ nav'.current = n.current
    BY <2>1, <2>2, HoldSound
  <2>4. QED
    BY <1>3, <2>2, <2>3
<1>4. QED
  BY <1>1, <1>2, <1>3 DEF Proceed

-----------------------------------------------------------------------------
(* Steps: what a sound record after the step gives.                        *)

\* A pane that changes to a chat changes to the chat that is open.
Painted == nav'.pane # nav.pane /\ nav'.pane \in Sessions => nav'.pane = nav'.current

\* No list of chats that has arrived is taken in.
NoListTaken == \A c \in nav.calls \ nav'.calls : ~(c.kind = "list" /\ c.phase = "served")

LEMMA StepSound ==
    ASSUME NavInv, Sound(nav', made'), nav.chats <= nav'.chats,
           Made(nav') + Owed(nav') <= 2 * inputs' + 1,
           inputs' \in Nat, inputs' <= MaxInputs, exists' \subseteq Sessions,
           made \subseteq made', made' \subseteq [chat : 0 .. nav'.chats, id : Fresh],
           \A p \in posts' \ posts :
              /\ p \in [from : Sessions \cup {None} \cup 0 .. nav'.chats, to : Sessions]
              /\ p.from \in Chats => [chat |-> p.from, id |-> p.to] \in made'
    PROVE  NavInv'
<1>1. nav.chats \in Nat /\ nav'.chats \in Nat
  BY DEF NavInv, Sound, Shape
<1>2. posts' \subseteq [from : Sessions \cup {None} \cup 0 .. nav'.chats, to : Sessions]
  <2>1. 0 .. nav.chats \subseteq 0 .. nav'.chats
    BY <1>1
  <2>2. posts \subseteq [from : Sessions \cup {None} \cup 0 .. nav'.chats, to : Sessions]
    <3> DEFINE older == 0 .. nav.chats
               now == 0 .. nav'.chats
    <3>1. posts \subseteq [from : Sessions \cup {None} \cup older, to : Sessions]
      BY DEF NavInv
    <3>2. older \subseteq now
      BY <2>1
    <3> HIDE DEF older, now
    <3>3. posts \subseteq [from : Sessions \cup {None} \cup now, to : Sessions]
      BY <3>1, <3>2
    <3>4. QED
      BY <3>3 DEF now
  <2>3. QED
    BY <2>2
<1>3. SentToItsChat'
  BY DEF NavInv, SentToItsChat, Chats
<1>4. QED
  BY <1>2, <1>3 DEF NavInv

\* An input of the user buys two new chats.
LEMMA PostedInput ==
    ASSUME NavInv, Input, Server, Sound(nav', made),
           Made(nav') + Owed(nav') <= Made(nav) + Owed(nav) + 2, nav.chats <= nav'.chats,
           \A p \in posts' \ posts :
              /\ p \in [from : Sessions \cup {None} \cup 0 .. nav'.chats, to : Sessions]
              /\ p.from \in Chats => [chat |-> p.from, id |-> p.to] \in made
    PROVE  NavInv'
<1>1. /\ inputs \in Nat /\ inputs' = inputs + 1 /\ inputs' <= MaxInputs /\ MaxInputs \in Nat
      /\ made' = made /\ exists' = exists
  BY NavAssumption DEF NavInv, Input, Server
<1>2. nav.chats \in Nat /\ nav'.chats \in Nat
  BY DEF NavInv, Sound, Shape
<1>3. Made(nav) + Owed(nav) \in Nat /\ Made(nav') + Owed(nav') \in Nat
  BY <1>2, MakingCounted DEF NavInv, Sound, Made, Owed
<1>4. Made(nav') + Owed(nav') <= 2 * inputs' + 1
  BY <1>1, <1>3 DEF NavInv
<1>5. made' \subseteq [chat : 0 .. nav'.chats, id : Fresh]
  <2> DEFINE older == 0 .. nav.chats
             now == 0 .. nav'.chats
  <2>1. older \subseteq now /\ made \subseteq [chat : older, id : Fresh]
    BY <1>2 DEF NavInv
  <2> HIDE DEF older, now
  <2>2. made \subseteq [chat : now, id : Fresh]
    BY <2>1
  <2>3. QED
    BY <1>1, <2>2 DEF now
<1>6. QED
  BY <1>1, <1>4, <1>5, StepSound DEF NavInv

LEMMA InputStep ==
    ASSUME NavInv, Input, Server, UNCHANGED posts, Sound(nav', made),
           Made(nav') + Owed(nav') <= Made(nav) + Owed(nav) + 2, nav.chats <= nav'.chats
    PROVE  NavInv'
<1>1. posts' \ posts = {}
  OBVIOUS
<1>2. QED
  BY <1>1, PostedInput

\* An answer has been paid for by the call that it ends.
LEMMA AnswerStep ==
    ASSUME NavInv, UNCHANGED <<made, inputs>>, exists' \subseteq Sessions, Sound(nav', made),
           Made(nav') + Owed(nav') <= Made(nav) + Owed(nav), nav.chats <= nav'.chats,
           \A p \in posts' \ posts :
              /\ p \in [from : Sessions \cup {None} \cup 0 .. nav'.chats, to : Sessions]
              /\ p.from \in Chats => [chat |-> p.from, id |-> p.to] \in made
    PROVE  NavInv'
<1>1. inputs \in Nat /\ inputs' = inputs /\ inputs <= MaxInputs /\ made' = made
  BY DEF NavInv
<1>2. nav.chats \in Nat /\ nav'.chats \in Nat
  BY DEF NavInv, Sound, Shape
<1>3. Made(nav) + Owed(nav) \in Nat /\ Made(nav') + Owed(nav') \in Nat
  BY <1>2, MakingCounted DEF NavInv, Sound, Made, Owed
<1>4. Made(nav') + Owed(nav') <= 2 * inputs' + 1
  BY <1>1, <1>3 DEF NavInv
<1>5. made' \subseteq [chat : 0 .. nav'.chats, id : Fresh]
  <2> DEFINE older == 0 .. nav.chats
             now == 0 .. nav'.chats
  <2>1. older \subseteq now /\ made \subseteq [chat : older, id : Fresh]
    BY <1>2 DEF NavInv
  <2> HIDE DEF older, now
  <2>2. made \subseteq [chat : now, id : Fresh]
    BY <2>1
  <2>3. QED
    BY <1>1, <2>2 DEF now
<1>6. QED
  BY <1>1, <1>4, <1>5, StepSound

\* An answer that sends nothing.
LEMMA SilentStep ==
    ASSUME NavInv, Server, UNCHANGED <<posts, inputs>>, Sound(nav', made),
           Made(nav') + Owed(nav') <= Made(nav) + Owed(nav), nav.chats <= nav'.chats
    PROVE  NavInv'
<1>1. posts' = posts /\ made' = made /\ exists' = exists /\ exists \subseteq Sessions
  BY DEF NavInv, Server
<1>2. QED
  BY <1>1, AnswerStep

-----------------------------------------------------------------------------
(* The user.                                                               *)

\* What every lemma about a step starts from.
LEMMA NavSound ==
    ASSUME NavInv
    PROVE  /\ Sound(nav, made) /\ nav \in Shape /\ nav.chats \in Nat /\ IsFiniteSet(nav.calls)
           /\ Made(nav) \in Nat /\ Owed(nav) \in Nat /\ Made(nav) + Owed(nav) \in Nat
           /\ \A c \in nav.calls : c \in CallShape
           /\ None \notin Sessions /\ Loading \notin Sessions /\ Failed \notin Sessions
           /\ exists \subseteq Sessions
<1>1. Sound(nav, made) /\ nav \in Shape /\ nav.chats \in Nat /\ IsFiniteSet(nav.calls)
  BY DEF NavInv, Sound, Shape
<1>2. Made(nav) \in Nat /\ Owed(nav) \in Nat
  BY <1>1, MakingCounted DEF Made, Owed
<1>3. Made(nav) + Owed(nav) \in Nat
  BY <1>2
<1>4. \A c \in nav.calls : c \in CallShape
  BY <1>1 DEF Shape
<1>5. QED
  BY <1>1, <1>2, <1>3, <1>4, NavAssumption DEF NavInv

\* Counting, once the record after the step is known to be sound.
LEMMA MadeCounted ==
    ASSUME NEW M, NEW n, Sound(n, M)
    PROVE  Made(n) \in Nat /\ Owed(n) \in Nat /\ n.chats \in Nat
BY MakingCounted DEF Sound, Made, Owed, Shape

LEMMA SelectStep ==
    ASSUME NavInv, NEW id \in Sessions, Select(id)
    PROVE  NavInv' /\ Painted /\ NoListTaken
<1> DEFINE adopt == FALSE
<1>1. nav' = selectSession(nav, id, adopt) /\ Sound(nav, made) /\ adopt \in BOOLEAN
  BY NavSound DEF Select
<1> HIDE DEF adopt
<1>2. /\ Sound(nav', made) /\ Made(nav') = Made(nav) /\ Owed(nav') = Owed(nav)
      /\ nav'.pane = nav.pane /\ nav'.chats = nav.chats /\ nav.calls \subseteq nav'.calls
  BY <1>1, SelectSound
<1>3. Made(nav') + Owed(nav') <= Made(nav) + Owed(nav) + 2 /\ nav.chats <= nav'.chats
  BY <1>2, NavSound
<1>4. NavInv'
  BY <1>2, <1>3, InputStep DEF Select
<1>5. QED
  BY <1>2, <1>4 DEF Painted, NoListTaken

LEMMA NewChatStep ==
    ASSUME NavInv, NewChat
    PROVE  NavInv' /\ Painted /\ NoListTaken
<1>1. nav' = createDirectChat(nav, TRUE) /\ Sound(nav, made)
  BY NavSound DEF NewChat
<1>2. /\ Sound(nav', made) /\ Made(nav') <= Made(nav) + 1 /\ Owed(nav') = Owed(nav)
      /\ nav'.pane \in {nav.pane, None} /\ nav.chats <= nav'.chats /\ nav'.calls = nav.calls
  BY <1>1, CreateSound, ZenonT(60)
<1>3. Made(nav') + Owed(nav') <= Made(nav) + Owed(nav) + 2
  BY <1>2, NavSound, MadeCounted
<1>4. NavInv'
  BY <1>2, <1>3, InputStep DEF NewChat
<1>5. QED
  BY <1>2, <1>4, NavSound DEF Painted, NoListTaken

LEMMA PickModelStep ==
    ASSUME NavInv, PickModel
    PROVE  NavInv' /\ Painted /\ NoListTaken
<1> DEFINE manual == TRUE
           m == setPendingChat(nav, manual)
<1>1. nav' = [m EXCEPT !.picking = IF @ = "valid" THEN "stale" ELSE @]
  BY DEF PickModel
<1>2. m = setPendingChat(nav, manual) /\ Sound(nav, made) /\ manual \in BOOLEAN
  BY NavSound
<1> HIDE DEF m, manual
<1>3. /\ Sound(m, made) /\ Made(m) = Made(nav) + 1 /\ Owed(m) = Owed(nav)
      /\ m.pane = nav.pane /\ m.calls = nav.calls /\ m.chats = nav.chats + 1
  BY <1>2, SetPendingSound
<1>4. m \in Shape
  BY <1>3 DEF Sound
<1>5. /\ nav'.pane = m.pane /\ nav'.calls = m.calls /\ nav'.chats = m.chats
      /\ nav'.manual = m.manual /\ nav'.waits = m.waits /\ nav'.from = m.from
      /\ nav'.sending = m.sending /\ nav'.pending = m.pending /\ nav'.promise = m.promise
  BY <1>1, <1>4 DEF Shape
<1>6. nav' \in Shape
  BY <1>1, <1>4 DEF Shape
<1>7. Sound(nav', made) /\ Made(nav') = Made(m) /\ Owed(nav') = Owed(m)
  BY <1>3, <1>5, <1>6, KeepSound
<1>8. Made(nav') + Owed(nav') <= Made(nav) + Owed(nav) + 2 /\ nav.chats <= nav'.chats
  BY <1>3, <1>5, <1>7, NavSound
<1>9. NavInv'
  BY <1>7, <1>8, InputStep DEF PickModel
<1>10. QED
  BY <1>3, <1>5, <1>9 DEF Painted, NoListTaken

LEMMA FreshChatStep ==
    ASSUME NavInv, FreshChat
    PROVE  NavInv' /\ Painted /\ NoListTaken
<1>1. nav' = [nav EXCEPT !.token = @ + 1, !.current = None, !.hash = None, !.last = None,
                         !.saved = None, !.row = None, !.pane = None]
  BY DEF FreshChat
<1>2. nav \in Shape /\ Sound(nav, made)
  BY NavSound
<1>3. /\ nav'.pane = None /\ nav'.calls = nav.calls /\ nav'.chats = nav.chats
      /\ nav'.manual = nav.manual /\ nav'.waits = nav.waits /\ nav'.from = nav.from
      /\ nav'.sending = nav.sending /\ nav'.pending = nav.pending
      /\ nav'.promise = nav.promise
  BY <1>1, <1>2 DEF Shape
<1>4. nav' \in Shape
  <2>1. nav.token + 1 \in Nat
    BY <1>2 DEF Shape
  <2>2. QED
    BY <1>1, <1>2, <2>1 DEF Shape
<1>5. Sound(nav', made) /\ Made(nav') = Made(nav) /\ Owed(nav') = Owed(nav)
  BY <1>2, <1>3, <1>4, KeepSound
<1>6. Made(nav') + Owed(nav') <= Made(nav) + Owed(nav) + 2 /\ nav.chats <= nav'.chats
  BY <1>3, <1>5, NavSound
<1>7. NavInv'
  BY <1>5, <1>6, InputStep DEF FreshChat
<1>8. QED
  BY <1>3, <1>7, NavSound DEF Painted, NoListTaken

LEMMA DeleteStep ==
    ASSUME NavInv, NEW id \in Sessions, Delete(id)
    PROVE  NavInv' /\ Painted /\ NoListTaken
<1> DEFINE c == [NewCall("delete") EXCEPT !.id = id]
           m == [nav EXCEPT !.listed = @ \ {id}, !.skip = TRUE,
                            !.row = IF @ = id THEN None ELSE @]
           n == Add(m, c)
<1>1. nav' = IF nav.current = id
             THEN [n EXCEPT !.current = None, !.pane = None, !.hash = None, !.saved = None]
             ELSE n
  BY DEF Delete
<1>2. nav \in Shape /\ Sound(nav, made)
  BY NavSound
<1>3. /\ m.pane = nav.pane /\ m.calls = nav.calls /\ m.chats = nav.chats
      /\ m.manual = nav.manual /\ m.waits = nav.waits /\ m.from = nav.from
      /\ m.sending = nav.sending /\ m.pending = nav.pending /\ m.promise = nav.promise
  BY <1>2 DEF Shape
<1>4. m \in Shape
  <2> DEFINE listed == nav.listed \ {id}
             row == IF nav.row = id THEN None ELSE nav.row
  <2>1. listed \in SUBSET Sessions /\ row \in Sessions \cup {None}
    BY <1>2 DEF Shape
  <2>2. m = [nav EXCEPT !.listed = listed, !.skip = TRUE, !.row = row]
    OBVIOUS
  <2> HIDE DEF listed, row, m
  <2>3. QED
    BY ONLY <1>2, <2>1, <2>2 DEF Shape
<1>5. c \in CallShape /\ c.kind = "delete" /\ c.chat = 0
  BY DEF NewCall, CallShape
<1> HIDE DEF c, m
<1>6. Sound(m, made) /\ Made(m) = Made(nav) /\ Owed(m) = Owed(nav)
  BY <1>2, <1>3, <1>4, KeepSound
<1>7. Sound(n, made) /\ Made(n) <= Made(m) + 1 /\ Owed(n) = Owed(m)
  BY <1>5, <1>6, AddSound
<1>8. /\ n.pane = m.pane /\ n.calls = m.calls \cup {c} /\ n.chats = m.chats
      /\ n.manual = m.manual /\ n.waits = m.waits /\ n.from = m.from
      /\ n.sending = m.sending /\ n.pending = m.pending /\ n.promise = m.promise
  BY <1>4 DEF Add, Shape
<1>9. n \in Shape
  BY <1>7 DEF Sound
<1> HIDE DEF n
<1>10. /\ nav'.pane \in {n.pane, None} /\ nav'.calls = n.calls /\ nav'.chats = n.chats
       /\ nav'.manual = n.manual /\ nav'.waits = n.waits /\ nav'.from = n.from
       /\ nav'.sending = n.sending /\ nav'.pending = n.pending /\ nav'.promise = n.promise
  BY <1>1, <1>9 DEF Shape
<1>11. nav' \in Shape
  <2>1. [n EXCEPT !.current = None, !.pane = None, !.hash = None, !.saved = None] \in Shape
    BY <1>9 DEF Shape
  <2>2. QED
    BY <1>1, <1>9, <2>1
<1>12. Sound(nav', made) /\ Made(nav') = Made(n) /\ Owed(nav') = Owed(n)
  BY <1>7, <1>10, <1>11, KeepSound
<1>13. Made(nav') + Owed(nav') <= Made(nav) + Owed(nav) + 2 /\ nav.chats <= nav'.chats
  BY <1>3, <1>6, <1>7, <1>8, <1>10, <1>12, NavSound, MadeCounted
<1>14. NavInv'
  BY <1>12, <1>13, InputStep DEF Delete
<1>15. QED
  BY <1>3, <1>8, <1>10, <1>14, NavSound DEF Painted, NoListTaken

LEMMA PeekStep ==
    ASSUME NavInv, NEW id \in Sessions, PeekArchived(id)
    PROVE  NavInv' /\ Painted /\ NoListTaken
<1> DEFINE c == [NewCall("peek") EXCEPT !.id = id]
<1>1. nav' = Add(nav, c) /\ nav \in Shape /\ Sound(nav, made)
  BY NavSound DEF PeekArchived
<1>2. c \in CallShape /\ c.kind = "peek" /\ c.chat = 0
  BY DEF NewCall, CallShape
<1> HIDE DEF c
<1>3. Sound(nav', made) /\ Made(nav') <= Made(nav) + 1 /\ Owed(nav') = Owed(nav)
  BY <1>1, <1>2, AddSound
<1>4. nav'.pane = nav.pane /\ nav'.chats = nav.chats /\ nav'.calls = nav.calls \cup {c}
  BY <1>1 DEF Add, Shape
<1>5. Made(nav') + Owed(nav') <= Made(nav) + Owed(nav) + 2 /\ nav.chats <= nav'.chats
  BY <1>3, <1>4, NavSound, MadeCounted
<1>6. NavInv'
  BY <1>3, <1>5, InputStep DEF PeekArchived
<1>7. QED
  BY <1>4, <1>6 DEF Painted, NoListTaken

LEMMA PreMaterializeStep ==
    ASSUME NavInv, PreMaterialize
    PROVE  NavInv' /\ Painted /\ NoListTaken
<1>1. nav' = materializePendingSession(nav) /\ Sound(nav, made)
  BY NavSound DEF PreMaterialize
<1>2. /\ Sound(nav', made) /\ Made(nav') <= Made(nav) + 1 /\ Owed(nav') = Owed(nav)
      /\ nav'.pane = nav.pane /\ nav'.chats = nav.chats /\ nav.calls \subseteq nav'.calls
  BY <1>1, MaterializeSound
<1>3. Made(nav') + Owed(nav') <= Made(nav) + Owed(nav) + 2 /\ nav.chats <= nav'.chats
  BY <1>2, NavSound, MadeCounted
<1>4. NavInv'
  BY <1>2, <1>3, InputStep DEF PreMaterialize
<1>5. QED
  BY <1>2, <1>4 DEF Painted, NoListTaken

LEMMA ReloadStep ==
    ASSUME NavInv, Reload
    PROVE  NavInv' /\ Painted /\ NoListTaken
<1>1. nav' = loadSessions(nav) /\ Sound(nav, made)
  BY NavSound DEF Reload
<1>2. /\ Sound(nav', made) /\ Made(nav') <= Made(nav) + 1 /\ Owed(nav') = Owed(nav)
      /\ nav'.pane = nav.pane /\ nav'.chats = nav.chats /\ nav.calls \subseteq nav'.calls
  BY <1>1, LoadSound
<1>3. Made(nav') + Owed(nav') <= Made(nav) + Owed(nav) + 2 /\ nav.chats <= nav'.chats
  BY <1>2, NavSound, MadeCounted
<1>4. NavInv'
  BY <1>2, <1>3, InputStep DEF Reload
<1>5. QED
  BY <1>2, <1>4 DEF Painted, NoListTaken

LEMMA StartPickStep ==
    ASSUME NavInv, StartPick
    PROVE  NavInv' /\ Painted /\ NoListTaken
<1> DEFINE c == NewCall("pick")
           m == [nav EXCEPT !.picking = "valid"]
<1>1. nav' = Add(m, c)
  BY DEF StartPick
<1>2. nav \in Shape /\ Sound(nav, made)
  BY NavSound
<1>3. /\ m \in Shape /\ m.pane = nav.pane /\ m.calls = nav.calls /\ m.chats = nav.chats
      /\ m.manual = nav.manual /\ m.waits = nav.waits /\ m.from = nav.from
      /\ m.sending = nav.sending /\ m.pending = nav.pending /\ m.promise = nav.promise
  BY <1>2 DEF Shape
<1>4. c \in CallShape /\ c.kind = "pick" /\ c.chat = 0
  BY CallTyped DEF Makers
<1> HIDE DEF c, m
<1>5. Sound(m, made) /\ Made(m) = Made(nav) /\ Owed(m) = Owed(nav)
  BY <1>2, <1>3, KeepSound
<1>6. Sound(nav', made) /\ Made(nav') <= Made(m) + 1 /\ Owed(nav') = Owed(m)
  BY <1>1, <1>4, <1>5, AddSound
<1>7. nav'.pane = m.pane /\ nav'.calls = m.calls \cup {c} /\ nav'.chats = m.chats
  BY <1>1, <1>3 DEF Add, Shape
<1>8. Made(nav') + Owed(nav') <= Made(nav) + Owed(nav) + 2 /\ nav.chats <= nav'.chats
  BY <1>3, <1>5, <1>6, <1>7, NavSound, MadeCounted
<1>9. NavInv'
  BY <1>6, <1>8, InputStep DEF StartPick
<1>10. QED
  BY <1>3, <1>7, <1>9 DEF Painted, NoListTaken

\* The message is read where it is written: in the open chat, else in the deferred one.
LEMMA WrittenSound ==
    ASSUME NavInv, nav.sending = "no", NEW n, n = [nav EXCEPT !.from = Here]
    PROVE  /\ Sound(n, made) /\ Made(n) = Made(nav) /\ Owed(nav) = 0
           /\ n.pane = nav.pane /\ n.calls = nav.calls /\ n.chats = nav.chats
           /\ n.pending = nav.pending /\ n.current = nav.current /\ n.from = Here
           /\ n.sending = "no"
           /\ n.from \in Nat => n.from # 0 /\ n.pending = n.from
<1>1. nav \in Shape /\ Sound(nav, made) /\ nav.chats \in Nat
  BY NavSound
<1>2. /\ Here \in Sessions \cup {None} \cup Nat
      /\ Here \in Nat => Here # 0 /\ Here = nav.pending
  BY <1>1, NoneIsNoChat DEF Here, Shape
<1>3. /\ n \in Shape /\ n.pane = nav.pane /\ n.calls = nav.calls /\ n.chats = nav.chats
      /\ n.manual = nav.manual /\ n.waits = nav.waits /\ n.from = Here
      /\ n.sending = nav.sending /\ n.pending = nav.pending /\ n.promise = nav.promise
      /\ n.current = nav.current
  BY <1>1, <1>2 DEF Shape
<1>4. Numbered(n)
  BY <1>1, <1>2, <1>3 DEF Sound, Numbered
<1>5. Creations(n, made)
  BY <1>1, <1>3 DEF Sound, Creations
<1>6. Sending(n)
  BY <1>1, <1>3 DEF Sound, Sending
<1>7. QED
  BY <1>1, <1>2, <1>3, <1>4, <1>5, <1>6 DEF Sound, Made, Making, Owed

LEMMA PressStep ==
    ASSUME NavInv, Press
    PROVE  NavInv' /\ Painted /\ NoListTaken
<1> DEFINE n == [nav EXCEPT !.from = Here]
           m == Adopt(n)
           h == [Hold(n) EXCEPT !.sending = "slash"]
           c == NewCall("catalog")
<1>1. /\ Input /\ nav.sending = "no" /\ Server /\ n = [nav EXCEPT !.from = Here]
      /\ Proceed(m) \/ (nav' = Add(h, c) /\ UNCHANGED posts)
  BY DEF Press
<1> HIDE DEF n
<1>2. /\ Sound(n, made) /\ Made(n) = Made(nav) /\ Owed(nav) = 0
      /\ n.pane = nav.pane /\ n.calls = nav.calls /\ n.chats = nav.chats
      /\ n.sending = "no"
      /\ n.from \in Nat => n.from # 0 /\ n.pending = n.from
  BY <1>1, WrittenSound
<1>3. CASE Proceed(m)
  <2>1. m = Adopt(n)
    OBVIOUS
  <2> HIDE DEF m
  <2>2. /\ Sound(m, made) /\ Made(m) + Owed(m) <= Made(n) + 2
        /\ m.pane = n.pane /\ n.calls \subseteq m.calls /\ m.chats = n.chats
        /\ m.sending = "no" => m.current # None /\ m.from \notin Nat
    BY <1>2, <2>1, AdoptSound
  <2>3. /\ Sound(nav', made) /\ Made(nav') = Made(m) /\ Owed(nav') = Owed(m)
        /\ nav'.pane = m.pane /\ nav'.calls = m.calls /\ nav'.chats = m.chats
        /\ \A p \in posts' \ posts :
              /\ p \in [from : Sessions \cup {None} \cup 0 .. nav'.chats, to : Sessions]
              /\ p.from \in Chats => [chat |-> p.from, id |-> p.to] \in made
    BY <1>3, <2>2, ProceedSound
  <2>4. Made(nav') + Owed(nav') <= Made(nav) + Owed(nav) + 2 /\ nav.chats <= nav'.chats
    BY <1>2, <2>2, <2>3, NavSound, MadeCounted
  <2>5. NavInv'
    BY <1>1, <2>3, <2>4, PostedInput
  <2>6. QED
    BY <1>2, <2>2, <2>3, <2>5 DEF Painted, NoListTaken
<1>4. CASE nav' = Add(h, c) /\ UNCHANGED posts
  <2> DEFINE slash == "slash"
  <2>1. h = HeldFor(n, slash) /\ slash \in {"slash", "confirm"} /\ slash = "slash"
    BY DEF HeldFor
  <2>2. c \in CallShape /\ c.kind = "catalog" /\ c.chat = 0
    BY CallTyped
  <2> HIDE DEF h, slash, c
  <2>3. /\ Sound(h, made) /\ Made(h) = Made(n) /\ h.sending = "slash"
        /\ h.pane = n.pane /\ h.calls = n.calls /\ h.chats = n.chats
        /\ \A e \in h.calls : e.kind \notin {"default", "catalog"}
    BY <1>2, <2>1, HoldSound
  <2>4. h \in Shape /\ IsFiniteSet(h.calls) /\ h.chats \in Nat
    BY <2>3 DEF Sound, Shape
  <2>5. /\ nav' \in Shape /\ nav'.calls = h.calls \cup {c} /\ nav'.promise = h.promise
        /\ nav'.pane = h.pane /\ nav'.pending = h.pending
        /\ nav'.chats = h.chats /\ nav'.sending = h.sending /\ nav'.from = h.from
        /\ nav'.waits = h.waits /\ nav'.manual = h.manual
    BY <1>4, <2>2, <2>4 DEF Add, Shape
  <2>6. Numbered(nav') /\ Creations(nav', made)
    <3>1. Numbered(nav')
      BY <2>2, <2>3, <2>4, <2>5 DEF Sound, Numbered
    <3>2. Creations(nav', made)
      BY <2>2, <2>3, <2>5 DEF Sound, Creations
    <3>3. QED
      BY <3>1, <3>2
  <2>7. Sending(nav')
    <3>1. h.waits = 0 /\ h.from \notin Nat
      BY <2>3 DEF Sound, Sending
    <3>2. QED
      BY <2>2, <2>3, <2>5, <3>1 DEF Sending, c
  <2>8. IsFiniteSet(nav'.calls) /\ Made(nav') = Made(h) /\ Owed(nav') = 2
    BY <2>2, <2>3, <2>4, <2>5, CallAdded DEF Made, Owed, Makers
  <2>9. Sound(nav', made)
    BY <2>5, <2>6, <2>7, <2>8 DEF Sound
  <2>10. Made(nav') + Owed(nav') <= Made(nav) + Owed(nav) + 2 /\ nav.chats <= nav'.chats
    BY <1>2, <2>3, <2>5, <2>8, NavSound, MadeCounted
  <2>11. NavInv'
    BY <1>1, <1>4, <2>9, <2>10, InputStep
  <2>12. QED
    BY <1>2, <2>3, <2>5, <2>11 DEF Painted, NoListTaken
<1>5. QED
  BY <1>1, <1>3, <1>4

\* What the user confirms or takes back was held back, and counts as sent nowhere.
LEMMA ConfirmStep ==
    ASSUME NavInv, Confirm
    PROVE  NavInv' /\ Painted /\ NoListTaken
<1>1. nav.sending = "confirm" /\ nav' = Release(nav) /\ Server /\ UNCHANGED <<posts, inputs>>
  BY DEF Confirm
<1>2. Sound(nav, made) /\ \A c \in nav.calls : c.kind \notin {"default", "catalog"}
  BY <1>1, NavSound DEF Sound, Sending
<1>3. /\ Sound(nav', made) /\ Owed(nav') = 0 /\ Made(nav') = Made(nav)
      /\ nav'.pane = nav.pane /\ nav'.calls = nav.calls /\ nav'.chats = nav.chats
  BY <1>1, <1>2, ReleaseSound
<1>4. Made(nav') + Owed(nav') <= Made(nav) + Owed(nav) /\ nav.chats <= nav'.chats
  BY <1>3, NavSound
<1>5. NavInv'
  BY <1>1, <1>3, <1>4, SilentStep
<1>6. QED
  BY <1>3, <1>5 DEF Painted, NoListTaken

LEMMA UserStep ==
    ASSUME NavInv, User
    PROVE  NavInv' /\ Painted /\ NoListTaken
BY SelectStep, NewChatStep, PickModelStep, FreshChatStep, DeleteStep, PeekStep,
   PreMaterializeStep, ReloadStep, StartPickStep, PressStep, ConfirmStep DEF User

-----------------------------------------------------------------------------
(* Answers.                                                                *)

\* A call that ends, other than a creation.
LEMMA DoneSound ==
    ASSUME NavInv, NEW c \in nav.calls, c.kind # "mat", NEW r, r = Done(c)
    PROVE  /\ Sound(r, made) /\ Owed(r) = Owed(nav) /\ Made(r) <= Made(nav)
           /\ c.kind \in Makers => Made(r) + 1 = Made(nav)
           /\ r \in Shape /\ r.pane = nav.pane /\ r.calls = nav.calls \ {c}
           /\ r.chats = nav.chats /\ r.current = nav.current /\ r.pending = nav.pending
           /\ r.sending = nav.sending /\ r.from = nav.from /\ r.promise = nav.promise
           /\ r.waits = nav.waits /\ r.manual = nav.manual
<1>1. nav \in Shape /\ Sound(nav, made) /\ r = [nav EXCEPT !.calls = @ \ {c}]
  BY NavSound DEF Done
<1>2. /\ Sound(r, made) /\ Owed(r) = Owed(nav) /\ Made(r) <= Made(nav)
      /\ c.kind \in Makers => Made(r) + 1 = Made(nav)
  BY <1>1, DropSound
<1>3. /\ r.pane = nav.pane /\ r.calls = nav.calls \ {c}
      /\ r.chats = nav.chats /\ r.current = nav.current /\ r.pending = nav.pending
      /\ r.sending = nav.sending /\ r.from = nav.from /\ r.promise = nav.promise
      /\ r.waits = nav.waits /\ r.manual = nav.manual
  BY <1>1 DEF Shape
<1>4. QED
  BY <1>2, <1>3 DEF Sound

\* A call that goes on in another phase.
LEMMA SwapFields ==
    ASSUME NavInv, NEW c \in nav.calls, NEW d \in CallShape, NEW r, r = Add(Done(c), d)
    PROVE  /\ r \in Shape /\ r.pane = nav.pane /\ r.calls = (nav.calls \ {c}) \cup {d}
           /\ r.chats = nav.chats /\ r.current = nav.current /\ r.pending = nav.pending
           /\ r.sending = nav.sending /\ r.from = nav.from /\ r.promise = nav.promise
           /\ r.waits = nav.waits /\ r.manual = nav.manual
<1>1. nav \in Shape
  BY NavSound
<1>2. /\ Done(c) \in Shape /\ Done(c).pane = nav.pane /\ Done(c).calls = nav.calls \ {c}
      /\ Done(c).chats = nav.chats /\ Done(c).current = nav.current
      /\ Done(c).pending = nav.pending /\ Done(c).sending = nav.sending
      /\ Done(c).from = nav.from /\ Done(c).promise = nav.promise
      /\ Done(c).waits = nav.waits /\ Done(c).manual = nav.manual
  BY <1>1 DEF Done, Shape
<1>3. QED
  BY <1>2 DEF Add, Shape

\* The same for a call that is no creation.
LEMMA MovedSound ==
    ASSUME NavInv, NEW c \in nav.calls, NEW d \in CallShape,
           d.kind = c.kind, d.chat = c.chat, c.kind \notin {"mat", "default", "catalog"},
           NEW r, r = Add(Done(c), d)
    PROVE  /\ Sound(r, made) /\ Owed(r) = Owed(nav) /\ Made(r) <= Made(nav)
           /\ r \in Shape /\ r.pane = nav.pane /\ r.calls = (nav.calls \ {c}) \cup {d}
           /\ r.chats = nav.chats /\ r.current = nav.current /\ r.pending = nav.pending
           /\ r.sending = nav.sending /\ r.from = nav.from /\ r.promise = nav.promise
           /\ r.waits = nav.waits /\ r.manual = nav.manual
<1>1. /\ r \in Shape /\ r.pane = nav.pane /\ r.calls = (nav.calls \ {c}) \cup {d}
      /\ r.chats = nav.chats /\ r.current = nav.current /\ r.pending = nav.pending
      /\ r.sending = nav.sending /\ r.from = nav.from /\ r.promise = nav.promise
      /\ r.waits = nav.waits /\ r.manual = nav.manual
  BY SwapFields
<1>2. Sound(nav, made) /\ (d.kind = "mat" /\ d.phase = "served"
                             => [chat |-> d.chat, id |-> d.id] \in made)
  BY NavSound
<1>3. Sound(r, made) /\ Owed(r) = Owed(nav) /\ Made(r) <= Made(nav)
  BY <1>1, <1>2, SwapSound
<1>4. QED
  BY <1>1, <1>3

\* Fields that the invariant does not relate, changed in one that is sound.
LEMMA AlikeSound ==
    ASSUME NEW M, NEW n, Sound(n, M), NEW r \in Shape,
           r.calls = n.calls, r.chats = n.chats, r.pending = n.pending, r.promise = n.promise,
           r.waits = n.waits, r.manual = n.manual, r.from = n.from, r.sending = n.sending
    PROVE  Sound(r, M) /\ Made(r) = Made(n) /\ Owed(r) = Owed(n)
BY KeepSound

\* What an answer lets go on: the message that waited for a select is sent from no chat
\* that was deferred when it was written.
LEMMA PostedStep ==
    ASSUME NavInv, NEW m, Sound(m, made), PostedBy(nav, m), Server, UNCHANGED inputs,
           Made(m) + Owed(m) <= Made(nav) + Owed(nav), nav.chats <= m.chats,
           nav.sending # "no" /\ m.sending = "no" => m.current # None /\ m.from \notin Nat
    PROVE  NavInv' /\ nav'.pane = m.pane /\ nav'.current = m.current /\ nav'.calls = m.calls
<1>1. made' = made /\ exists' = exists /\ exists \subseteq Sessions
  BY NavSound DEF Server
<1>2. CASE nav.sending # "no" /\ m.sending = "no"
  <2>1. Proceed(m)
    BY <1>2 DEF PostedBy
  <2>2. /\ Sound(nav', made) /\ Made(nav') = Made(m) /\ Owed(nav') = Owed(m)
        /\ nav'.pane = m.pane /\ nav'.calls = m.calls /\ nav'.chats = m.chats
        /\ nav'.current = m.current
        /\ \A p \in posts' \ posts :
              /\ p \in [from : Sessions \cup {None} \cup 0 .. nav'.chats, to : Sessions]
              /\ p.from \in Chats => [chat |-> p.from, id |-> p.to] \in made
    BY <1>2, <2>1, ProceedSound
  <2>3. NavInv'
    BY <1>1, <2>2, AnswerStep
  <2>4. QED
    BY <2>2, <2>3
<1>3. CASE ~(nav.sending # "no" /\ m.sending = "no")
  <2>1. nav' = m /\ posts' = posts
    BY <1>3 DEF PostedBy
  <2>2. NavInv'
    BY <1>1, <2>1, AnswerStep
  <2>3. QED
    BY <2>1, <2>2
<1>4. QED
  BY <1>2, <1>3

LEMMA TimerStep ==
    ASSUME NavInv, NEW c \in nav.calls, LoadingTimer(c)
    PROVE  NavInv' /\ Painted /\ NoListTaken
<1> DEFINE d == [c EXCEPT !.timer = FALSE]
           n == IF c.phase = "failed" THEN Done(c) ELSE Add(Done(c), d)
<1>1. /\ c.kind = "select" /\ Server /\ UNCHANGED <<posts, inputs>>
      /\ nav' = IF Stale(nav, c) THEN n ELSE [n EXCEPT !.pane = Loading]
  BY DEF LoadingTimer
<1>2. c \in CallShape
  BY NavSound
<1>3. d \in CallShape /\ d.kind = "select" /\ d.chat = c.chat
  BY <1>1, <1>2 DEF CallShape
<1> HIDE DEF d
<1>4. /\ Sound(n, made) /\ Owed(n) = Owed(nav) /\ Made(n) <= Made(nav)
      /\ n \in Shape /\ n.pane = nav.pane /\ nav.calls \ {c} \subseteq n.calls
      /\ n.chats = nav.chats /\ n.current = nav.current
  <2>1. CASE c.phase = "failed"
    <3>1. n = Done(c)
      BY <2>1
    <3> HIDE DEF n
    <3>2. QED
      BY <1>1, <3>1, DoneSound
  <2>2. CASE c.phase # "failed"
    <3>1. n = Add(Done(c), d)
      BY <2>2
    <3> HIDE DEF n
    <3>2. QED
      BY <1>1, <1>3, <3>1, MovedSound
  <2>3. QED
    BY <2>1, <2>2
<1> HIDE DEF n
<1>5. [n EXCEPT !.pane = Loading] \in Shape
  BY <1>4 DEF Shape
<1>6. /\ nav' \in Shape /\ nav'.calls = n.calls /\ nav'.chats = n.chats
      /\ nav'.pending = n.pending /\ nav'.promise = n.promise /\ nav'.waits = n.waits
      /\ nav'.manual = n.manual /\ nav'.from = n.from /\ nav'.sending = n.sending
      /\ nav'.pane \in {n.pane, Loading}
  BY <1>1, <1>4, <1>5 DEF Shape
<1>7. Sound(nav', made) /\ Made(nav') = Made(n) /\ Owed(nav') = Owed(n)
  BY <1>4, <1>6, AlikeSound
<1>8. Made(nav') + Owed(nav') <= Made(nav) + Owed(nav) /\ nav.chats <= nav'.chats
  BY <1>4, <1>6, <1>7, NavSound, MadeCounted
<1>9. NavInv'
  BY <1>1, <1>7, <1>8, SilentStep
<1>10. QED
  BY <1>1, <1>4, <1>6, <1>9, NavSound DEF Painted, NoListTaken

LEMMA HistoryReplyStep ==
    ASSUME NavInv, NEW c \in nav.calls, HistoryReply(c)
    PROVE  NavInv' /\ Painted /\ NoListTaken
<1>1. c.kind = "select" /\ Server /\ UNCHANGED inputs /\ c \in CallShape
  BY NavSound DEF HistoryReply
<1>2. CASE Stale(nav, c) /\ PostedBy(nav, Ended(Done(c), c))
  <2> DEFINE n == Done(c)
             m == Ended(n, c)
  <2>1. n = Done(c) /\ m = Ended(n, c) /\ PostedBy(nav, m)
    BY <1>2
  <2> HIDE DEF n, m
  <2>2. /\ Sound(n, made) /\ Owed(n) = Owed(nav) /\ Made(n) <= Made(nav)
        /\ n.pane = nav.pane /\ n.calls = nav.calls \ {c} /\ n.chats = nav.chats
        /\ n.sending = nav.sending /\ n.from = nav.from
    BY <1>1, <2>1, DoneSound
  <2>3. /\ Sound(m, made) /\ Made(m) + Owed(m) <= Made(n) + Owed(n)
        /\ m.pane = n.pane /\ n.calls \subseteq m.calls /\ m.chats = n.chats
        /\ n.sending # "no" /\ m.sending = "no" => m.current # None /\ m.from \notin Nat
    BY <2>1, <2>2, EndedSound
  <2>4. Made(m) + Owed(m) <= Made(nav) + Owed(nav) /\ nav.chats <= m.chats
    BY <2>2, <2>3, NavSound, MadeCounted
  <2>5. NavInv' /\ nav'.pane = m.pane /\ nav'.calls = m.calls
    BY <1>1, <2>1, <2>2, <2>3, <2>4, PostedStep
  <2>6. QED
    BY <1>1, <2>2, <2>3, <2>5 DEF Painted, NoListTaken
<1>3. CASE /\ ~Stale(nav, c) /\ nav' = Add(Done(c), [c EXCEPT !.phase = "swap", !.timer = FALSE])
           /\ UNCHANGED posts
  <2> DEFINE d == [c EXCEPT !.phase = "swap", !.timer = FALSE]
  <2>1. d \in CallShape /\ d.kind = "select" /\ d.chat = c.chat /\ nav' = Add(Done(c), d)
    BY <1>1, <1>3 DEF CallShape
  <2> HIDE DEF d
  <2>2. /\ Sound(nav', made) /\ Owed(nav') = Owed(nav) /\ Made(nav') <= Made(nav)
        /\ nav'.pane = nav.pane /\ nav'.calls = (nav.calls \ {c}) \cup {d}
        /\ nav'.chats = nav.chats
    BY <1>1, <2>1, MovedSound
  <2>3. Made(nav') + Owed(nav') <= Made(nav) + Owed(nav) /\ nav.chats <= nav'.chats
    BY <2>2, NavSound, MadeCounted
  <2>4. NavInv'
    BY <1>1, <1>3, <2>2, <2>3, SilentStep
  <2>5. QED
    BY <1>1, <2>2, <2>4 DEF Painted, NoListTaken
<1>4. QED
  BY <1>2, <1>3 DEF HistoryReply

\* The history of a chat is painted when the select is that of the chat that is open.
LEMMA PaintStep ==
    ASSUME NavInv, NEW c \in nav.calls, Paint(c)
    PROVE  NavInv' /\ Painted /\ NoListTaken
<1> DEFINE p == [Done(c) EXCEPT !.pane = c.id]
<1>1. PICK n \in IF Stale(nav, c) THEN {Done(c)} ELSE {p, [p EXCEPT !.row = None]} :
        PostedBy(nav, Ended(n, c))
  BY DEF Paint
<1> DEFINE m == Ended(n, c)
<1>2. /\ c.kind = "select" /\ Server /\ UNCHANGED inputs /\ c \in CallShape
      /\ PostedBy(nav, m) /\ m = Ended(n, c)
  BY <1>1, NavSound DEF Paint
<1> HIDE DEF m
<1>3. /\ Sound(n, made) /\ Owed(n) = Owed(nav) /\ Made(n) <= Made(nav)
      /\ (n.pane = nav.pane \/ n.pane = n.current)
      /\ n.calls = nav.calls \ {c} /\ n.chats = nav.chats
      /\ n.sending = nav.sending /\ n.from = nav.from
  <2> DEFINE d == Done(c)
  <2>1. /\ Sound(d, made) /\ Owed(d) = Owed(nav) /\ Made(d) <= Made(nav)
        /\ d \in Shape /\ d.pane = nav.pane /\ d.calls = nav.calls \ {c}
        /\ d.chats = nav.chats /\ d.current = nav.current /\ d.pending = nav.pending
        /\ d.sending = nav.sending /\ d.from = nav.from
    BY <1>2, DoneSound
  <2>2. CASE Stale(nav, c)
    BY <1>1, <2>1, <2>2
  <2>3. CASE ~Stale(nav, c)
    <3>1. /\ n \in {[d EXCEPT !.pane = c.id], [d EXCEPT !.pane = c.id, !.row = None]}
          /\ c.id = nav.current
      BY <1>1, <2>1, <2>3 DEF Stale, Shape
    <3> HIDE DEF d
    <3>2. c.id \in Sessions \cup {None, Loading, Failed}
      BY <1>2 DEF CallShape
    <3>3. /\ n \in Shape /\ n.calls = d.calls /\ n.chats = d.chats
          /\ n.pending = d.pending /\ n.promise = d.promise /\ n.waits = d.waits
          /\ n.manual = d.manual /\ n.from = d.from /\ n.sending = d.sending
          /\ n.pane = c.id /\ n.current = d.current
      <4>1. CASE n = [d EXCEPT !.pane = c.id]
        BY ONLY <2>1, <3>2, <4>1 DEF Shape
      <4>2. CASE n = [d EXCEPT !.pane = c.id, !.row = None]
        BY ONLY <2>1, <3>2, <4>2 DEF Shape
      <4>3. QED
        BY <3>1, <4>1, <4>2
    <3>4. Sound(n, made) /\ Made(n) = Made(d) /\ Owed(n) = Owed(d)
      BY <2>1, <3>3, AlikeSound
    <3>5. QED
      BY <2>1, <3>1, <3>3, <3>4
  <2>4. QED
    BY <2>2, <2>3
<1>4. /\ Sound(m, made) /\ Made(m) + Owed(m) <= Made(n) + Owed(n)
      /\ m.pane = n.pane /\ n.calls \subseteq m.calls /\ m.chats = n.chats
      /\ m.current = n.current
      /\ n.sending # "no" /\ m.sending = "no" => m.current # None /\ m.from \notin Nat
  BY <1>2, <1>3, EndedSound
<1>5. Made(m) + Owed(m) <= Made(nav) + Owed(nav) /\ nav.chats <= m.chats
  BY <1>3, <1>4, NavSound, MadeCounted
<1>6. NavInv' /\ nav'.pane = m.pane /\ nav'.current = m.current /\ nav'.calls = m.calls
  BY <1>2, <1>3, <1>4, <1>5, PostedStep
<1>7. QED
  BY <1>2, <1>3, <1>4, <1>6 DEF Painted, NoListTaken

LEMMA HistoryFailsStep ==
    ASSUME NavInv, NEW c \in nav.calls, HistoryFails(c)
    PROVE  NavInv' /\ Painted /\ NoListTaken
<1> DEFINE left == [c EXCEPT !.phase = "failed", !.adopt = FALSE]
           n == IF c.timer THEN Add(Done(c), left) ELSE Done(c)
           k == [n EXCEPT !.pane = IF @ = Loading THEN Failed ELSE @]
           m == Ended(k, c)
<1>1. /\ c.kind = "select" /\ Server /\ UNCHANGED inputs /\ c \in CallShape
      /\ PostedBy(nav, m) /\ m = Ended(k, c)
  BY NavSound DEF HistoryFails
<1> HIDE DEF m
<1>2. left \in CallShape /\ left.kind = "select" /\ left.chat = c.chat
  BY <1>1 DEF CallShape
<1> HIDE DEF left
<1>3. /\ Sound(n, made) /\ Owed(n) = Owed(nav) /\ Made(n) <= Made(nav)
      /\ n \in Shape /\ n.pane = nav.pane /\ nav.calls \ {c} \subseteq n.calls
      /\ n.chats = nav.chats /\ n.sending = nav.sending /\ n.from = nav.from
  <2>1. CASE c.timer
    <3>1. n = Add(Done(c), left)
      BY <2>1
    <3> HIDE DEF n, k
    <3>2. QED
      BY <1>1, <1>2, <3>1, MovedSound
  <2>2. CASE ~c.timer
    <3>1. n = Done(c)
      BY <2>2
    <3> HIDE DEF n, k
    <3>2. QED
      BY <1>1, <3>1, DoneSound
  <2>3. QED
    BY <2>1, <2>2
<1>4. k = [n EXCEPT !.pane = IF @ = Loading THEN Failed ELSE @]
  OBVIOUS
<1> HIDE DEF n, k
<1>5. /\ k \in Shape /\ k.calls = n.calls /\ k.chats = n.chats
      /\ k.pending = n.pending /\ k.promise = n.promise /\ k.waits = n.waits
      /\ k.manual = n.manual /\ k.from = n.from /\ k.sending = n.sending
      /\ k.pane \in {n.pane, Failed}
  BY <1>3, <1>4 DEF Shape
<1>6. Sound(k, made) /\ Made(k) = Made(n) /\ Owed(k) = Owed(n)
  BY <1>3, <1>5, AlikeSound
<1>7. /\ Sound(m, made) /\ Made(m) + Owed(m) <= Made(k) + Owed(k)
      /\ m.pane = k.pane /\ k.calls \subseteq m.calls /\ m.chats = k.chats
      /\ k.sending # "no" /\ m.sending = "no" => m.current # None /\ m.from \notin Nat
  BY <1>1, <1>6, EndedSound
<1>8. Made(m) + Owed(m) <= Made(nav) + Owed(nav) /\ nav.chats <= m.chats
  BY <1>3, <1>5, <1>6, <1>7, NavSound, MadeCounted
<1>9. NavInv' /\ nav'.pane = m.pane /\ nav'.calls = m.calls
  BY <1>1, <1>3, <1>5, <1>7, <1>8, PostedStep
<1>10. QED
  BY <1>1, <1>3, <1>5, <1>7, <1>9, NavSound DEF Painted, NoListTaken

LEMMA PeekReplyStep ==
    ASSUME NavInv, NEW c \in nav.calls, PeekReply(c)
    PROVE  NavInv' /\ Painted /\ NoListTaken
<1> DEFINE d == Done(c)
<1>1. /\ c.kind = "peek" /\ Server /\ UNCHANGED <<posts, inputs>> /\ c \in CallShape
      /\ nav' = [d EXCEPT !.current = c.id, !.pane = c.id]
  BY NavSound DEF PeekReply
<1>2. /\ Sound(d, made) /\ Owed(d) = Owed(nav) /\ Made(d) <= Made(nav)
      /\ d \in Shape /\ d.calls = nav.calls \ {c} /\ d.chats = nav.chats
  BY <1>1, DoneSound
<1> HIDE DEF d
<1>3. c.id \in Sessions \cup {None} /\ c.id \in Sessions \cup {None, Loading, Failed}
  BY <1>1 DEF CallShape
<1>4. /\ nav' \in Shape /\ nav'.calls = d.calls /\ nav'.chats = d.chats
      /\ nav'.pending = d.pending /\ nav'.promise = d.promise /\ nav'.waits = d.waits
      /\ nav'.manual = d.manual /\ nav'.from = d.from /\ nav'.sending = d.sending
      /\ nav'.pane = nav'.current
  BY <1>1, <1>2, <1>3 DEF Shape
<1>5. Sound(nav', made) /\ Made(nav') = Made(d) /\ Owed(nav') = Owed(d)
  BY <1>2, <1>4, AlikeSound
<1>6. Made(nav') + Owed(nav') <= Made(nav) + Owed(nav) /\ nav.chats <= nav'.chats
  BY <1>2, <1>4, <1>5, NavSound, MadeCounted
<1>7. NavInv'
  BY <1>1, <1>5, <1>6, SilentStep
<1>8. QED
  BY <1>1, <1>2, <1>4, <1>7 DEF Painted, NoListTaken

\* A default model found: a deferred chat, unless one was made by hand meanwhile.
LEMMA PickReplyStep ==
    ASSUME NavInv, NEW c \in nav.calls, PickReply(c)
    PROVE  NavInv' /\ Painted /\ NoListTaken
<1> DEFINE d == Done(c)
           n == [d EXCEPT !.picking = "no"]
           manual == FALSE
<1>1. /\ c.kind = "pick" /\ Server /\ UNCHANGED <<posts, inputs>>
      /\ nav' = n \/ nav' = setPendingChat(n, manual)
  BY DEF PickReply
<1>2. manual \in BOOLEAN
  OBVIOUS
<1>3. /\ Sound(d, made) /\ Owed(d) = Owed(nav) /\ Made(d) + 1 = Made(nav)
      /\ d \in Shape /\ d.pane = nav.pane /\ d.calls = nav.calls \ {c} /\ d.chats = nav.chats
  BY <1>1, DoneSound DEF Makers
<1> HIDE DEF d, manual
<1>4. /\ n \in Shape /\ n.calls = d.calls /\ n.chats = d.chats
      /\ n.pending = d.pending /\ n.promise = d.promise /\ n.waits = d.waits
      /\ n.manual = d.manual /\ n.from = d.from /\ n.sending = d.sending /\ n.pane = d.pane
  BY <1>3 DEF Shape
<1> HIDE DEF n
<1>5. Sound(n, made) /\ Made(n) = Made(d) /\ Owed(n) = Owed(d)
  BY <1>3, <1>4, AlikeSound
<1>6. CASE nav' = n
  <2>1. Made(nav') + Owed(nav') <= Made(nav) + Owed(nav) /\ nav.chats <= nav'.chats
    BY <1>3, <1>4, <1>5, <1>6, NavSound, MadeCounted
  <2>2. NavInv'
    BY <1>1, <1>5, <1>6, <2>1, SilentStep
  <2>3. QED
    BY <1>1, <1>3, <1>4, <1>6, <2>2 DEF Painted, NoListTaken
<1>7. CASE nav' = setPendingChat(n, manual)
  <2>1. /\ Sound(nav', made) /\ Made(nav') = Made(n) + 1 /\ Owed(nav') = Owed(n)
        /\ nav'.pane = n.pane /\ nav'.calls = n.calls /\ nav'.chats = n.chats + 1
    BY <1>2, <1>5, <1>7, SetPendingSound
  <2>2. Made(nav') + Owed(nav') <= Made(nav) + Owed(nav) /\ nav.chats <= nav'.chats
    BY <1>3, <1>4, <1>5, <2>1, NavSound, MadeCounted
  <2>3. NavInv'
    BY <1>1, <2>1, <2>2, SilentStep
  <2>4. QED
    BY <1>1, <1>3, <1>4, <2>1, <2>3 DEF Painted, NoListTaken
<1>8. QED
  BY <1>1, <1>6, <1>7

\* The chat for the default model is made and created, unless there is no such model.
LEMMA DefaultReplyStep ==
    ASSUME NavInv, NEW c \in nav.calls, DefaultReply(c)
    PROVE  NavInv' /\ Painted /\ NoListTaken
<1> DEFINE d == Done(c)
           manual == FALSE
           k == createDirectChat(d, manual)
           n == materializePendingSession(k)
<1>1. /\ c.kind = "default" /\ Server /\ UNCHANGED <<posts, inputs>>
      /\ \/ nav' = Release(d)
         \/ nav' = [n EXCEPT !.sending = "mat", !.waits = n.promise]
  BY DEF DefaultReply
<1>2. manual \in BOOLEAN /\ k = createDirectChat(d, manual) /\ n = materializePendingSession(k)
  OBVIOUS
<1>3. /\ Sound(d, made) /\ Owed(d) = Owed(nav) /\ Made(d) <= Made(nav)
      /\ d \in Shape /\ d.pane = nav.pane /\ d.calls = nav.calls \ {c} /\ d.chats = nav.chats
      /\ d.sending = nav.sending /\ d.from = nav.from
  BY <1>1, DoneSound
<1> HIDE DEF d, manual, k, n
<1>4. /\ nav.sending = "default" /\ Owed(nav) = 2 /\ nav.from \notin Nat
      /\ \A e \in d.calls : e.kind \notin {"default", "catalog"}
  BY <1>1, <1>3, NavSound DEF Sound, Sending, Owed
<1>5. CASE nav' = Release(d)
  <2>1. /\ Sound(nav', made) /\ Owed(nav') = 0 /\ Made(nav') = Made(d)
        /\ nav'.calls = d.calls /\ nav'.chats = d.chats /\ nav'.pane = d.pane
    BY <1>3, <1>4, <1>5, ReleaseSound
  <2>2. Made(nav') + Owed(nav') <= Made(nav) + Owed(nav) /\ nav.chats <= nav'.chats
    BY <1>3, <1>4, <2>1, NavSound, MadeCounted
  <2>3. NavInv'
    BY <1>1, <2>1, <2>2, SilentStep
  <2>4. QED
    BY <1>1, <1>3, <2>1, <2>3 DEF Painted, NoListTaken
<1>6. CASE nav' = [n EXCEPT !.sending = "mat", !.waits = n.promise]
  <2>1. /\ Sound(k, made) /\ Made(k) <= Made(d) + 1 /\ Owed(k) = Owed(d)
        /\ k.pane \in {d.pane, None} /\ k.calls = d.calls
        /\ k.pending # 0 /\ k.sending = d.sending /\ k.from = d.from /\ d.chats <= k.chats
    BY <1>2, <1>3, CreateSound
  <2>2. /\ Sound(n, made) /\ Made(n) <= Made(k) + 1 /\ Owed(n) = Owed(k)
        /\ n.pane = k.pane /\ k.calls \subseteq n.calls
        /\ n.chats = k.chats /\ n.from = k.from /\ n.promise # 0 /\ n.sending = k.sending
    BY <1>2, <2>1, MaterializeSound
  <2>3. \A e \in n.calls : e.kind \notin {"default", "catalog"}
    <3>1. \A e \in n.calls \ k.calls : e.kind = "mat"
      BY <1>2, <2>1, MaterializeNew
    <3>2. QED
      BY <1>4, <2>1, <3>1
  <2>4. n \in Shape /\ n.promise \in Nat
    BY <2>2 DEF Sound, Shape
  <2>5. /\ nav' \in Shape /\ nav'.calls = n.calls /\ nav'.chats = n.chats
        /\ nav'.pending = n.pending /\ nav'.promise = n.promise /\ nav'.waits = n.promise
        /\ nav'.manual = n.manual /\ nav'.from = n.from /\ nav'.sending = "mat"
        /\ nav'.pane = n.pane
    BY <1>6, <2>4 DEF Shape
  <2>6. Numbered(nav') /\ Creations(nav', made)
    BY <2>2, <2>5 DEF Sound, Numbered, Creations
  <2>7. Sending(nav')
    BY <1>3, <1>4, <2>1, <2>2, <2>3, <2>5 DEF Sending
  <2>8. Sound(nav', made) /\ Made(nav') = Made(n) /\ Owed(nav') = 0
    BY <2>2, <2>5, <2>6, <2>7 DEF Sound, Made, Making, Owed
  <2>9. Made(nav') + Owed(nav') <= Made(nav) + Owed(nav) /\ nav.chats <= nav'.chats
    BY <1>3, <1>4, <2>1, <2>2, <2>5, <2>8, NavSound, MadeCounted
  <2>10. NavInv'
    BY <1>1, <2>8, <2>9, SilentStep
  <2>11. QED
    BY <1>1, <1>3, <2>1, <2>2, <2>5, <2>10, NavSound DEF Painted, NoListTaken
<1>7. QED
  BY <1>1, <1>5, <1>6

\* What the catalog does not know is a message, and goes on as one that was just pressed.
LEMMA CatalogReplyStep ==
    ASSUME NavInv, NEW c \in nav.calls, CatalogReply(c)
    PROVE  NavInv' /\ Painted /\ NoListTaken
<1> DEFINE d == Done(c)
           n == [d EXCEPT !.sending = "no"]
           m == Adopt(n)
<1>1. /\ c.kind = "catalog" /\ Server /\ UNCHANGED inputs
      /\ (nav' = Release(d) /\ UNCHANGED posts) \/ Proceed(m)
  BY DEF CatalogReply
<1>2. /\ Sound(d, made) /\ Owed(d) = Owed(nav) /\ Made(d) <= Made(nav)
      /\ d \in Shape /\ d.pane = nav.pane /\ d.calls = nav.calls \ {c} /\ d.chats = nav.chats
      /\ d.sending = nav.sending /\ d.from = nav.from
  BY <1>1, DoneSound
<1> HIDE DEF d
<1>3. /\ nav.sending = "slash" /\ Owed(nav) = 2 /\ nav.from \notin Nat /\ d.waits = 0
      /\ \A e \in d.calls : e.kind \notin {"default", "catalog"}
  BY <1>1, <1>2, NavSound DEF Sound, Sending, Owed
<1>4. CASE nav' = Release(d) /\ UNCHANGED posts
  <2>1. /\ Sound(nav', made) /\ Owed(nav') = 0 /\ Made(nav') = Made(d)
        /\ nav'.calls = d.calls /\ nav'.chats = d.chats /\ nav'.pane = d.pane
    BY <1>2, <1>3, <1>4, ReleaseSound
  <2>2. Made(nav') + Owed(nav') <= Made(nav) + Owed(nav) /\ nav.chats <= nav'.chats
    BY <1>2, <1>3, <2>1, NavSound, MadeCounted
  <2>3. NavInv'
    BY <1>1, <1>4, <2>1, <2>2, SilentStep
  <2>4. QED
    BY <1>1, <1>2, <2>1, <2>3 DEF Painted, NoListTaken
<1>5. CASE Proceed(m)
  <2>1. /\ n \in Shape /\ n.pane = d.pane /\ n.calls = d.calls /\ n.chats = d.chats
        /\ n.manual = d.manual /\ n.waits = d.waits /\ n.from = d.from
        /\ n.sending = "no" /\ n.pending = d.pending /\ n.promise = d.promise
    BY <1>2 DEF Shape
  <2>2. m = Adopt(n)
    OBVIOUS
  <2> HIDE DEF n, m
  <2>3. Numbered(n) /\ Creations(n, made)
    BY <1>2, <2>1 DEF Sound, Numbered, Creations
  <2>4. Sending(n)
    BY <1>3, <2>1 DEF Sending
  <2>5. Sound(n, made) /\ Made(n) = Made(d)
    BY <1>2, <2>1, <2>3, <2>4 DEF Sound, Made, Making
  <2>6. /\ Sound(m, made) /\ Made(m) + Owed(m) <= Made(n) + 2
        /\ m.pane = n.pane /\ n.calls \subseteq m.calls /\ m.chats = n.chats
        /\ m.sending = "no" => m.current # None /\ m.from \notin Nat
    BY <1>2, <1>3, <2>1, <2>2, <2>5, AdoptSound
  <2>7. /\ Sound(nav', made) /\ Made(nav') = Made(m) /\ Owed(nav') = Owed(m)
        /\ nav'.pane = m.pane /\ nav'.calls = m.calls /\ nav'.chats = m.chats
        /\ \A p \in posts' \ posts :
              /\ p \in [from : Sessions \cup {None} \cup 0 .. nav'.chats, to : Sessions]
              /\ p.from \in Chats => [chat |-> p.from, id |-> p.to] \in made
    BY <1>5, <2>6, ProceedSound
  <2>8. Made(nav') + Owed(nav') <= Made(nav) + Owed(nav) /\ nav.chats <= nav'.chats
    BY <1>2, <1>3, <2>1, <2>5, <2>6, <2>7, NavSound, MadeCounted
  <2>9. NavInv'
    <3>1. UNCHANGED <<made, inputs>> /\ exists' \subseteq Sessions
      BY <1>1, NavSound DEF Server
    <3>2. QED
      BY <2>7, <2>8, <3>1, AnswerStep
  <2>10. QED
    BY <1>1, <1>2, <2>1, <2>6, <2>7, <2>9 DEF Painted, NoListTaken
<1>6. QED
  BY <1>1, <1>4, <1>5

\* A chat of its own when the list is empty.
LEMMA AutoReplyStep ==
    ASSUME NavInv, NEW c \in nav.calls, AutoReply(c)
    PROVE  NavInv' /\ Painted /\ NoListTaken
<1> DEFINE d == Done(c)
           n == [d EXCEPT !.auto = FALSE]
           manual == FALSE
<1>1. /\ c.kind = "auto" /\ Server /\ UNCHANGED <<posts, inputs>>
      /\ nav' = n \/ nav' = createDirectChat(n, manual)
  BY DEF AutoReply
<1>2. manual \in BOOLEAN
  OBVIOUS
<1>3. /\ Sound(d, made) /\ Owed(d) = Owed(nav) /\ Made(d) + 1 = Made(nav)
      /\ d \in Shape /\ d.pane = nav.pane /\ d.calls = nav.calls \ {c} /\ d.chats = nav.chats
  BY <1>1, DoneSound DEF Makers
<1> HIDE DEF d, manual
<1>4. /\ n \in Shape /\ n.calls = d.calls /\ n.chats = d.chats
      /\ n.pending = d.pending /\ n.promise = d.promise /\ n.waits = d.waits
      /\ n.manual = d.manual /\ n.from = d.from /\ n.sending = d.sending /\ n.pane = d.pane
  <2>1. n \in Shape
    BY ONLY <1>3 DEF Shape
  <2>2. QED
    BY <1>3, <2>1 DEF Shape
<1> HIDE DEF n
<1>5. Sound(n, made) /\ Made(n) = Made(d) /\ Owed(n) = Owed(d)
  BY <1>3, <1>4, AlikeSound
<1>6. /\ Sound(nav', made) /\ Made(nav') <= Made(n) + 1 /\ Owed(nav') = Owed(n)
      /\ nav'.pane \in {n.pane, None} /\ nav'.calls = n.calls /\ n.chats <= nav'.chats
  <2>1. CASE nav' = n
    BY <1>5, <2>1, MadeCounted
  <2>2. CASE nav' = createDirectChat(n, manual)
    BY <1>2, <1>5, <2>2, CreateSound
  <2>3. QED
    BY <1>1, <2>1, <2>2
<1>7. Made(nav') + Owed(nav') <= Made(nav) + Owed(nav) /\ nav.chats <= nav'.chats
  BY <1>3, <1>4, <1>5, <1>6, NavSound, MadeCounted
<1>8. NavInv'
  BY <1>1, <1>6, <1>7, SilentStep
<1>9. QED
  BY <1>1, <1>3, <1>4, <1>6, <1>8, NavSound DEF Painted, NoListTaken

\* The server makes a chat and has it on record before the browser knows of it.
LEMMA ServeCreateStep ==
    ASSUME NavInv, NEW c \in nav.calls, ServeCreate(c)
    PROVE  NavInv' /\ Painted /\ NoListTaken
<1>1. PICK id \in Fresh : /\ exists' = exists \cup {id}
                          /\ made' = made \cup {[chat |-> c.chat, id |-> id]}
                          /\ nav' = Add(Done(c), [c EXCEPT !.phase = "served", !.id = id])
  BY DEF ServeCreate
<1>2. c.kind = "mat" /\ UNCHANGED <<posts, inputs>> /\ c \in CallShape
  BY NavSound DEF ServeCreate
<1> DEFINE d == [c EXCEPT !.phase = "served", !.id = id]
<1>3. /\ d \in CallShape /\ d.kind = "mat" /\ d.chat = c.chat /\ d.id = id
      /\ nav' = Add(Done(c), d) /\ id \in Sessions
  BY <1>1, <1>2 DEF CallShape, Sessions
<1> HIDE DEF d
<1>4. /\ nav' \in Shape /\ nav'.pane = nav.pane /\ nav'.calls = (nav.calls \ {c}) \cup {d}
      /\ nav'.chats = nav.chats /\ nav'.current = nav.current /\ nav'.pending = nav.pending
      /\ nav'.sending = nav.sending /\ nav'.from = nav.from /\ nav'.promise = nav.promise
      /\ nav'.waits = nav.waits /\ nav'.manual = nav.manual
  BY <1>3, SwapFields
<1>5. Sound(nav', made') /\ Owed(nav') = Owed(nav) /\ Made(nav') <= Made(nav)
  <2> DEFINE M == made'
  <2>1. made \subseteq M /\ [chat |-> d.chat, id |-> d.id] \in M
    BY <1>1, <1>3
  <2> HIDE DEF M
  <2>2. Sound(nav, M)
    BY <2>1, NavSound DEF Sound, Creations
  <2>3. Sound(nav', M) /\ Owed(nav') = Owed(nav) /\ Made(nav') <= Made(nav)
    BY <1>2, <1>3, <1>4, <2>1, <2>2, SwapSound
  <2>4. QED
    BY <2>3 DEF M
<1>6. Made(nav') + Owed(nav') <= 2 * inputs' + 1
  <2>1. Made(nav) + Owed(nav) <= 2 * inputs + 1 /\ inputs' = inputs /\ inputs \in Nat
    BY <1>2 DEF NavInv
  <2>2. Made(nav') + Owed(nav') <= Made(nav) + Owed(nav)
    BY <1>5, NavSound, MadeCounted
  <2>3. Made(nav') + Owed(nav') \in Nat
    BY <1>5, MadeCounted
  <2>4. QED
    BY <2>1, <2>2, <2>3, NavSound
<1>7. made' \subseteq [chat : 0 .. nav'.chats, id : Fresh]
  <2>1. c.chat \in 0 .. nav.chats
    BY <1>2, NavSound DEF Sound, Numbered, CallShape
  <2>2. [chat |-> c.chat, id |-> id] \in [chat : 0 .. nav.chats, id : Fresh]
    BY <2>1
  <2>3. QED
    BY <1>1, <1>4, <2>2 DEF NavInv
<1>8. NavInv'
  <2>1. /\ made \subseteq made' /\ exists' \subseteq Sessions /\ nav.chats <= nav'.chats
        /\ posts' \ posts = {}
    BY <1>1, <1>2, <1>3, <1>4, NavSound
  <2>2. inputs' \in Nat /\ inputs' <= MaxInputs
    BY <1>2 DEF NavInv
  <2>3. QED
    BY <1>5, <1>6, <1>7, <2>1, <2>2, StepSound
<1>9. QED
  BY <1>2, <1>4, <1>8 DEF Painted, NoListTaken

\* A creation known to the browser: its chat is opened, or deleted again when the user has
\* left; the message that waited for it is sent only to the chat it was written in.
LEMMA MatReplyStep ==
    ASSUME NavInv, NEW c \in nav.calls, MatReply(c)
    PROVE  NavInv' /\ Painted /\ NoListTaken
<1> DEFINE n == Settle(Done(c), c)
           l == loadSessions(n)
           kept == Kept(n, c)
           q == Resumed(kept)
           drop == [NewCall("drop") EXCEPT !.id = c.id]
           dropped == Add(n, drop)
<1>1. /\ c.kind = "mat" /\ c.phase = "served" /\ Server /\ UNCHANGED inputs
      /\ \/ /\ nav.pending = c.chat
            /\ IF Waiting(n, c) THEN Proceed(q) ELSE nav' = kept /\ UNCHANGED posts
         \/ /\ nav.pending # c.chat
            /\ nav' = IF Waiting(n, c) THEN Release(dropped) ELSE dropped
            /\ UNCHANGED posts
  BY DEF MatReply
<1>2. /\ [chat |-> c.chat, id |-> c.id] \in made /\ c.id \in Fresh /\ c.id \in Sessions
      /\ c.chat # 0 /\ c.chat \in Nat /\ c \in CallShape
  <2>1. /\ [chat |-> c.chat, id |-> c.id] \in made /\ c.chat # 0 /\ c \in CallShape
    BY <1>1, NavSound DEF Sound, Creations
  <2>2. c.id \in Fresh
    BY <2>1 DEF NavInv
  <2>3. QED
    BY <2>1, <2>2 DEF CallShape, Sessions
<1>3. /\ l = loadSessions(n) /\ q = Resumed(kept)
      /\ kept = [l EXCEPT !.pending = 0, !.current = c.id, !.hash = c.id, !.saved = c.id]
  BY DEF Kept
<1>4. drop \in CallShape /\ drop.kind = "drop" /\ drop.chat = 0
  BY <1>2 DEF NewCall, CallShape
<1> HIDE DEF n, l, kept, q, drop
<1>5. /\ Sound(n, made) /\ Owed(n) = Owed(nav) /\ Made(n) + 1 = Made(nav)
      /\ n.calls = nav.calls \ {c} /\ n.pending = nav.pending /\ n.sending = nav.sending
      /\ n.waits = nav.waits /\ n.from = nav.from /\ n.pane = nav.pane /\ n.chats = nav.chats
  <2>1. n = Settle([nav EXCEPT !.calls = @ \ {c}], c) /\ Sound(nav, made)
    BY NavSound DEF n, Done
  <2>2. QED
    BY <1>1, <2>1, SettledSound
<1>6. /\ Sound(l, made) /\ Made(l) <= Made(n) + 1 /\ Owed(l) = Owed(n)
      /\ l.pane = n.pane /\ n.calls \subseteq l.calls
      /\ l.chats = n.chats /\ l.sending = n.sending /\ l.from = n.from /\ l.waits = n.waits
  BY <1>3, <1>5, LoadSound
<1>7. /\ Sound(kept, made) /\ Made(kept) = Made(l) /\ Owed(kept) = Owed(l)
      /\ kept.pane = l.pane /\ kept.calls = l.calls /\ kept.chats = l.chats
      /\ kept.sending = l.sending /\ kept.from = l.from /\ kept.current = c.id
  <2>1. l \in Shape
    BY <1>6 DEF Sound
  <2>2. c.id \in Sessions
    BY <1>2
  <2>3. kept \in Shape
    <3> DEFINE k == [l EXCEPT !.pending = 0, !.current = c.id]
    <3>1. k \in Shape
      BY ONLY <2>1, <2>2 DEF Shape
    <3>2. kept = [k EXCEPT !.hash = c.id, !.saved = c.id]
      BY ONLY <1>3
    <3> HIDE DEF k
    <3>3. QED
      BY ONLY <2>2, <3>1, <3>2 DEF Shape
  <2>4. /\ kept.current = c.id /\ kept.calls = l.calls /\ kept.chats = l.chats /\ kept.pending = 0
        /\ kept.promise = l.promise /\ kept.waits = l.waits /\ kept.manual = l.manual
        /\ kept.from = l.from /\ kept.sending = l.sending /\ kept.pane = l.pane
    BY <1>3, <2>1 DEF Shape
  <2>5. QED
    BY <1>6, <2>3, <2>4, KeepSound
<1>8. /\ Sound(dropped, made) /\ Made(dropped) = Made(n) /\ Owed(dropped) = Owed(n)
      /\ dropped.pane = n.pane /\ n.calls \subseteq dropped.calls
      /\ dropped.chats = n.chats /\ dropped.sending = n.sending
  <2>1. Sound(dropped, made) /\ Made(dropped) = Made(n) /\ Owed(dropped) = Owed(n)
    BY <1>4, <1>5, AddSound DEF Makers
  <2>2. n \in Shape
    BY <1>5 DEF Sound
  <2>3. /\ dropped.pane = n.pane /\ dropped.calls = n.calls \cup {drop}
        /\ dropped.chats = n.chats /\ dropped.sending = n.sending
    BY <2>2 DEF Add, Shape
  <2>4. QED
    BY <2>1, <2>3
<1> HIDE DEF dropped
<1>9. /\ Made(kept) + Owed(kept) <= Made(nav) + Owed(nav) /\ kept.pane = nav.pane
      /\ Made(dropped) + Owed(dropped) <= Made(nav) + Owed(nav) /\ dropped.pane = nav.pane
      /\ kept.chats = nav.chats /\ dropped.chats = nav.chats
      /\ nav.calls \ {c} \subseteq kept.calls /\ nav.calls \ {c} \subseteq dropped.calls
  BY <1>5, <1>6, <1>7, <1>8, NavSound, MadeCounted
<1>10. UNCHANGED <<made, inputs>> /\ exists' \subseteq Sessions
  BY <1>1, NavSound DEF Server
<1>11. CASE nav' \in {kept, dropped} /\ UNCHANGED posts
  <2>1. /\ Sound(nav', made) /\ Made(nav') + Owed(nav') <= Made(nav) + Owed(nav)
        /\ nav'.pane = nav.pane /\ nav.calls \ {c} \subseteq nav'.calls /\ nav.chats <= nav'.chats
    BY <1>7, <1>8, <1>9, <1>11, NavSound
  <2>2. NavInv'
    BY <1>1, <1>11, <2>1, SilentStep
  <2>3. QED
    BY <1>1, <2>1, <2>2 DEF Painted, NoListTaken
<1>12. CASE Waiting(n, c) /\ nav' = Release(dropped) /\ UNCHANGED posts
  <2>1. \A e \in dropped.calls : e.kind \notin {"default", "catalog"}
    BY <1>8, <1>12 DEF Waiting, Sound, Sending
  <2>2. /\ Sound(nav', made) /\ Owed(nav') = 0 /\ Made(nav') = Made(dropped) /\ Owed(dropped) = 0
        /\ nav'.calls = dropped.calls /\ nav'.chats = dropped.chats /\ nav'.pane = dropped.pane
    BY <1>8, <1>12, <2>1, ReleaseSound DEF Waiting, Owed
  <2>3. Made(nav') + Owed(nav') <= Made(nav) + Owed(nav) /\ nav.chats <= nav'.chats
    BY <1>9, <2>2, NavSound
  <2>4. NavInv'
    BY <1>1, <1>12, <2>2, <2>3, SilentStep
  <2>5. QED
    BY <1>1, <1>9, <2>2, <2>4 DEF Painted, NoListTaken
<1>13. CASE nav.pending = c.chat /\ Waiting(n, c) /\ Proceed(q)
  <2>1. /\ q \in Shape /\ q.calls = kept.calls /\ q.chats = kept.chats /\ q.waits = 0
        /\ q.pending = kept.pending /\ q.promise = kept.promise /\ q.from = kept.from
        /\ q.manual = kept.manual /\ q.sending = "no" /\ q.current = kept.current
        /\ q.pane = kept.pane
    <3>1. kept \in Shape /\ q = [kept EXCEPT !.sending = "no", !.waits = 0]
      BY <1>3, <1>7 DEF Sound, Resumed
    <3>2. q \in Shape
      BY ONLY <3>1 DEF Shape
    <3>3. QED
      BY <3>1, <3>2 DEF Shape
  <2>2. kept.sending = "mat" /\ \A e \in kept.calls : e.kind \notin {"default", "catalog"}
    BY <1>6, <1>7, <1>13 DEF Waiting, Sound, Sending
  <2>3. Numbered(q) /\ Creations(q, made) /\ Sending(q)
    <3>1. Numbered(q)
      BY <1>7, <2>1 DEF Sound, Numbered, Shape
    <3>2. Creations(q, made)
      BY <1>7, <2>1 DEF Sound, Creations
    <3>3. Sending(q)
      BY <2>1, <2>2 DEF Sending
    <3>4. QED
      BY <3>1, <3>2, <3>3
  <2>4. Sound(q, made) /\ Made(q) = Made(kept) /\ Owed(q) = 0 /\ Owed(kept) = 0
    BY <1>7, <2>1, <2>2, <2>3 DEF Sound, Made, Making, Owed
  <2>5. q.current # None /\ (q.from \in Nat => [chat |-> q.from, id |-> q.current] \in made)
    <3>1. nav.sending = "mat" /\ nav.waits = c.chat /\ q.from = nav.from /\ q.current = c.id
      BY <1>5, <1>6, <1>7, <1>13, <2>1 DEF Waiting
    <3>2. nav.from \in Nat => c.chat <= nav.from /\ nav.from <= nav.chats
      BY <3>1, NavSound DEF Sound, Sending, Numbered
    <3>3. c.chat = nav.chats
      BY <1>2, <1>13, NavSound DEF Sound, Numbered
    <3>4. nav.from \in Nat => nav.from = c.chat
      BY <1>2, <3>2, <3>3
    <3>5. QED
      BY <1>2, <3>1, <3>4, NavSound
  <2>6. /\ Sound(nav', made) /\ Made(nav') = Made(q) /\ Owed(nav') = Owed(q)
        /\ nav'.pane = q.pane /\ nav'.calls = q.calls /\ nav'.chats = q.chats
        /\ \A p \in posts' \ posts :
              /\ p \in [from : Sessions \cup {None} \cup 0 .. nav'.chats, to : Sessions]
              /\ p.from \in Chats => [chat |-> p.from, id |-> p.to] \in made
    BY <1>13, <2>4, <2>5, ProceedSound
  <2>7. Made(nav') + Owed(nav') <= Made(nav) + Owed(nav) /\ nav.chats <= nav'.chats
    BY <1>9, <2>1, <2>4, <2>6, NavSound
  <2>8. NavInv'
    BY <1>10, <2>6, <2>7, AnswerStep
  <2>9. QED
    BY <1>1, <1>9, <2>1, <2>6, <2>8 DEF Painted, NoListTaken
<1>14. QED
  BY <1>1, <1>11, <1>12, <1>13

LEMMA MatFailsStep ==
    ASSUME NavInv, NEW c \in nav.calls, MatFails(c)
    PROVE  NavInv' /\ Painted /\ NoListTaken
<1> DEFINE n == Settle(Done(c), c)
<1>1. /\ c.kind = "mat" /\ Server /\ UNCHANGED <<posts, inputs>>
      /\ nav' = IF Waiting(n, c) THEN Release(n) ELSE n
  BY DEF MatFails
<1> HIDE DEF n
<1>2. /\ Sound(n, made) /\ Owed(n) = Owed(nav) /\ Made(n) + 1 = Made(nav)
      /\ n.calls = nav.calls \ {c} /\ n.sending = nav.sending
      /\ n.pane = nav.pane /\ n.chats = nav.chats
  <2>1. n = Settle([nav EXCEPT !.calls = @ \ {c}], c) /\ Sound(nav, made)
    BY NavSound DEF n, Done
  <2>2. QED
    BY <1>1, <2>1, SettledSound
<1>3. /\ Sound(nav', made) /\ Made(nav') + Owed(nav') <= Made(nav) + Owed(nav)
      /\ nav'.pane = nav.pane /\ nav'.calls = nav.calls \ {c} /\ nav.chats <= nav'.chats
  <2>1. CASE Waiting(n, c)
    <3>1. nav' = Release(n) /\ n.sending = "mat"
      BY <1>1, <2>1 DEF Waiting
    <3>2. \A e \in n.calls : e.kind \notin {"default", "catalog"}
      BY <1>2, <3>1 DEF Sound, Sending
    <3>3. /\ Sound(nav', made) /\ Owed(nav') = 0 /\ Made(nav') = Made(n)
          /\ nav'.calls = n.calls /\ nav'.chats = n.chats /\ nav'.pane = n.pane
      BY <1>2, <3>1, <3>2, ReleaseSound
    <3>4. QED
      BY <1>2, <3>3, NavSound, MadeCounted
  <2>2. CASE ~Waiting(n, c)
    BY <1>1, <1>2, <2>2, NavSound, MadeCounted
  <2>3. QED
    BY <2>1, <2>2
<1>4. NavInv'
  BY <1>1, <1>3, SilentStep
<1>5. QED
  BY <1>1, <1>3, <1>4 DEF Painted, NoListTaken

LEMMA DeleteReplyStep ==
    ASSUME NavInv, NEW c \in nav.calls, DeleteReply(c)
    PROVE  NavInv' /\ Painted /\ NoListTaken
<1> DEFINE d == Done(c)
<1>1. /\ c.kind \in {"delete", "drop"} /\ UNCHANGED <<made, posts, inputs>>
      /\ exists' \in {exists, exists \ {c.id}}
      /\ nav' = IF c.kind = "delete" THEN loadSessions(d) ELSE d
  BY DEF DeleteReply
<1>2. /\ Sound(d, made) /\ Owed(d) = Owed(nav) /\ Made(d) <= Made(nav)
      /\ c.kind \in Makers => Made(d) + 1 = Made(nav)
      /\ d.pane = nav.pane /\ d.calls = nav.calls \ {c} /\ d.chats = nav.chats
  BY <1>1, DoneSound
<1> HIDE DEF d
<1>3. /\ Sound(nav', made) /\ Made(nav') + Owed(nav') <= Made(nav) + Owed(nav)
      /\ nav'.pane = nav.pane /\ nav.calls \ {c} \subseteq nav'.calls /\ nav'.chats = nav.chats
  <2>1. CASE c.kind = "delete"
    <3>1. nav' = loadSessions(d)
      BY <1>1, <2>1
    <3>2. /\ Sound(nav', made) /\ Made(nav') <= Made(d) + 1 /\ Owed(nav') = Owed(d)
          /\ nav'.pane = d.pane /\ d.calls \subseteq nav'.calls /\ nav'.chats = d.chats
      BY <1>2, <3>1, LoadSound
    <3>3. Made(d) + 1 = Made(nav)
      BY <1>2, <2>1 DEF Makers
    <3>4. QED
      BY <1>2, <3>2, <3>3, NavSound, MadeCounted
  <2>2. CASE c.kind = "drop"
    <3>1. nav' = d
      BY <1>1, <2>2
    <3>2. QED
      BY <1>2, <3>1, NavSound, MadeCounted
  <2>3. QED
    BY <1>1, <2>1, <2>2
<1>4. NavInv'
  <2>1. exists' \subseteq Sessions /\ posts' \ posts = {} /\ nav.chats <= nav'.chats
    BY <1>1, <1>3, NavSound
  <2>2. QED
    BY <1>1, <1>3, <2>1, AnswerStep
<1>5. QED
  BY <1>1, <1>3, <1>4 DEF Painted, NoListTaken

LEMMA ServeListStep ==
    ASSUME NavInv, NEW c \in nav.calls, ServeList(c)
    PROVE  NavInv' /\ Painted /\ NoListTaken
<1> DEFINE d == [c EXCEPT !.phase = "served", !.ids = exists \ Archived]
<1>1. /\ c.kind = "list" /\ c.phase = "sent" /\ Server /\ UNCHANGED <<posts, inputs>>
      /\ nav' = Add(Done(c), d) /\ c \in CallShape
  BY NavSound DEF ServeList
<1>2. d \in CallShape /\ d.kind = "list" /\ d.chat = c.chat
  <2>1. exists \ Archived \in SUBSET Sessions
    BY NavSound
  <2>2. QED
    BY <1>1, <2>1 DEF CallShape
<1> HIDE DEF d
<1>3. /\ Sound(nav', made) /\ Owed(nav') = Owed(nav) /\ Made(nav') <= Made(nav)
      /\ nav'.pane = nav.pane /\ nav'.calls = (nav.calls \ {c}) \cup {d}
      /\ nav'.chats = nav.chats
  BY <1>1, <1>2, MovedSound
<1>4. Made(nav') + Owed(nav') <= Made(nav) + Owed(nav) /\ nav.chats <= nav'.chats
  BY <1>3, NavSound, MadeCounted
<1>5. NavInv'
  BY <1>1, <1>3, <1>4, SilentStep
<1>6. QED
  BY <1>1, <1>3, <1>5 DEF Painted, NoListTaken

LEMMA ListFailsStep ==
    ASSUME NavInv, NEW c \in nav.calls, ListFails(c)
    PROVE  NavInv' /\ Painted /\ nav'.current = nav.current /\ nav'.pending = nav.pending
<1>1. c.kind = "list" /\ Server /\ UNCHANGED <<posts, inputs>> /\ nav' = Done(c)
  BY DEF ListFails
<1>2. /\ Sound(nav', made) /\ Owed(nav') = Owed(nav) /\ Made(nav') <= Made(nav)
      /\ nav'.pane = nav.pane /\ nav'.calls = nav.calls \ {c} /\ nav'.chats = nav.chats
      /\ nav'.current = nav.current /\ nav'.pending = nav.pending
  BY <1>1, DoneSound
<1>3. Made(nav') + Owed(nav') <= Made(nav) + Owed(nav) /\ nav.chats <= nav'.chats
  BY <1>2, NavSound, MadeCounted
<1>4. NavInv'
  BY <1>1, <1>2, <1>3, SilentStep
<1>5. QED
  BY <1>2, <1>4 DEF Painted

\* Where the user is stays open: in a deferred chat, or in one that the address names.
Settled == nav.pending # 0 \/ (nav.current # None /\ nav.current = nav.hash)

LEMMA ListReplyStep ==
    ASSUME NavInv, NEW c \in nav.calls, ListReply(c)
    PROVE  /\ NavInv' /\ Painted
           /\ Settled => nav'.current = nav.current /\ nav'.pending = nav.pending
<1>1. c.kind = "list" /\ Server /\ UNCHANGED <<posts, inputs>> /\ c \in CallShape
  BY NavSound DEF ListReply
<1> DEFINE root == FreshRoot(nav)
           d == Done(c)
           n == [d EXCEPT !.listed = c.ids, !.skip = FALSE, !.rooted = @ \/ root,
                    !.saved = IF root \/ @ \in c.ids \cap Transient THEN None ELSE @,
                    !.row = IF nav.current \in c.ids THEN nav.current ELSE None]
           adopt == FALSE
           auto == NewCall("auto")
           k == [n EXCEPT !.auto = TRUE]
<1>2. PICK target \in ListTarget(nav, c.ids) :
        \/ target \notin {None, nav.current} /\ nav' = selectSession(n, target, adopt)
        \/ target = None /\ nav.pending = 0 /\ nav' = Add(k, auto)
        \/ nav' = n
  BY DEF ListReply
<1>3. /\ c.ids \in SUBSET Sessions /\ nav.current \in Sessions \cup {None}
      /\ nav.hash \in Sessions \cup {None} /\ nav.saved \in Sessions \cup {None}
      /\ root \in BOOLEAN
  BY <1>1, NavSound DEF CallShape, Shape, FreshRoot
<1>4. target \in Sessions \cup {None} /\ (Settled => target \in {None, nav.current})
      /\ (nav.pending = 0 /\ nav.current # None => target # None)
  <2>1. target \in Sessions \cup {None}
    BY <1>2, <1>3 DEF ListTarget
  <2>2. Settled => target \in {None, nav.current}
    BY <1>2, <1>3 DEF ListTarget, Settled
  <2>3. nav.pending = 0 /\ nav.current # None => target # None
    BY <1>2, <1>3, NavSound DEF ListTarget
  <2>4. QED
    BY <2>1, <2>2, <2>3
<1>5. /\ Sound(d, made) /\ Owed(d) = Owed(nav) /\ Made(d) + 1 = Made(nav)
      /\ d \in Shape /\ d.pane = nav.pane /\ d.calls = nav.calls \ {c} /\ d.chats = nav.chats
      /\ d.current = nav.current /\ d.pending = nav.pending
  BY <1>1, DoneSound DEF Makers
<1>6. auto \in CallShape /\ auto.kind = "auto" /\ auto.chat = 0 /\ adopt \in BOOLEAN
  BY CallTyped DEF Makers
<1> HIDE DEF root, d, adopt, auto
<1>7. /\ n \in Shape /\ n.calls = d.calls /\ n.chats = d.chats
      /\ n.pending = d.pending /\ n.promise = d.promise /\ n.waits = d.waits
      /\ n.manual = d.manual /\ n.from = d.from /\ n.sending = d.sending /\ n.pane = d.pane
      /\ n.current = d.current
  <2> DEFINE rooted == d.rooted \/ root
             ids == c.ids
             saved == IF root \/ d.saved \in c.ids \cap Transient THEN None ELSE d.saved
             row == IF nav.current \in c.ids THEN nav.current ELSE None
             p == [d EXCEPT !.listed = ids, !.skip = FALSE, !.rooted = rooted]
  <2>1. /\ rooted \in BOOLEAN /\ ids \in SUBSET Sessions /\ d \in Shape
        /\ n = [p EXCEPT !.saved = saved, !.row = row]
    BY <1>3, <1>5 DEF Shape
  <2>2. saved \in Sessions \cup {None} /\ row \in Sessions \cup {None}
    BY <1>3, <1>5 DEF Shape
  <2> HIDE DEF rooted, ids, saved, row, n
  <2>3. p \in Shape
    BY ONLY <2>1, ZenonT(60) DEF Shape
  <2>4. /\ p.calls = d.calls /\ p.chats = d.chats
        /\ p.pending = d.pending /\ p.promise = d.promise /\ p.waits = d.waits
        /\ p.manual = d.manual /\ p.from = d.from /\ p.sending = d.sending
        /\ p.pane = d.pane /\ p.current = d.current
    BY ONLY <2>1 DEF Shape
  <2> HIDE DEF p
  <2>5. n \in Shape
    BY ONLY <2>1, <2>2, <2>3 DEF Shape
  <2>6. QED
    BY <2>1, <2>3, <2>4, <2>5 DEF Shape
<1> HIDE DEF n
<1>8. Sound(n, made) /\ Made(n) = Made(d) /\ Owed(n) = Owed(d)
  BY <1>5, <1>7, AlikeSound
<1>9. CASE target \notin {None, nav.current} /\ nav' = selectSession(n, target, adopt)
  <2>1. /\ Sound(nav', made) /\ Made(nav') = Made(n) /\ Owed(nav') = Owed(n)
        /\ nav'.pane = n.pane /\ nav'.chats = n.chats
    BY <1>4, <1>6, <1>8, <1>9, SelectSound
  <2>2. Made(nav') + Owed(nav') <= Made(nav) + Owed(nav) /\ nav.chats <= nav'.chats
    BY <1>5, <1>7, <1>8, <2>1, NavSound, MadeCounted
  <2>3. NavInv'
    BY <1>1, <2>1, <2>2, SilentStep
  <2>4. QED
    BY <1>4, <1>5, <1>7, <1>9, <2>1, <2>3 DEF Painted
<1>10. CASE target = None /\ nav.pending = 0 /\ nav' = Add(k, auto)
  <2>1. /\ k \in Shape /\ k.calls = n.calls /\ k.chats = n.chats
        /\ k.pending = n.pending /\ k.promise = n.promise /\ k.waits = n.waits
        /\ k.manual = n.manual /\ k.from = n.from /\ k.sending = n.sending /\ k.pane = n.pane
        /\ k.current = n.current
    BY <1>7, ZenonT(60) DEF Shape
  <2> HIDE DEF k
  <2>2. Sound(k, made) /\ Made(k) = Made(n) /\ Owed(k) = Owed(n)
    BY <1>8, <2>1, AlikeSound
  <2>3. Sound(nav', made) /\ Made(nav') <= Made(k) + 1 /\ Owed(nav') = Owed(k)
    BY <1>6, <1>10, <2>2, AddSound
  <2>4. /\ nav'.pane = k.pane /\ nav'.chats = k.chats /\ nav'.current = k.current
        /\ nav'.pending = k.pending
    BY <1>10, <2>1 DEF Add, Shape
  <2>5. Made(nav') + Owed(nav') <= Made(nav) + Owed(nav) /\ nav.chats <= nav'.chats
    BY <1>5, <1>7, <1>8, <2>1, <2>2, <2>3, <2>4, NavSound, MadeCounted
  <2>6. NavInv'
    BY <1>1, <2>3, <2>5, SilentStep
  <2>7. QED
    BY <1>5, <1>7, <2>1, <2>4, <2>6 DEF Painted
<1>11. CASE nav' = n
  <2>1. Made(nav') + Owed(nav') <= Made(nav) + Owed(nav) /\ nav.chats <= nav'.chats
    BY <1>5, <1>7, <1>8, <1>11, NavSound, MadeCounted
  <2>2. NavInv'
    BY <1>1, <1>8, <1>11, <2>1, SilentStep
  <2>3. QED
    BY <1>5, <1>7, <1>11, <2>2 DEF Painted
<1>12. QED
  BY <1>2, <1>9, <1>10, <1>11

-----------------------------------------------------------------------------
(* The theorems.                                                           *)

\* What a step does to the place of the user when a list of chats is taken in.
Placed ==
    (\E c \in nav.calls \ nav'.calls : c.kind = "list" /\ c.phase = "served") /\ Settled
      => nav'.current = nav.current /\ nav'.pending = nav.pending

LEMMA NavInit == Init => NavInv
<1> SUFFICES ASSUME Init PROVE NavInv
  OBVIOUS
<1> DEFINE c == NewCall("list")
<1>1. PICK hash \in Active \cup Archived \cup {None}, saved \in Active \cup Archived \cup {None} :
          nav = [current |-> None, token |-> 0, pending |-> 0, chats |-> 0, manual |-> {},
                 promise |-> 0, pane |-> None, hash |-> hash, last |-> None, saved |-> saved,
                 row |-> None, skip |-> FALSE, rooted |-> FALSE, listed |-> {},
                 picking |-> "no", auto |-> FALSE, sending |-> "no", from |-> None,
                 waits |-> 0, held |-> FALSE, calls |-> {c}]
  BY DEF Init
<1>2. c \in CallShape /\ c.kind = "list" /\ c.chat = 0
  BY CallTyped DEF Makers
<1> HIDE DEF c
<1>3. nav \in Shape
  BY <1>1, <1>2 DEF Shape, Sessions
<1>4. /\ nav.pending = 0 /\ nav.chats = 0 /\ nav.manual = {} /\ nav.promise = 0
      /\ nav.sending = "no" /\ nav.from = None /\ nav.waits = 0 /\ nav.calls = {c}
  BY <1>1
<1>5. IsFiniteSet(nav.calls) /\ Cardinality(Making(nav)) = 1
  <2>1. IsFiniteSet({c}) /\ Cardinality({c}) = 1
    BY FS_Singleton
  <2>2. Making(nav) = {c}
    BY <1>2, <1>4 DEF Making, Makers
  <2>3. QED
    BY <1>4, <2>1, <2>2
<1>6. Numbered(nav) /\ Creations(nav, made) /\ Sending(nav)
  BY <1>2, <1>4, NoneIsNoChat DEF Numbered, Creations, Sending
<1>7. inputs = 0 /\ made = {} /\ posts = {} /\ exists \subseteq Sessions
  BY DEF Init, Sessions
<1>8. Made(nav) + Owed(nav) <= 2 * inputs + 1
  BY <1>4, <1>5, <1>7 DEF Made, Owed
<1>9. QED
  BY <1>3, <1>5, <1>6, <1>7, <1>8, NavAssumption DEF NavInv, Sound, SentToItsChat

LEMMA NavNext == NavInv /\ [Next]_vars => NavInv' /\ Painted /\ Placed
<1> SUFFICES ASSUME NavInv, [Next]_vars PROVE NavInv' /\ Painted /\ Placed
  OBVIOUS
<1>1. CASE User
  BY <1>1, UserStep DEF Placed, NoListTaken
<1>2. CASE Timer
  BY <1>2, TimerStep DEF Timer, Placed, NoListTaken
<1>3. ASSUME NEW c \in nav.calls,
             \/ HistoryReply(c) \/ Paint(c) \/ HistoryFails(c) \/ PeekReply(c) \/ PickReply(c)
             \/ DefaultReply(c) \/ CatalogReply(c) \/ AutoReply(c) \/ ServeCreate(c)
             \/ MatReply(c) \/ MatFails(c) \/ DeleteReply(c) \/ ServeList(c)
      PROVE  NavInv' /\ Painted /\ Placed
  <2>1. NavInv' /\ Painted /\ NoListTaken
    BY <1>3, HistoryReplyStep, PaintStep, HistoryFailsStep, PeekReplyStep, PickReplyStep,
       DefaultReplyStep, CatalogReplyStep, AutoReplyStep, ServeCreateStep, MatReplyStep,
       MatFailsStep, DeleteReplyStep, ServeListStep
  <2>2. QED
    BY <2>1 DEF Placed, NoListTaken
<1>4. ASSUME NEW c \in nav.calls, ListReply(c) \/ ListFails(c)
      PROVE  NavInv' /\ Painted /\ Placed
  BY <1>4, ListReplyStep, ListFailsStep DEF Placed
<1>5. CASE UNCHANGED vars
  <2>1. /\ nav' = nav /\ made' = made /\ posts' = posts /\ inputs' = inputs
        /\ exists' = exists
    BY <1>5 DEF vars
  <2>2. NavInv' = NavInv
    BY <2>1 DEF NavInv, SentToItsChat
  <2>3. QED
    BY <2>1, <2>2 DEF Painted, Placed
<1>6. QED
  BY <1>1, <1>2, <1>3, <1>4, <1>5 DEF Next, Answer

\* The navigation invariant holds in every reachable state.
THEOREM NavInvariant == Spec => []NavInv
BY NavInit, NavNext, PTL DEF Spec

\* Every state is of its type, with no more deferred chats than the inputs pay for; a
\* promise that is kept is that of a creation in flight (sessions.js).
THEOREM NavTypes == Spec => []TypeOK
<1>1. ASSUME NavInv PROVE TypeOK
  <2>1. /\ Sound(nav, made) /\ nav \in Shape /\ nav.chats \in Nat /\ IsFiniteSet(nav.calls)
        /\ Made(nav) + Owed(nav) <= 2 * inputs + 1 /\ inputs \in Nat /\ inputs <= MaxInputs
        /\ MaxInputs \in Nat
    BY <1>1, NavSound, NavAssumption DEF NavInv
  <2>2. nav.chats <= 2 * MaxInputs + 2
    <3>1. Cardinality(Making(nav)) \in Nat /\ Owed(nav) \in Nat
      BY <2>1, MakingCounted DEF Owed
    <3>2. QED
      BY <2>1, <3>1 DEF Made
  <2>3. 0 .. nav.chats \subseteq Chats
    BY <2>1, <2>2 DEF Chats
  <2>4. nav \in NavType
    <3>1. /\ nav.pending \in Chats /\ nav.chats \in Chats /\ nav.promise \in Chats
          /\ nav.waits \in Chats /\ nav.manual \subseteq Chats
      <4>1. /\ nav.pending \in 0 .. nav.chats /\ nav.chats \in 0 .. nav.chats
            /\ nav.promise \in 0 .. nav.chats /\ nav.waits \in 0 .. nav.chats
            /\ nav.manual \subseteq 0 .. nav.chats
        BY <2>1 DEF Sound, Numbered, Shape
      <4>2. QED
        BY <2>3, <4>1
    <3>2. nav.from \in Place
      <4>1. nav.from \in Sessions \cup {None} \/ nav.from \in 0 .. nav.chats
        BY <2>1 DEF Sound, Numbered, Shape
      <4>2. QED
        BY <2>3, <4>1 DEF Place
    <3>3. nav.calls \subseteq Call
      <4> SUFFICES ASSUME NEW c \in nav.calls PROVE c \in Call
        OBVIOUS
      <4>1. c \in CallShape
        BY <2>1 DEF Shape
      <4>2. c.chat \in Chats
        BY <2>1, <2>3, <4>1 DEF Sound, Numbered, CallShape
      <4>3. QED
        BY <4>1, <4>2 DEF CallShape, Call
    <3>4. QED
      BY ONLY <2>1, <3>1, <3>2, <3>3 DEF Shape, NavType
  <2>5. /\ nav.promise # 0 => \E c \in nav.calls : c.kind = "mat" /\ c.chat = nav.promise
        /\ nav.waits # 0 <=> nav.sending = "mat"
    BY <2>1 DEF Sound, Creations, Sending
  <2>6. made \subseteq [chat : Chats, id : Fresh]
    <3> DEFINE some == 0 .. nav.chats
    <3>1. some \subseteq Chats /\ made \subseteq [chat : some, id : Fresh]
      BY <1>1, <2>3 DEF NavInv
    <3> HIDE DEF some
    <3>2. QED
      BY <3>1
  <2>7. posts \subseteq [from : Place, to : Sessions]
    <3> DEFINE some == 0 .. nav.chats
    <3>1. /\ some \subseteq Chats
          /\ posts \subseteq [from : Sessions \cup {None} \cup some, to : Sessions]
      BY <1>1, <2>3 DEF NavInv
    <3> HIDE DEF some
    <3>2. QED
      BY <3>1 DEF Place
  <2>8. exists \subseteq Sessions /\ inputs \in 0 .. MaxInputs
    BY <1>1, <2>1 DEF NavInv
  <2>9. QED
    BY <2>4, <2>5, <2>6, <2>7, <2>8 DEF TypeOK
<1>2. QED
  BY <1>1, NavInvariant, PTL

\* A deferred chat is created by one request at a time: whoever asks for it while one is in
\* flight joins its promise, which no other chat's answer takes away.
THEOREM CreatedOnce == Spec => []OneCreation
<1>1. ASSUME NavInv PROVE OneCreation
  BY <1>1 DEF NavInv, Sound, Creations, OneCreation
<1>2. QED
  BY <1>1, NavInvariant, PTL

\* A message written in a deferred chat goes to the chat made for that one or nowhere,
\* wherever the user went while it was made.
THEOREM SentHome == Spec => []SentToItsChat
<1>1. NavInv => SentToItsChat
  BY DEF NavInv
<1>2. QED
  BY <1>1, NavInvariant, PTL

\* The pane is never painted with the history of a chat that is not the open one.
THEOREM PaintsCurrent == Spec => PaintOnlyCurrent
<1>1. NavInv /\ [Next]_vars
        => [nav'.pane # nav.pane /\ nav'.pane \in Sessions => nav'.pane = nav'.current]_vars
  BY NavNext DEF Painted
<1>2. QED
  BY <1>1, NavInvariant, PTL DEF Spec, PaintOnlyCurrent

\* A reload of the list, however old, keeps the user in a deferred chat and in the chat that
\* the address names.
THEOREM ListsKeepPlace == Spec => ListKeepsPlace
<1>1. NavInv /\ [Next]_vars
        => [(\E c \in nav.calls \ nav'.calls : c.kind = "list" /\ c.phase = "served")
               /\ (nav.pending # 0 \/ (nav.current # None /\ nav.current = nav.hash))
            => nav'.current = nav.current /\ nav'.pending = nav.pending]_vars
  BY NavNext DEF Placed, Settled
<1>2. QED
  BY <1>1, NavInvariant, PTL DEF Spec, ListKeepsPlace

=============================================================================
