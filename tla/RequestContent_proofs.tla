----------------------- MODULE RequestContent_proofs -----------------------
(***************************************************************************)
(* What _build_hf_messages collects, for messages and parts of any number:  *)
(* its two nested loops against the reference of RequestPath, by induction  *)
(* over the parts of a message and over the messages.                      *)
(***************************************************************************)
EXTENDS RequestPath, SequenceTheorems, TLAPS

OverParts == INSTANCE FoldSteps WITH Op <- AddPart
OverMessages == INSTANCE FoldSteps WITH Op <- AddMessage

----------------------------------------------------------------------------
(* Sequences                                                                *)

\* A sequence that is given by what stands at each place, one place longer.
LEMMA AppendPlace ==
    ASSUME NEW S, NEW k \in Nat, NEW long \in [1..k + 1 -> S], NEW s,
           s = [i \in 1..k |-> long[i]]
    PROVE  Append(s, long[k + 1]) = long
  <1>1. s \in Seq(S) /\ Len(s) = k /\ long \in Seq(S) /\ Len(long) = k + 1
        /\ long[k + 1] \in S
    OBVIOUS
  <1> DEFINE t == Append(s, long[k + 1])
  <1>2. /\ t \in Seq(S) /\ Len(t) = k + 1
        /\ \A i \in 1..k : t[i] = s[i]
        /\ t[k + 1] = long[k + 1]
    BY <1>1, AppendProperties
  <1>3. \A i \in 1..k + 1 : t[i] = long[i]
    <2> HIDE DEF t
    <2>1. \A i \in 1..k + 1 : i \in 1..k \/ i = k + 1
      OBVIOUS
    <2> QED
      BY <1>2, <2>1
  <1> HIDE DEF t
  <1>4. t = long
    BY <1>1, <1>2, <1>3, SeqEqual
  <1> QED
    BY <1>4 DEF t

\* The recursion by which the library flattens the first n of a sequence of sequences.
IsFlattening(flat, n, seqs) ==
    flat = [i \in 1..n |-> IF i = 1 THEN seqs[i] ELSE flat[i - 1] \o seqs[i]]

LEMMA FlatteningDefined ==
    ASSUME NEW n \in Nat, NEW seqs
    PROVE  \E flat : IsFlattening(flat, n, seqs)
  <1> DEFINE Holds == {k \in 0..n : \E flat : IsFlattening(flat, k, seqs)}
  <1>1. 0 \in Holds
    <2>1. IsFlattening([i \in 1..0 |-> seqs[i]], 0, seqs)
      BY DEF IsFlattening
    <2> QED
      BY <2>1
  <1>2. ASSUME NEW k \in 1..n, k - 1 \in Holds PROVE k \in Holds
    <2>1. PICK f : IsFlattening(f, k - 1, seqs)
      BY <1>2
    <2> DEFINE g == [i \in 1..k |-> IF i = 1 THEN seqs[i] ELSE f[i - 1] \o seqs[i]]
    <2>2. ASSUME NEW i \in 1..k
          PROVE  g[i] = IF i = 1 THEN seqs[i] ELSE g[i - 1] \o seqs[i]
      <3>1. CASE i = 1
        BY <3>1
      <3>2. CASE i # 1
        <4>1. i - 1 \in 1..k - 1 /\ i - 1 \in 1..k
          BY <3>2
        <4>2. f[i - 1] = g[i - 1]
          BY <2>1, <4>1 DEF IsFlattening
        <4> QED
          BY <3>2, <4>2
      <3> QED
        BY <3>1, <3>2
    <2>3. IsFlattening(g, k, seqs)
      <3> HIDE DEF g
      <3>1. g = [i \in 1..k |-> g[i]]
        BY DEF g
      <3> QED
        BY <2>2, <3>1 DEF IsFlattening
    <2> HIDE DEF g
    <2> QED
      BY <2>3
  <1>3. n \in Holds
    <2> HIDE DEF Holds
    <2>1. Holds \in SUBSET (0..n)
      BY DEF Holds
    <2> QED
      BY <1>1, <1>2, <2>1, OverParts!UpTo
  <1> QED
    BY <1>3

\* FlattenSeq runs from the empty sequence through its elements, in their order.
THEOREM FlattenSteps ==
    ASSUME NEW V, NEW seqs \in Seq(Seq(V))
    PROVE  \E state :
             /\ state[0] = <<>>
             /\ \A k \in 0..Len(seqs) : state[k] \in Seq(V)
             /\ \A k \in 1..Len(seqs) : state[k] = state[k - 1] \o seqs[k]
             /\ state[Len(seqs)] = FlattenSeq(seqs)
  <1> DEFINE n == Len(seqs)
             flat == CHOOSE f : IsFlattening(f, n, seqs)
             state == [k \in 0..n |-> IF k = 0 THEN <<>> ELSE flat[k]]
  <1>1. n \in Nat /\ (n = 0 => seqs = <<>>) /\ \A k \in 1..n : seqs[k] \in Seq(V)
    OBVIOUS
  <1>2. IsFlattening(flat, n, seqs)
    BY <1>1, FlatteningDefined
  <1>3. FlattenSeq(seqs) = IF n = 0 THEN seqs ELSE flat[n]
    BY DEF FlattenSeq, IsFlattening
  <1> HIDE DEF flat, n
  <1>4. ASSUME NEW k \in 1..n PROVE state[k] = state[k - 1] \o seqs[k]
    <2>1. k \in 0..n /\ k - 1 \in 0..n
      BY <1>1
    <2>2. CASE k = 1
      <3>1. state[k] = seqs[1] /\ state[k - 1] = <<>>
        BY <1>2, <2>1, <2>2 DEF IsFlattening
      <3> QED
        BY <1>1, <2>2, <3>1, ConcatEmptySeq
    <2>3. CASE k # 1
      <3>1. k - 1 \in 1..n /\ k # 0 /\ k - 1 # 0
        BY <1>1, <2>3
      <3>2. state[k] = flat[k] /\ state[k - 1] = flat[k - 1]
        BY <2>1, <3>1
      <3>3. flat[k] = flat[k - 1] \o seqs[k]
        BY <1>2, <2>3 DEF IsFlattening
      <3> QED
        BY <3>2, <3>3
    <2> QED
      BY <2>2, <2>3
  <1>5. \A k \in 0..n : state[k] \in Seq(V)
    <2> DEFINE Holds == {k \in 0..n : state[k] \in Seq(V)}
    <2>1. 0 \in Holds
      BY <1>1
    <2>2. ASSUME NEW k \in 1..n, k - 1 \in Holds PROVE k \in Holds
      <3> HIDE DEF state
      <3>1. state[k - 1] \in Seq(V) /\ seqs[k] \in Seq(V)
        BY <1>1, <2>2
      <3>2. state[k - 1] \o seqs[k] \in Seq(V)
        BY <3>1, ConcatProperties
      <3>3. state[k] \in Seq(V)
        BY <1>4, <3>2
      <3>4. k \in 0..n
        BY <1>1
      <3> QED
        BY <3>3, <3>4
    <2>3. Holds = 0..n
      <3> HIDE DEF Holds
      <3>1. Holds \in SUBSET (0..n)
        BY DEF Holds
      <3> QED
        BY <1>1, <2>1, <2>2, <3>1, OverParts!UpTo
    <2> HIDE DEF state
    <2> QED
      BY <2>3
  <1>6. state[0] = <<>> /\ state[n] = FlattenSeq(seqs)
    BY <1>1, <1>3
  <1> HIDE DEF state
  <1> QED
    BY <1>4, <1>5, <1>6 DEF n

----------------------------------------------------------------------------
(* One part                                                                 *)

Values == Texts \cup {part.of : part \in Parts}
Entries == [type : {"text"} \cup {part.type : part \in Parts}, of : Values]
Builts == [hf : Seq(Seq(Entries)), content : Seq(Entries), images : Seq(Values),
           info : Seq(Values), raised : BOOLEAN]

EntryOf(part) == [type |-> part.type, of |-> part.of]
ImageOf(part) == IF part.type = "image_url" THEN <<part.of>> ELSE <<>>

LEMMA PartTypes ==
    ASSUME NEW part \in Parts
    PROVE  part.of \in Values /\ EntryOf(part) \in Entries /\ ImageOf(part) \in Seq(Values)
  <1>1. part.of \in Values /\ EntryOf(part) \in Entries
    BY DEF EntryOf, Entries, Values
  <1> HIDE DEF Values
  <1>2. <<part.of>> \in Seq(Values) /\ <<>> \in Seq(Values)
    BY <1>1
  <1> QED
    BY <1>1, <1>2 DEF ImageOf

\* A part that the engine takes adds itself to the content, and if it is an image,
\* itself to both lists; one that it does not take raises.
LEMMA AddPartTells ==
    ASSUME NEW built \in Builts, NEW part \in Parts
    PROVE  LET after == AddPart(built, part)
           IN  /\ after \in Builts
               /\ after.hf = built.hf
               /\ after.raised <=> built.raised \/ ~Acceptable(part)
               /\ ~after.raised =>
                    /\ after.content = Append(built.content, EntryOf(part))
                    /\ after.images = built.images \o ImageOf(part)
                    /\ after.info = built.info \o ImageOf(part)
  <1> DEFINE after == AddPart(built, part)
             content == Append(built.content, EntryOf(part))
             shown == [built EXCEPT !.content = content]
  <1>1. /\ built.hf \in Seq(Seq(Entries)) /\ built.content \in Seq(Entries)
        /\ built.images \in Seq(Values) /\ built.info \in Seq(Values)
        /\ built.raised \in BOOLEAN
        /\ EntryOf(part) \in Entries /\ part.of \in Values
    BY PartTypes DEF Builts
  <1>2. content \in Seq(Entries)
    BY <1>1, AppendProperties
  <1> HIDE DEF content
  <1>3. /\ shown \in Builts
        /\ shown.content = content /\ shown.hf = built.hf /\ shown.images = built.images
        /\ shown.info = built.info /\ shown.raised = built.raised
    BY <1>2 DEF Builts
  <1>4. CASE built.raised \/ ~Acceptable(part)
    <2>1. after = [built EXCEPT !.raised = TRUE]
      BY <1>4 DEF AddPart
    <2>2. after \in Builts /\ after.hf = built.hf /\ after.raised = TRUE
      BY <2>1 DEF Builts
    <2> QED
      BY <1>4, <2>2
  <1>5. CASE ~built.raised /\ Acceptable(part) /\ part.type = "text"
    <2>1. after = shown
      BY <1>5 DEF AddPart, EntryOf, content
    <2>2. ImageOf(part) = <<>>
      BY <1>5 DEF ImageOf
    <2>3. built.images \o <<>> = built.images /\ built.info \o <<>> = built.info
      BY <1>1, ConcatEmptySeq
    <2> HIDE DEF after, shown
    <2> QED
      BY <1>3, <1>5, <2>1, <2>2, <2>3 DEF after, content
  <1>6. CASE ~built.raised /\ Acceptable(part) /\ part.type # "text"
    <2>1. after = DescribeImage(shown, part.of)
      BY <1>6 DEF AddPart, EntryOf, content
    <2>2. ImageOf(part) = <<part.of>>
      BY <1>6 DEF ImageOf, Acceptable
    <2> DEFINE images == Append(shown.images, part.of)
               info == Append(shown.info, part.of)
    <2>3. /\ images = built.images \o ImageOf(part) /\ images \in Seq(Values)
          /\ info = built.info \o ImageOf(part) /\ info \in Seq(Values)
      <3>1. shown.images = built.images /\ shown.info = built.info
        BY <1>3
      <3> HIDE DEF shown
      <3>2. /\ Append(built.images, part.of) = built.images \o <<part.of>>
            /\ Append(built.info, part.of) = built.info \o <<part.of>>
        BY <1>1, AppendIsConcat
      <3>3. /\ Append(built.images, part.of) \in Seq(Values)
            /\ Append(built.info, part.of) \in Seq(Values)
        BY <1>1, AppendProperties
      <3> QED
        BY <2>2, <3>1, <3>2, <3>3
    <2>4. after = [shown EXCEPT !.images = images, !.info = info]
      BY <2>1 DEF DescribeImage
    <2> HIDE DEF images, info, after, shown
    <2>5. /\ after \in Builts
          /\ after.content = content /\ after.hf = built.hf /\ after.images = images
          /\ after.info = info /\ after.raised = built.raised
      BY <1>3, <2>3, <2>4 DEF Builts
    <2> QED
      BY <1>6, <2>3, <2>5 DEF after, content
  <1> QED
    BY <1>4, <1>5, <1>6

----------------------------------------------------------------------------
(* One message                                                              *)

Contents == Texts \cup Seq(Parts)

\* Shown, ImagesOf: the reference for one message.
LEMMA ReferenceTypes ==
    ASSUME NEW content \in Contents
    PROVE  /\ Shown(content) \in Seq(Entries)
           /\ ImagesOf(content) \in Seq(Values)
  <1>1. CASE content \in Texts
    BY <1>1, EmptySeq DEF Shown, ImagesOf, Entries, Values
  <1>2. CASE content \notin Texts
    <2>1. content \in Seq(Parts) /\ DOMAIN content = 1..Len(content) /\ Len(content) \in Nat
          /\ \A i \in 1..Len(content) : content[i] \in Parts
      BY <1>2 DEF Contents
    <2>2. \A i \in 1..Len(content) :
            EntryOf(content[i]) \in Entries /\ ImageOf(content[i]) \in Seq(Values)
      BY <2>1, PartTypes
    <2>3. Shown(content) = [i \in 1..Len(content) |-> EntryOf(content[i])]
      BY <1>2, <2>1 DEF Shown, EntryOf
    <2>4. Shown(content) \in Seq(Entries)
      BY <2>1, <2>2, <2>3
    <2> DEFINE seqs == [i \in 1..Len(content) |-> ImageOf(content[i])]
    <2>5. seqs \in Seq(Seq(Values)) /\ Len(seqs) = Len(content)
      BY <2>1, <2>2
    <2>6. ImagesOf(content) = FlattenSeq(seqs)
      BY <1>2, <2>1 DEF ImagesOf, ImageOf
    <2> HIDE DEF seqs
    <2>7. PICK flat : /\ \A k \in 0..Len(seqs) : flat[k] \in Seq(Values)
                      /\ flat[Len(seqs)] = FlattenSeq(seqs)
      BY <2>5, FlattenSteps
    <2>8. FlattenSeq(seqs) \in Seq(Values)
      BY <2>1, <2>5, <2>7
    <2> QED
      BY <2>4, <2>6, <2>8
  <1> QED
    BY <1>1, <1>2

\* The inner loop.
LEMMA PartsTell ==
    ASSUME NEW start \in Builts, start.content = <<>>,
           NEW content \in Seq(Parts), content \notin Texts
    PROVE  LET after == OverParts!Fold(start, content)
           IN  /\ after \in Builts
               /\ after.hf = start.hf
               /\ after.raised <=> start.raised \/ Unusable(content)
               /\ ~after.raised =>
                    /\ after.content = Shown(content)
                    /\ after.images = start.images \o ImagesOf(content)
                    /\ after.info = start.info \o ImagesOf(content)
  <1> DEFINE n == Len(content)
             seqs == [i \in 1..n |-> ImageOf(content[i])]
  <1>1. n \in Nat /\ DOMAIN content = 1..n /\ \A i \in 1..n : content[i] \in Parts
    OBVIOUS
  <1>2. \A i \in 1..n : EntryOf(content[i]) \in Entries /\ ImageOf(content[i]) \in Seq(Values)
    BY <1>1, PartTypes
  <1>3. seqs \in Seq(Seq(Values)) /\ Len(seqs) = n
    BY <1>1, <1>2
  <1>4. \A i \in 1..n : seqs[i] = ImageOf(content[i])
    OBVIOUS
  <1>5. /\ Shown(content) = [i \in 1..n |-> EntryOf(content[i])]
        /\ ImagesOf(content) = FlattenSeq(seqs)
    BY <1>1 DEF Shown, ImagesOf, EntryOf, ImageOf
  <1> HIDE DEF n, seqs
  <1>6. PICK flat :
          /\ flat[0] = <<>>
          /\ \A k \in 0..n : flat[k] \in Seq(Values)
          /\ \A k \in 1..n : flat[k] = flat[k - 1] \o seqs[k]
          /\ flat[n] = FlattenSeq(seqs)
    <2>1. \E flat :
            /\ flat[0] = <<>>
            /\ \A k \in 0..Len(seqs) : flat[k] \in Seq(Values)
            /\ \A k \in 1..Len(seqs) : flat[k] = flat[k - 1] \o seqs[k]
            /\ flat[Len(seqs)] = FlattenSeq(seqs)
      BY <1>3, FlattenSteps
    <2> QED
      BY <1>3, <2>1
  <1>7. PICK state :
          /\ state[0] = start
          /\ \A k \in 1..n : state[k] = AddPart(state[k - 1], content[k])
          /\ state[n] = OverParts!Fold(start, content)
    BY <1>1, OverParts!FoldLeftSteps
  <1> DEFINE RightAt(k) ==
               /\ state[k] \in Builts
               /\ state[k].hf = start.hf
               /\ state[k].raised <=> start.raised \/ \E i \in 1..k : ~Acceptable(content[i])
               /\ ~state[k].raised =>
                    /\ state[k].content = [i \in 1..k |-> EntryOf(content[i])]
                    /\ state[k].images = start.images \o flat[k]
                    /\ state[k].info = start.info \o flat[k]
             Holds == {k \in 0..n : RightAt(k)}
  <1>8. RightAt(0)
    <2>1. start.images \in Seq(Values) /\ start.info \in Seq(Values)
      BY DEF Builts
    <2>2. start.images \o <<>> = start.images /\ start.info \o <<>> = start.info
      BY <2>1, ConcatEmptySeq
    <2>3. [i \in 1..0 |-> EntryOf(content[i])] = <<>> /\ 1..0 = {}
      OBVIOUS
    <2> QED
      BY <1>6, <1>7, <2>2, <2>3
  <1>9. ASSUME NEW k \in 1..n, RightAt(k - 1) PROVE RightAt(k)
    <2> DEFINE before == state[k - 1]
               part == content[k]
    <2>1. /\ before \in Builts /\ part \in Parts /\ state[k] = AddPart(before, part)
          /\ flat[k - 1] \in Seq(Values) /\ flat[k] = flat[k - 1] \o ImageOf(part)
          /\ ImageOf(part) \in Seq(Values)
      <3>1. k \in 0..n /\ k - 1 \in 0..n
        BY <1>1
      <3>2. before \in Builts
        BY <1>9
      <3> QED
        BY <1>1, <1>2, <1>4, <1>6, <1>7, <3>1, <3>2
    <2>2. /\ state[k] \in Builts
          /\ state[k].hf = before.hf
          /\ state[k].raised <=> before.raised \/ ~Acceptable(part)
          /\ ~state[k].raised =>
               /\ state[k].content = Append(before.content, EntryOf(part))
               /\ state[k].images = before.images \o ImageOf(part)
               /\ state[k].info = before.info \o ImageOf(part)
      <3> HIDE DEF before, part
      <3>1. LET after == AddPart(before, part)
            IN  /\ after \in Builts
                /\ after.hf = before.hf
                /\ after.raised <=> before.raised \/ ~Acceptable(part)
                /\ ~after.raised =>
                     /\ after.content = Append(before.content, EntryOf(part))
                     /\ after.images = before.images \o ImageOf(part)
                     /\ after.info = before.info \o ImageOf(part)
        BY <2>1, AddPartTells, Zenon
      <3> QED
        BY <2>1, <3>1, Zenon
    <2>3. (\E i \in 1..k : ~Acceptable(content[i])) <=>
             (\E i \in 1..k - 1 : ~Acceptable(content[i])) \/ ~Acceptable(content[k])
      <3>1. \A i : i \in 1..k <=> (i \in 1..k - 1 \/ i = k)
        BY <1>1
      <3> QED
        BY <3>1
    <2>4. ASSUME ~state[k].raised
          PROVE  /\ state[k].content = [i \in 1..k |-> EntryOf(content[i])]
                 /\ state[k].images = start.images \o flat[k]
                 /\ state[k].info = start.info \o flat[k]
      <3>1. /\ before.content = [i \in 1..k - 1 |-> EntryOf(content[i])]
            /\ before.images = start.images \o flat[k - 1]
            /\ before.info = start.info \o flat[k - 1]
        BY <1>9, <2>2, <2>4
      <3>2. start.images \in Seq(Values) /\ start.info \in Seq(Values)
        BY DEF Builts
      <3>3. /\ (start.images \o flat[k - 1]) \o ImageOf(part) = start.images \o flat[k]
            /\ (start.info \o flat[k - 1]) \o ImageOf(part) = start.info \o flat[k]
        <4> DEFINE more == ImageOf(part)
        <4>1. flat[k - 1] \in Seq(Values) /\ more \in Seq(Values)
              /\ flat[k] = flat[k - 1] \o more
          BY <2>1
        <4> HIDE DEF more
        <4>2. ASSUME NEW s \in Seq(Values), NEW t \in Seq(Values), NEW u \in Seq(Values)
              PROVE  (s \o t) \o u = s \o (t \o u)
          BY ConcatAssociative
        <4>3. /\ (start.images \o flat[k - 1]) \o more = start.images \o (flat[k - 1] \o more)
              /\ (start.info \o flat[k - 1]) \o more = start.info \o (flat[k - 1] \o more)
          BY <3>2, <4>1, <4>2
        <4> QED
          BY <4>1, <4>3 DEF more
      <3>4. Append(before.content, EntryOf(part)) = [i \in 1..k |-> EntryOf(content[i])]
        <4> DEFINE long == [i \in 1..k |-> EntryOf(content[i])]
        <4>1. k - 1 \in Nat /\ (k - 1) + 1 = k /\ \A i \in 1..k : i \in 1..n
          BY <1>1
        <4>2. long \in [1..k -> Entries]
          BY <1>2, <4>1
        <4>3. long[k] = EntryOf(part) /\ before.content = [i \in 1..k - 1 |-> long[i]]
          BY <3>1
        <4> HIDE DEF long, before, part
        <4>4. Append(before.content, long[k]) = long
          BY <4>1, <4>2, <4>3, AppendPlace
        <4> QED
          BY <4>3, <4>4 DEF long
      <3> QED
        BY <2>2, <2>4, <3>1, <3>3, <3>4
    <2> QED
      BY <1>9, <2>2, <2>3, <2>4
  <1>10. RightAt(n)
    <2> HIDE DEF RightAt
    <2>1. 0 \in Holds /\ Holds \in SUBSET (0..n)
      BY <1>1, <1>8
    <2>2. ASSUME NEW k \in 1..n, k - 1 \in Holds PROVE k \in Holds
      BY <1>1, <1>9, <2>2
    <2>3. Holds = 0..n
      <3> HIDE DEF Holds
      <3> QED
        BY <1>1, <2>1, <2>2, OverParts!UpTo
    <2>4. n \in Holds
      <3> HIDE DEF Holds
      <3> QED
        BY <1>1, <2>3
    <2> QED
      BY <2>4
  <1> QED
    BY <1>1, <1>5, <1>6, <1>7, <1>10 DEF Unusable

\* An iteration of the outer loop.
LEMMA AddMessageTells ==
    ASSUME NEW built \in Builts, NEW content \in Contents
    PROVE  LET after == AddMessage(built, content)
           IN  /\ after \in Builts
               /\ after.raised <=> built.raised \/ Unusable(content)
               /\ ~after.raised =>
                    /\ after.hf = Append(built.hf, Shown(content))
                    /\ after.images = built.images \o ImagesOf(content)
                    /\ after.info = built.info \o ImagesOf(content)
  <1> DEFINE after == AddMessage(built, content)
  <1>1. built.hf \in Seq(Seq(Entries)) /\ built.images \in Seq(Values)
        /\ built.info \in Seq(Values)
    BY DEF Builts
  <1>2. CASE content \in Texts
    <2>1. Shown(content) = <<[type |-> "text", of |-> content]>> /\ ImagesOf(content) = <<>>
          /\ ~Unusable(content)
      BY <1>2 DEF Shown, ImagesOf, Unusable
    <2>2. after = [built EXCEPT !.hf = Append(built.hf, Shown(content))]
      BY <1>2, <2>1 DEF AddMessage
    <2>3. Append(built.hf, Shown(content)) \in Seq(Seq(Entries))
      BY <1>1, ReferenceTypes, AppendProperties
    <2>4. built.images \o <<>> = built.images /\ built.info \o <<>> = built.info
      BY <1>1, ConcatEmptySeq
    <2> DEFINE hf == Append(built.hf, Shown(content))
    <2> HIDE DEF hf
    <2>5. /\ [built EXCEPT !.hf = hf] \in Builts
          /\ [built EXCEPT !.hf = hf].raised = built.raised
          /\ [built EXCEPT !.hf = hf].hf = hf
          /\ [built EXCEPT !.hf = hf].images = built.images
          /\ [built EXCEPT !.hf = hf].info = built.info
      BY <2>3 DEF Builts, hf
    <2> QED
      BY <2>1, <2>2, <2>4, <2>5 DEF hf
  <1>3. CASE content \notin Texts
    <2> DEFINE start == [built EXCEPT !.content = <<>>]
               filled == OverParts!Fold(start, content)
    <2>1. after = [filled EXCEPT !.hf = Append(filled.hf, filled.content)]
      BY <1>3 DEF AddMessage, OverParts!Fold, OverParts!FoldLeft, OverParts!MapThenFoldSet,
                  OverParts!Max, FoldLeft, MapThenFoldSet, Max
    <2>2. /\ start \in Builts /\ start.content = <<>> /\ start.hf = built.hf
          /\ start.images = built.images /\ start.info = built.info
          /\ start.raised = built.raised
      <3>1. <<>> \in Seq(Entries)
        BY EmptySeq
      <3> QED
        BY <3>1 DEF Builts
    <2> HIDE DEF start
    <2>3. /\ filled \in Builts
          /\ filled.hf = start.hf
          /\ filled.raised <=> start.raised \/ Unusable(content)
          /\ ~filled.raised =>
               /\ filled.content = Shown(content)
               /\ filled.images = start.images \o ImagesOf(content)
               /\ filled.info = start.info \o ImagesOf(content)
      BY <1>3, <2>2, PartsTell, Zenon DEF Contents
    <2> HIDE DEF filled
    <2> DEFINE hf == Append(filled.hf, filled.content)
    <2>4. hf \in Seq(Seq(Entries))
      <3>1. filled.hf \in Seq(Seq(Entries)) /\ filled.content \in Seq(Entries)
        BY <2>3 DEF Builts
      <3> QED
        BY <3>1, AppendProperties
    <2> HIDE DEF hf
    <2>5. /\ [filled EXCEPT !.hf = hf] \in Builts
          /\ [filled EXCEPT !.hf = hf].raised = filled.raised
          /\ [filled EXCEPT !.hf = hf].hf = hf
          /\ [filled EXCEPT !.hf = hf].images = filled.images
          /\ [filled EXCEPT !.hf = hf].info = filled.info
      BY <2>3, <2>4 DEF Builts
    <2> QED
      BY <2>1, <2>2, <2>3, <2>5 DEF hf
  <1> QED
    BY <1>2, <1>3

----------------------------------------------------------------------------
(* All messages                                                             *)

\* The outer loop: it raises if and only if a message holds a part that the engine
\* does not take; else its lists are those of the reference.
LEMMA MessagesTell ==
    ASSUME NEW messages \in Seq(Contents)
    PROVE  LET after == Built(messages)
               shown == [m \in DOMAIN messages |-> Shown(messages[m])]
               all == FlattenSeq([m \in DOMAIN messages |-> ImagesOf(messages[m])])
           IN  /\ after.raised <=> \E m \in DOMAIN messages : Unusable(messages[m])
               /\ ~after.raised => after.hf = shown /\ after.images = all /\ after.info = all
  <1> DEFINE n == Len(messages)
             empty == [hf |-> <<>>, content |-> <<>>, images |-> <<>>, info |-> <<>>,
                       raised |-> FALSE]
             seqs == [m \in 1..n |-> ImagesOf(messages[m])]
  <1>1. n \in Nat /\ DOMAIN messages = 1..n /\ \A m \in 1..n : messages[m] \in Contents
    OBVIOUS
  <1>2. \A m \in 1..n :
          Shown(messages[m]) \in Seq(Entries) /\ ImagesOf(messages[m]) \in Seq(Values)
    BY <1>1, ReferenceTypes
  <1>3. seqs \in Seq(Seq(Values)) /\ Len(seqs) = n
    BY <1>1, <1>2
  <1>4. \A m \in 1..n : seqs[m] = ImagesOf(messages[m])
    OBVIOUS
  <1>5. [m \in DOMAIN messages |-> ImagesOf(messages[m])] = seqs
    BY <1>1
  <1>6. Built(messages) = OverMessages!Fold(empty, messages)
    BY DEF Built, OverMessages!Fold, OverMessages!FoldLeft, OverMessages!MapThenFoldSet,
           OverMessages!Max, FoldLeft, MapThenFoldSet, Max
  <1>7. /\ empty \in Builts /\ empty.hf = <<>> /\ empty.images = <<>>
        /\ empty.info = <<>> /\ ~empty.raised
    <2>1. <<>> \in Seq(Entries) /\ <<>> \in Seq(Seq(Entries)) /\ <<>> \in Seq(Values)
      BY EmptySeq
    <2> QED
      BY <2>1 DEF Builts
  <1> HIDE DEF n, seqs, empty
  <1>8. PICK flat :
          /\ flat[0] = <<>>
          /\ \A k \in 0..n : flat[k] \in Seq(Values)
          /\ \A k \in 1..n : flat[k] = flat[k - 1] \o seqs[k]
          /\ flat[n] = FlattenSeq(seqs)
    <2>1. \E flat :
            /\ flat[0] = <<>>
            /\ \A k \in 0..Len(seqs) : flat[k] \in Seq(Values)
            /\ \A k \in 1..Len(seqs) : flat[k] = flat[k - 1] \o seqs[k]
            /\ flat[Len(seqs)] = FlattenSeq(seqs)
      BY <1>3, FlattenSteps
    <2> QED
      BY <1>3, <2>1
  <1>9. PICK state :
          /\ state[0] = empty
          /\ \A k \in 1..n : state[k] = AddMessage(state[k - 1], messages[k])
          /\ state[n] = OverMessages!Fold(empty, messages)
    BY <1>1, OverMessages!FoldLeftSteps
  <1> DEFINE RightAt(k) ==
               /\ state[k] \in Builts
               /\ state[k].raised <=> \E m \in 1..k : Unusable(messages[m])
               /\ ~state[k].raised =>
                    /\ state[k].hf = [m \in 1..k |-> Shown(messages[m])]
                    /\ state[k].images = flat[k]
                    /\ state[k].info = flat[k]
             Holds == {k \in 0..n : RightAt(k)}
  <1>10. RightAt(0)
    <2>1. [m \in 1..0 |-> Shown(messages[m])] = <<>> /\ 1..0 = {}
      OBVIOUS
    <2> QED
      BY <1>7, <1>8, <1>9, <2>1
  <1>11. ASSUME NEW k \in 1..n, RightAt(k - 1) PROVE RightAt(k)
    <2> DEFINE before == state[k - 1]
               content == messages[k]
    <2>1. before \in Builts /\ content \in Contents /\ state[k] = AddMessage(before, content)
      BY <1>1, <1>9, <1>11
    <2>2. flat[k] = flat[k - 1] \o ImagesOf(content)
      BY <1>4, <1>8
    <2>3. /\ state[k] \in Builts
          /\ state[k].raised <=> before.raised \/ Unusable(content)
          /\ ~state[k].raised =>
               /\ state[k].hf = Append(before.hf, Shown(content))
               /\ state[k].images = before.images \o ImagesOf(content)
               /\ state[k].info = before.info \o ImagesOf(content)
      <3> HIDE DEF before, content
      <3>1. LET after == AddMessage(before, content)
            IN  /\ after \in Builts
                /\ after.raised <=> before.raised \/ Unusable(content)
                /\ ~after.raised =>
                     /\ after.hf = Append(before.hf, Shown(content))
                     /\ after.images = before.images \o ImagesOf(content)
                     /\ after.info = before.info \o ImagesOf(content)
        BY <2>1, AddMessageTells, Zenon
      <3> QED
        BY <2>1, <3>1, Zenon
    <2>4. (\E m \in 1..k : Unusable(messages[m])) <=>
             (\E m \in 1..k - 1 : Unusable(messages[m])) \/ Unusable(messages[k])
      <3>1. \A m : m \in 1..k <=> (m \in 1..k - 1 \/ m = k)
        BY <1>1
      <3> QED
        BY <3>1
    <2>5. ASSUME ~state[k].raised
          PROVE  /\ state[k].hf = [m \in 1..k |-> Shown(messages[m])]
                 /\ state[k].images = flat[k] /\ state[k].info = flat[k]
      <3>1. /\ before.hf = [m \in 1..k - 1 |-> Shown(messages[m])]
            /\ before.images = flat[k - 1] /\ before.info = flat[k - 1]
        BY <1>11, <2>3, <2>5
      <3>2. Append(before.hf, Shown(content)) = [m \in 1..k |-> Shown(messages[m])]
        <4> DEFINE long == [m \in 1..k |-> Shown(messages[m])]
        <4>1. k - 1 \in Nat /\ (k - 1) + 1 = k /\ \A m \in 1..k : m \in 1..n
          BY <1>1
        <4>2. long \in [1..k -> Seq(Entries)]
          BY <1>2, <4>1
        <4>3. long[k] = Shown(content) /\ before.hf = [m \in 1..k - 1 |-> long[m]]
          BY <3>1
        <4> HIDE DEF long, before, content
        <4>4. Append(before.hf, long[k]) = long
          BY <4>1, <4>2, <4>3, AppendPlace
        <4> QED
          BY <4>3, <4>4 DEF long
      <3> QED
        BY <2>2, <2>3, <2>5, <3>1, <3>2
    <2> QED
      BY <2>3, <2>4, <2>5, <1>11
  <1>12. RightAt(n)
    <2> HIDE DEF RightAt
    <2>1. 0 \in Holds /\ Holds \in SUBSET (0..n)
      BY <1>1, <1>10
    <2>2. ASSUME NEW k \in 1..n, k - 1 \in Holds PROVE k \in Holds
      BY <1>1, <1>11, <2>2
    <2>3. Holds = 0..n
      <3> HIDE DEF Holds
      <3> QED
        BY <1>1, <2>1, <2>2, OverMessages!UpTo
    <2>4. n \in Holds
      <3> HIDE DEF Holds
      <3> QED
        BY <1>1, <2>3
    <2> QED
      BY <2>4
  <1> QED
    BY <1>1, <1>5, <1>6, <1>8, <1>9, <1>12

\* generate() may raise whatever it is given.  It can answer only a request that has
\* a message, a token to generate and no part that the engine refuses, and then with
\* what the reference says and nothing else (worker/inference.py:82-124,126-176).
THEOREM GenerateTells ==
    ASSUME NEW request, request.messages \in Seq(Contents)
    PROVE  Generates(request) =
             {Raised} \cup IF Takes(request) THEN {Expected(request.messages)} ELSE {}
  <1> DEFINE messages == request.messages
             built == Built(messages)
             all == FlattenSeq([m \in DOMAIN messages |-> ImagesOf(messages[m])])
             shown == [m \in DOMAIN messages |-> Shown(messages[m])]
             made == [text |-> <<built.hf, built.images>>, images |-> built.info]
             runs == messages # <<>> /\ request.max_tokens > 0 /\ ~built.raised
  <1>1. built.raised <=> BadContent(messages)
    BY MessagesTell DEF BadContent
  <1>2. ~BadContent(messages) =>
           built.hf = shown /\ built.images = all /\ built.info = all
    BY MessagesTell DEF BadContent
  <1>3. Expected(messages) = [text |-> <<shown, all>>, images |-> all]
    BY DEF Expected
  <1>4. Generates(request) = {Raised} \cup IF runs THEN {made} ELSE {}
    BY DEF Generates
  <1>5. runs <=> Takes(request)
    <2> HIDE DEF built
    <2> QED
      BY <1>1 DEF Takes
  <1>6. Takes(request) => made = Expected(messages)
    <2>1. Takes(request) => ~BadContent(messages)
      BY DEF Takes
    <2> HIDE DEF built, all, shown
    <2> QED
      BY <1>2, <1>3, <2>1
  <1> HIDE DEF messages, made, runs
  <1>7. messages = request.messages
    BY DEF messages
  <1> QED
    BY <1>4, <1>5, <1>6, <1>7

=============================================================================
