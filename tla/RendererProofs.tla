--------------------------- MODULE RendererProofs ---------------------------
(***************************************************************************)
(* Proofs about the four modules of the renderer, in four parts.           *)
(*                                                                         *)
(* VideoGeneration: the inputs are counted as the layers are prepared, and *)
(* no file that is an input of an earlier layer is written again, because  *)
(* every file of the directory is accounted for and their names differ.    *)
(*                                                                         *)
(* Timeline: division and printing keep the order of times, so that the    *)
(* parts of a layer's time meet; the text that is shown is the least one   *)
(* that has not ended.                                                     *)
(*                                                                         *)
(* BackgroundMotion: a wave stays between its bounds, and what is blended  *)
(* by a wave stays in its range.                                           *)
(*                                                                         *)
(* Overlay: the expression is a recursive function over the animations.    *)
(* There is such a function, and what holds after the last animation holds *)
(* after each.                                                             *)
(***************************************************************************)
EXTENDS Renderer, SequenceTheorems, WellFoundedInduction, TLAPS

(***************************************************************************)
(* VideoGeneration: names, layers, the order of the work, the graph, and   *)
(* then the files.                                                         *)
(***************************************************************************)

\* What names are made of: the provers do not take a literal for a STRING.
Words ==
  STRING \cup {"", "_", "1", ".png", "raw_", "shadow_", "boxbg_", "boxed_", "tmp", "n/m",
              "text_topic", "text_title", "text_carousel_item", "text_pager_item",
              "bg_preprocessed", "bg_motion.mp4", "bg_effect_", "audio", "black"}
           \cup Effects
Names == Seq(Words)

\* The last part of a name.
LastOf(f) == f[Len(f)]

\* A name of one word.
LEMMA Single ==
  ASSUME NEW x \in Words
  PROVE  <<x>> \in Names /\ Len(<<x>>) = 1 /\ <<x>>[1] = x /\ LastOf(<<x>>) = x
  <1>1. <<x>> = Append(<<>>, x)  OBVIOUS
  <1>2. <<>> \in Names /\ Len(<<>>) = 0  BY EmptySeq DEF Names
  <1>3. /\ Append(<<>>, x) \in Names /\ Len(Append(<<>>, x)) = 1
        /\ Append(<<>>, x)[1] = x
    BY <1>2, AppendProperties DEF Names
  <1> QED  BY <1>1, <1>3 DEF LastOf

\* What is appended to a name is its last word.
LEMMA AppendedTo ==
  ASSUME NEW s \in Names, NEW x \in Words
  PROVE  /\ Append(s, x) \in Names
         /\ Len(Append(s, x)) = Len(s) + 1
         /\ LastOf(Append(s, x)) = x
  <1>1. /\ Append(s, x) \in Names
        /\ Len(Append(s, x)) = Len(s) + 1
        /\ Append(s, x)[Len(s) + 1] = x
    BY AppendProperties DEF Names
  <1> QED  BY <1>1 DEF LastOf

\* Two names joined begin as the first and end as the second.
LEMMA JoinedTo ==
  ASSUME NEW s \in Names, NEW r \in Names, Len(r) > 0
  PROVE  /\ s \o r \in Names
         /\ Len(s \o r) = Len(s) + Len(r)
         /\ LastOf(s \o r) = LastOf(r)
         /\ Len(s) > 0 => (s \o r)[1] = s[1]
  <1>1. Len(s) \in Nat /\ Len(r) \in Nat  BY LenProperties DEF Names
  <1>2. /\ s \o r \in Names
        /\ Len(s \o r) = Len(s) + Len(r)
        /\ \A i \in 1..Len(s) + Len(r) :
             (s \o r)[i] = IF i <= Len(s) THEN s[i] ELSE r[i - Len(s)]
    BY ConcatProperties DEF Names
  <1>3. Len(s) + Len(r) \in 1..Len(s) + Len(r) /\ ~(Len(s) + Len(r) <= Len(s))
        /\ (Len(s) + Len(r)) - Len(s) = Len(r)
    BY <1>1
  <1>4. (s \o r)[Len(s) + Len(r)] = r[Len(r)]  BY <1>2, <1>3
  <1>5. Len(s) > 0 => 1 \in 1..Len(s) + Len(r) /\ 1 <= Len(s)  BY <1>1
  <1> QED  BY <1>2, <1>4, <1>5 DEF LastOf

\* What a drawing's name is preceded by while it is made, and without.
Prefixes == {<<>>, <<"raw_">>, <<"shadow_">>, <<"boxbg_">>, <<"boxed_">>}

\* The five files of a drawing end in .png, and the four drafts differ from the
\* drawing that is made of them.
LEMMA PngNames ==
  ASSUME NEW name \in Names, NEW pre \in Prefixes
  PROVE  /\ Png(name) \in Names
         /\ pre \o Png(name) \in Names
         /\ LastOf(pre \o Png(name)) = ".png"
         /\ pre # <<>> => pre \o Png(name) # Png(name)
         /\ <<>> \o Png(name) = Png(name)
  <1>1. Png(name) \in Names /\ Len(Png(name)) = Len(name) + 1 /\ LastOf(Png(name)) = ".png"
    BY AppendedTo DEF Png, Words
  <1>2. Len(name) \in Nat /\ Len(Png(name)) > 0  BY <1>1, LenProperties DEF Names
  <1>3. pre \in Names /\ Len(pre) \in {0, 1} /\ (pre # <<>> => Len(pre) = 1)
    <2>1. pre = <<>> => pre \in Names /\ Len(pre) = 0  BY EmptySeq DEF Names
    <2>2. pre # <<>> => \E x \in Words : pre = <<x>>  BY DEF Prefixes, Words
    <2>3. \A x \in Words : <<x>> \in Names /\ Len(<<x>>) = 1  BY Single
    <2> QED  BY <2>1, <2>2, <2>3
  <1>4. /\ pre \o Png(name) \in Names
        /\ LastOf(pre \o Png(name)) = ".png"
        /\ Len(pre \o Png(name)) = Len(pre) + Len(Png(name))
    BY <1>1, <1>2, <1>3, JoinedTo
  <1>5. pre # <<>> => pre \o Png(name) # Png(name)  BY <1>1, <1>2, <1>3, <1>4
  <1>6. <<>> \o Png(name) = Png(name)  BY <1>1, ConcatEmptySeq DEF Names
  <1> QED  BY <1>1, <1>4, <1>5, <1>6

\* A number in a name is as long as it is large.
LEMMA Numerals ==
  ASSUME NEW i \in Nat
  PROVE  Numeral(i) \in Names /\ Len(Numeral(i)) = i
         /\ (i > 0 => LastOf(Numeral(i)) = "1")
  <1>1. Numeral(i) \in [1..i -> Words]  BY DEF Numeral, Words
  <1>2. Numeral(i) \in Names  BY <1>1, SeqDef DEF Names
  <1>3. DOMAIN Numeral(i) = 1..i /\ DOMAIN Numeral(i) = 1..Len(Numeral(i)) /\ Len(Numeral(i)) \in Nat
    BY <1>1, <1>2, LenProperties DEF Names
  <1>4. Len(Numeral(i)) = i  BY <1>3
  <1>5. i > 0 => i \in 1..i  OBVIOUS
  <1> QED  BY <1>2, <1>4, <1>5 DEF LastOf, Numeral

\* The names of the downloads, one for each number.
LEMMA TempNames ==
  ASSUME NEW i \in Nat, i > 0
  PROVE  /\ TempFile(i) \in Names /\ Len(TempFile(i)) = i + 1
         /\ TempFile(i)[1] = "tmp" /\ LastOf(TempFile(i)) = "1"
  <1> DEFINE h == <<"tmp">>
  <1>1. h \in Names /\ Len(h) = 1 /\ h[1] = "tmp"
    <2>1. "tmp" \in Words  BY DEF Words
    <2> QED  BY <2>1, Single
  <1>2. Len(h) > 0 /\ Len(Numeral(i)) > 0 /\ 1 + i = i + 1  BY <1>1, Numerals
  <1> HIDE DEF h
  <1>3. TempFile(i) = h \o Numeral(i)  BY DEF TempFile, h
  <1>4. Numeral(i) \in Names /\ Len(Numeral(i)) = i /\ LastOf(Numeral(i)) = "1"
    BY Numerals
  <1>5. /\ h \o Numeral(i) \in Names
        /\ Len(h \o Numeral(i)) = Len(h) + Len(Numeral(i))
        /\ LastOf(h \o Numeral(i)) = LastOf(Numeral(i))
        /\ (h \o Numeral(i))[1] = h[1]
    <2> DEFINE r == Numeral(i)
    <2>1. r \in Names /\ Len(r) > 0  BY <1>2, <1>4
    <2> HIDE DEF r
    <2>2. /\ h \o r \in Names /\ Len(h \o r) = Len(h) + Len(r)
          /\ LastOf(h \o r) = LastOf(r) /\ (h \o r)[1] = h[1]
      BY <1>1, <1>2, <2>1, JoinedTo
    <2> QED  BY <2>2 DEF r
  <1>6. Len(h \o Numeral(i)) = i + 1  BY <1>1, <1>2, <1>4, <1>5
  <1> QED  BY <1>1, <1>3, <1>4, <1>5, <1>6

\* What is made of the images has other names than the drawings.
LEMMA NamesDiffer ==
  /\ LastOf(MotionFile) = "bg_motion.mp4" /\ MotionFile[1] = "bg_motion.mp4"
  /\ Len(MotionFile) = 1
  /\ LastOf(PreprocessedFile) = ".png" /\ PreprocessedFile[1] = "bg_preprocessed"
  /\ \A e \in Effects : EffectFile(e)[1] = "bg_effect_" /\ LastOf(EffectFile(e)) = e
                        /\ e # ".png" /\ e # "1"
  /\ AudioFile[1] = "audio" /\ LastOf(AudioFile) = "tmp"
  BY DEF LastOf, MotionFile, PreprocessedFile, EffectFile, Effects, AudioFile

\* A sequence of one.
LEMMA OneItem ==
  ASSUME NEW S, NEW x \in S
  PROVE  <<x>> \in Seq(S) /\ Len(<<x>>) = 1 /\ <<x>>[1] = x
  <1>1. <<x>> = Append(<<>>, x)  OBVIOUS
  <1>2. <<>> \in Seq(S) /\ Len(<<>>) = 0  BY EmptySeq
  <1>3. Append(<<>>, x) \in Seq(S) /\ Len(Append(<<>>, x)) = 1 /\ Append(<<>>, x)[1] = x
    BY <1>2, AppendProperties
  <1> QED  BY <1>1, <1>3

\* What the code calls its own files.
LEMMA FileNames ==
  /\ PreprocessedFile \in Names /\ MotionFile \in Names /\ AudioFile \in Names
  /\ Black \in Names /\ \A e \in Effects : EffectFile(e) \in Names
  <1>1. MotionFile \in Names /\ Black \in Names
    <2>1. "bg_motion.mp4" \in Words /\ "black" \in Words  BY DEF Words
    <2> QED  BY <2>1, Single DEF MotionFile, Black
  <1>2. \A x, y \in Words : <<x, y>> \in Names
    <2> TAKE x, y \in Words
    <2>1. <<x, y>> = Append(<<x>>, y)  OBVIOUS
    <2>2. <<x>> \in Names  BY Single
    <2> HIDE DEF Names
    <2> QED  BY <2>1, <2>2, AppendedTo
  <1>3. "bg_preprocessed" \in Words /\ ".png" \in Words /\ "audio" \in Words /\ "tmp" \in Words
        /\ "bg_effect_" \in Words /\ Effects \subseteq Words
    BY DEF Words
  <1> QED  BY <1>1, <1>2, <1>3 DEF PreprocessedFile, AudioFile, EffectFile

\* Layers as the expansion leaves them.
Shapes ==
  [name : Names, type : Words, text : Words, asset : Seq(STRING) \cup {None},
   motion : BOOLEAN, effect : STRING, shadow : BOOLEAN, box : BOOLEAN]

\* What a template calls its layers and files.
LEMMA NamesOfStrings ==
  Seq(STRING) \subseteq Names
  <1>1. STRING \subseteq Words  BY DEF Words
  <1> SUFFICES ASSUME NEW s \in Seq(STRING) PROVE s \in Names  OBVIOUS
  <1>2. s \in [1..Len(s) -> STRING] /\ Len(s) \in Nat  BY LenProperties
  <1>3. s \in [1..Len(s) -> Words]  BY <1>1, <1>2
  <1> QED  BY <1>2, <1>3, SeqDef DEF Names

\* A template's layers are among the expanded ones.
LEMMA LayersAreShapes ==
  Layers \subseteq Shapes
  <1>1. STRING \subseteq Words  BY DEF Words
  <1>2. Seq(STRING) \subseteq Names  BY NamesOfStrings
  <1> HIDE DEF Names
  <1> QED  BY <1>1, <1>2 DEF Layers, Shapes

\* The payload's fields as texts.
LEMMA PayloadTexts ==
  ASSUME payload \in Payloads, NEW f \in {"texts", "topic", "title"}
  PROVE  Field(f) \in Seq(STRING) /\ Text(f) \in Words
  <1>1. Field(f) \in Seq(STRING)
    <2>1. <<>> \in Seq(STRING)  BY EmptySeq
    <2>2. \A g \in DOMAIN payload : payload[g] \in Seq(STRING)
      BY VideoGenerationAssumption
    <2> QED  BY <2>1, <2>2 DEF Field
  <1>2. Field(f) # <<>> => Field(f)[1] \in STRING
    <2> DEFINE s == Field(f)
    <2> HIDE DEF s
    <2>1. s \in Seq(STRING) /\ s # <<>> => s[1] \in STRING
      BY EmptySeq, LenProperties, ElementOfSeq
    <2> QED  BY <1>1, <2>1 DEF s
  <1>3. STRING \subseteq Words /\ "" \in Words  BY DEF Words
  <1> QED  BY <1>1, <1>2, <1>3 DEF Text

\* The name that an item of a carousel or a pager gets.
LEMMA ItemNames ==
  ASSUME NEW l \in Shapes, NEW i \in Nat, i > 0
  PROVE  ItemName(l, i) \in Names
  <1>1. l.name \in Names  BY DEF Shapes
  <1>2. "_" \in Words  BY DEF Words
  <1>3. Append(l.name, "_") \in Names  BY <1>1, <1>2, AppendedTo
  <1>4. Numeral(i - 1) \in Names  BY Numerals
  <1> QED  BY <1>3, <1>4, ConcatProperties DEF ItemName, Names

\* The expansion turns a layer into layers, whatever its type.
LEMMA Expansions ==
  ASSUME payload \in Payloads, NEW l \in Shapes
  PROVE  Expansion(l) \in Seq(Shapes)
  <1>1. Text("topic") \in Words /\ Text("title") \in Words /\ TextsPayload \in Seq(STRING)
    BY PayloadTexts DEF TextsPayload
  <1>2. /\ "text_topic" \in Words /\ "text_title" \in Words /\ "n/m" \in Words
        /\ "text_carousel_item" \in Words /\ "text_pager_item" \in Words
    BY DEF Words
  <1> DEFINE L == Len(TextsPayload)
  <1>3. L \in Nat /\ \A i \in 1..L : TextsPayload[i] \in STRING
    BY <1>1, LenProperties, ElementOfSeq
  <1>4. \A i \in 1..L, type \in Words, text \in Words : Item(l, i, type, text) \in Shapes
    <2> TAKE i \in 1..L, type \in Words, text \in Words
    <2>1. i \in Nat /\ i > 0  BY <1>3
    <2>2. ItemName(l, i) \in Names  BY <2>1, ItemNames
    <2> HIDE DEF Names
    <2> QED  BY <2>2 DEF Item, Shapes
  <1>5. \A i \in 1..L : TextsPayload[i] \in Words  BY <1>3 DEF Words
  <1> HIDE DEF L
  <1>6. \A f \in [1..L -> Shapes] : f \in Seq(Shapes)  BY <1>3, SeqDef
  <1>7. \A m \in Shapes : <<m>> \in Seq(Shapes)  BY OneItem
  <1>8. CASE l.type = "topic"
    <2>1. [l EXCEPT !.type = "text_topic", !.text = Text("topic")] \in Shapes
      BY <1>1, <1>2 DEF Shapes
    <2>2. Expansion(l) = <<[l EXCEPT !.type = "text_topic", !.text = Text("topic")]>>
      BY <1>8 DEF Expansion
    <2> QED  BY <2>1, <2>2, <1>7
  <1>9. CASE l.type = "title"
    <2>1. [l EXCEPT !.type = "text_title", !.text = Text("title")] \in Shapes
      BY <1>1, <1>2 DEF Shapes
    <2>2. Expansion(l) = <<[l EXCEPT !.type = "text_title", !.text = Text("title")]>>
      BY <1>9 DEF Expansion
    <2> QED  BY <2>1, <2>2, <1>7
  <1>10. CASE l.type = "text_carousel"
    <2>1. Expansion(l) = [i \in 1..L |-> Item(l, i, "text_carousel_item", TextsPayload[i])]
      BY <1>10 DEF Expansion, L
    <2>2. \A i \in 1..L : Item(l, i, "text_carousel_item", TextsPayload[i]) \in Shapes
      BY <1>2, <1>4, <1>5
    <2> QED  BY <2>1, <2>2, <1>6
  <1>11. CASE l.type = "pager"
    <2>1. Expansion(l) = IF Len(TextsPayload) < 2 THEN <<>>
                         ELSE [i \in 1..L |-> Item(l, i, "text_pager_item", "n/m")]
      BY <1>11 DEF Expansion, L
    <2>2. \A i \in 1..L : Item(l, i, "text_pager_item", "n/m") \in Shapes
      BY <1>2, <1>4
    <2>3. <<>> \in Seq(Shapes)  BY EmptySeq
    <2> QED  BY <2>1, <2>2, <2>3, <1>6
  <1>12. CASE l.type \notin {"topic", "title", "text_carousel", "pager"}
    <2>1. Expansion(l) = <<l>>  BY <1>12 DEF Expansion
    <2> QED  BY <2>1, <1>7
  <1> QED  BY <1>8, <1>9, <1>10, <1>11, <1>12

\* The state's types, and how far the layers' preparation has come.
Typed ==
  /\ tmpl \in Templates /\ payload \in Payloads
  /\ k \in Nat /\ k > 0
  /\ expanded \in Seq(Shapes) /\ prepared \in Seq(Shapes)
  /\ inputs \in Seq(Names)

Known(l) == l.type \in OverlayTypes \cup {"image"}

\* In what order the work is done: nothing is prepared before all is expanded,
\* and a prepared layer of a known type has its input, one of another none.
Stages ==
  /\ pc = "expand" => prepared = <<>> /\ inputs = <<>>
  /\ pc = "prepare" =>
       /\ k <= Len(expanded) + 1
       /\ Len(prepared) + 1 = k
       /\ \A i \in 1..Len(prepared) : prepared[i] = expanded[i]
       /\ KnownTypes => Len(inputs) = Len(prepared)
       /\ Len(inputs) <= Len(prepared)
       /\ \A i \in 1..Len(prepared) :
            ~Known(prepared[i]) => Len(inputs) < Len(prepared)

\* The inductive invariant of the first theorem.
Ordered == Typed /\ Stages /\ GraphFitsInputs

LEMMA OrderedInit ==
  Init => Ordered
  <1> SUFFICES ASSUME Init PROVE Ordered  OBVIOUS
  <1>1. <<>> \in Seq(Shapes) /\ <<>> \in Seq(Names)  BY EmptySeq
  <1> QED  BY <1>1 DEF Init, Fresh, Ordered, Typed, Stages, GraphFitsInputs

LEMMA OrderedExpand ==
  ASSUME Ordered, Expand
  PROVE  Ordered'
  <1>1. /\ tmpl' = tmpl /\ payload' = payload /\ prepared' = prepared /\ inputs' = inputs
        /\ pc = "expand"
    BY DEF Expand
  <1>2. CASE Panics(tmpl.layers[k])
    <2>1. pc' = "crashed" /\ k' = k /\ expanded' = expanded  BY <1>2 DEF Expand
    <2>2. Typed'  BY <1>1, <2>1 DEF Ordered, Typed
    <2> QED  BY <2>1, <2>2 DEF Ordered, Stages, GraphFitsInputs
  <1>3. CASE ~Panics(tmpl.layers[k])
    <2> DEFINE more == Expansion(tmpl.layers[k])
    <2>1. k' = k + 1 /\ pc' = pc /\ expanded' = expanded \o more
      BY <1>3 DEF Expand
    <2>2. more \in Seq(Shapes)
      <3>1. tmpl.layers \in Seq(Layers) /\ k \in 1..Len(tmpl.layers)
        <4>1. tmpl.layers \in Seq(Layers)  BY VideoGenerationAssumption DEF Ordered, Typed
        <4>2. Len(tmpl.layers) \in Nat  BY <4>1, LenProperties
        <4> QED  BY <4>1, <4>2 DEF Ordered, Typed, Expand
      <3>2. tmpl.layers[k] \in Shapes  BY <3>1, ElementOfSeq, LayersAreShapes
      <3> QED  BY <3>2, Expansions DEF Ordered, Typed
    <2> HIDE DEF more
    <2>3. expanded \o more \in Seq(Shapes)  BY <2>2, ConcatProperties DEF Ordered, Typed
    <2>4. Typed'  BY <1>1, <2>1, <2>3 DEF Ordered, Typed
    <2> QED  BY <1>1, <2>1, <2>4 DEF Ordered, Stages, GraphFitsInputs
  <1> QED  BY <1>2, <1>3

LEMMA OrderedExpanded ==
  ASSUME Ordered, Expanded
  PROVE  Ordered'
  <1>1. /\ UNCHANGED <<tmpl, payload, expanded, prepared, inputs>>
        /\ pc = "expand" /\ pc' = "prepare" /\ k' = 1
    BY DEF Expanded
  <1>2. prepared' = <<>> /\ inputs' = <<>> /\ Len(prepared') = 0 /\ Len(inputs') = 0
    BY <1>1, EmptySeq DEF Ordered, Stages
  <1>3. Len(expanded') \in Nat  BY <1>1, LenProperties DEF Ordered, Typed
  <1>4. Typed'  BY <1>1 DEF Ordered, Typed
  <1>5. Stages'
    <2>1. \A i \in 1..Len(prepared') : FALSE  BY <1>2
    <2>2. Len(prepared') + 1 = k' /\ k' <= Len(expanded') + 1 /\ Len(inputs') = Len(prepared')
          /\ Len(inputs') <= Len(prepared')
      BY <1>1, <1>2, <1>3
    <2> QED  BY <1>1, <2>1, <2>2 DEF Stages
  <1> QED  BY <1>1, <1>4, <1>5 DEF Ordered, GraphFitsInputs

\* The layer has its input, or is of no known type.
LEMMA OrderedPrepared ==
  ASSUME Ordered, Preparing, NEW files \in Seq(Names), Prepared(files),
         Len(files) = IF Known(Layer) THEN 1 ELSE 0
  PROVE  Ordered'
  <1>1. /\ inputs' = inputs \o files /\ prepared' = Append(prepared, Layer) /\ k' = k + 1
        /\ UNCHANGED <<tmpl, payload, pc, expanded>>
        /\ pc = "prepare" /\ k <= Len(expanded)
    BY DEF Prepared, Preparing
  <1>2. Len(expanded) \in Nat /\ Len(prepared) \in Nat /\ Len(inputs) \in Nat
        /\ Len(files) \in Nat
    BY LenProperties DEF Ordered, Typed
  <1>3. k \in 1..Len(expanded) /\ Len(prepared) + 1 = k
    BY <1>1, <1>2 DEF Ordered, Typed, Stages
  <1>4. Layer \in Shapes  BY <1>3, ElementOfSeq DEF Layer, Ordered, Typed
  <1>5. /\ Append(prepared, Layer) \in Seq(Shapes)
        /\ Len(Append(prepared, Layer)) = Len(prepared) + 1
        /\ \A i \in 1..Len(prepared) : Append(prepared, Layer)[i] = prepared[i]
        /\ Append(prepared, Layer)[Len(prepared) + 1] = Layer
    BY <1>4, AppendProperties DEF Ordered, Typed
  <1>6. inputs \o files \in Seq(Names) /\ Len(inputs \o files) = Len(inputs) + Len(files)
    BY ConcatProperties DEF Ordered, Typed
  <1>7. Typed'  BY <1>1, <1>5, <1>6 DEF Ordered, Typed
  <1>8. Stages'
    <2>1. k' <= Len(expanded') + 1 /\ Len(prepared') + 1 = k'
      BY <1>1, <1>2, <1>3, <1>5
    <2>2. ASSUME NEW i \in 1..Len(prepared')  PROVE prepared'[i] = expanded'[i]
      <3>1. i \in 1..Len(prepared) \/ i = k  BY <1>1, <1>2, <1>3, <1>5
      <3>2. prepared'[k] = Layer  BY <1>1, <1>3, <1>5
      <3>3. \A j \in 1..Len(prepared) : prepared[j] = expanded[j]
        BY <1>1 DEF Ordered, Stages
      <3> QED  BY <1>1, <1>5, <3>1, <3>2, <3>3 DEF Layer
    <2>3. ASSUME KnownTypes'  PROVE Len(inputs') = Len(prepared')
      <3>1. KnownTypes  BY <1>1, <2>3 DEF KnownTypes
      <3>2. Len(inputs) = Len(prepared)  BY <1>1, <3>1 DEF Ordered, Stages
      <3>3. k \in DOMAIN expanded  BY <1>3, LenProperties DEF Ordered, Typed
      <3>4. Len(files) = 1  BY <3>1, <3>3 DEF KnownTypes, Layer, Known
      <3> QED  BY <1>1, <1>2, <1>5, <1>6, <3>2, <3>4
    <2>4. /\ Len(inputs) <= Len(prepared)
          /\ \A i \in 1..Len(prepared) :
               ~Known(prepared[i]) => Len(inputs) < Len(prepared)
      BY <1>1 DEF Ordered, Stages
    <2>5. /\ Len(inputs') = Len(inputs) + Len(files) /\ Len(prepared') = Len(prepared) + 1
          /\ Len(files) <= 1
      BY <1>1, <1>2, <1>5, <1>6
    <2>6. Len(inputs') <= Len(prepared')  BY <1>2, <2>4, <2>5
    <2>7. ASSUME NEW i \in 1..Len(prepared'), ~Known(prepared'[i])
          PROVE  Len(inputs') < Len(prepared')
      <3>1. CASE i \in 1..Len(prepared)
        <4>1. ~Known(prepared[i])  BY <1>1, <1>5, <2>7, <3>1 DEF Known
        <4> QED  BY <1>2, <2>4, <2>5, <3>1, <4>1
      <3>2. CASE i = k
        <4>1. prepared'[k] = Layer  BY <1>1, <1>3, <1>5
        <4>2. Len(files) = 0  BY <2>7, <3>2, <4>1 DEF Known
        <4> QED  BY <1>2, <2>4, <2>5, <4>2
      <3> QED  BY <1>1, <1>2, <1>3, <1>5, <3>1, <3>2
    <2>8. \A i \in 1..Len(prepared') :
            ~Known(prepared[i])' => Len(inputs') < Len(prepared')
      BY <2>7 DEF Known
    <2> QED  BY <1>1, <2>1, <2>2, <2>3, <2>6, <2>8 DEF Stages
  <1> QED  BY <1>1, <1>7, <1>8 DEF Ordered, GraphFitsInputs

LEMMA OrderedImage ==
  ASSUME Ordered, PrepareImage
  PROVE  Ordered'
  <1>1. PICK file \in {TempFile(k), MotionFile} \cup {EffectFile(e) : e \in Effects} :
          Prepared(<<file>>)
    BY DEF PrepareImage
  <1>2. file \in Names
    BY FileNames, TempNames DEF Ordered, Typed
  <1>3. <<file>> \in Seq(Names) /\ Len(<<file>>) = 1  BY <1>2, OneItem
  <1>4. Known(Layer)  BY DEF PrepareImage, Known
  <1> QED  BY <1>1, <1>3, <1>4, OrderedPrepared DEF PrepareImage

LEMMA OrderedOverlay ==
  ASSUME Ordered, PrepareOverlay
  PROVE  Ordered'
  <1>1. Prepared(<<Png(Layer.name)>>) /\ Preparing  BY DEF PrepareOverlay
  <1>2. Layer \in Shapes
    <2>1. Len(expanded) \in Nat  BY LenProperties DEF Ordered, Typed
    <2>2. k \in 1..Len(expanded)  BY <1>1, <2>1 DEF Preparing, Ordered, Typed
    <2> QED  BY <2>2, ElementOfSeq DEF Layer, Ordered, Typed
  <1>3. Png(Layer.name) \in Names
    <2>1. Layer.name \in Names  BY <1>2 DEF Shapes
    <2> QED  BY <2>1, PngNames DEF Prefixes
  <1>4. <<Png(Layer.name)>> \in Seq(Names) /\ Len(<<Png(Layer.name)>>) = 1
    BY <1>3, OneItem
  <1>5. Known(Layer)  BY DEF PrepareOverlay, Known
  <1> QED  BY <1>1, <1>4, <1>5, OrderedPrepared

LEMMA OrderedUnknown ==
  ASSUME Ordered, PrepareUnknown
  PROVE  Ordered'
  <1>1. <<>> \in Seq(Names) /\ Len(<<>>) = 0  BY EmptySeq
  <1>2. ~Known(Layer)  BY DEF PrepareUnknown, Known
  <1>3. Preparing /\ Prepared(<<>>)  BY DEF PrepareUnknown
  <1>4. Len(<<>>) = IF Known(Layer) THEN 1 ELSE 0  BY <1>1, <1>2
  <1> QED  BY <1>1, <1>3, <1>4, OrderedPrepared

LEMMA OrderedFails ==
  ASSUME Ordered, Fail
  PROVE  Ordered'
  BY DEF Fail, Ordered, Typed, Stages, GraphFitsInputs

\* A sequence of filters that has a chain without any.
Bare(s) == \E i \in DOMAIN s : s[i] = 0

\* Chains joined have the empty ones that the two had.
LEMMA BareJoin ==
  ASSUME NEW s \in Seq(Nat), NEW r \in Seq(Nat)
  PROVE  s \o r \in Seq(Nat) /\ (Bare(s \o r) <=> Bare(s) \/ Bare(r))
  <1>1. Len(s) \in Nat /\ Len(r) \in Nat /\ DOMAIN s = 1..Len(s) /\ DOMAIN r = 1..Len(r)
    BY LenProperties
  <1>2. /\ s \o r \in Seq(Nat)
        /\ Len(s \o r) = Len(s) + Len(r)
        /\ \A i \in 1..Len(s) + Len(r) :
             (s \o r)[i] = IF i <= Len(s) THEN s[i] ELSE r[i - Len(s)]
    BY ConcatProperties
  <1>3. DOMAIN (s \o r) = 1..Len(s) + Len(r)  BY <1>2, LenProperties
  <1>4. ASSUME NEW i \in 1..Len(s) + Len(r), (s \o r)[i] = 0
        PROVE  Bare(s) \/ Bare(r)
    <2>1. CASE i <= Len(s)
      <3>1. i \in DOMAIN s /\ s[i] = 0  BY <1>1, <1>2, <1>4, <2>1
      <3> QED  BY <3>1 DEF Bare
    <2>2. CASE ~(i <= Len(s))
      <3>1. i - Len(s) \in 1..Len(r)  BY <1>1, <2>2
      <3>2. i - Len(s) \in DOMAIN r /\ r[i - Len(s)] = 0  BY <1>1, <1>2, <1>4, <2>2, <3>1
      <3> QED  BY <3>2 DEF Bare
    <2> QED  BY <2>1, <2>2
  <1>5. ASSUME NEW i \in DOMAIN s, s[i] = 0  PROVE Bare(s \o r)
    <2>1. i \in 1..Len(s) + Len(r) /\ i <= Len(s)  BY <1>1
    <2> QED  BY <1>2, <1>3, <1>5, <2>1 DEF Bare
  <1>6. ASSUME NEW i \in DOMAIN r, r[i] = 0  PROVE Bare(s \o r)
    <2>1. Len(s) + i \in 1..Len(s) + Len(r) /\ ~(Len(s) + i <= Len(s))
          /\ (Len(s) + i) - Len(s) = i
      BY <1>1
    <2>2. (s \o r)[Len(s) + i] = r[i]  BY <1>2, <2>1
    <2> QED  BY <1>3, <1>6, <2>1, <2>2 DEF Bare
  <1> QED  BY <1>2, <1>3, <1>4, <1>5, <1>6 DEF Bare

\* The chains that are put together.
LEMMA BareOnes ==
  /\ <<1>> \in Seq(Nat) /\ ~Bare(<<1>>) /\ <<0>> \in Seq(Nat) /\ Bare(<<0>>)
  /\ <<>> \in Seq(Nat) /\ ~Bare(<<>>)
  /\ \A m \in Nat : [i \in 1..m |-> 1] \in Seq(Nat) /\ ~Bare([i \in 1..m |-> 1])
  <1>1. <<1>> \in Seq(Nat) /\ <<0>> \in Seq(Nat) /\ Len(<<1>>) = 1 /\ <<1>>[1] = 1
    BY OneItem
  <1>2. ~Bare(<<1>>)
    <2>1. DOMAIN <<1>> = 1..1  BY <1>1, LenProperties
    <2> QED  BY <1>1, <2>1 DEF Bare
  <1>3. <<>> \in Seq(Nat) /\ ~Bare(<<>>)
    <2>1. <<>> \in Seq(Nat) /\ Len(<<>>) = 0  BY EmptySeq
    <2>2. DOMAIN <<>> = 1..0  BY <2>1, LenProperties
    <2> QED  BY <2>1, <2>2 DEF Bare
  <1>4. ASSUME NEW m \in Nat
        PROVE  [i \in 1..m |-> 1] \in Seq(Nat) /\ ~Bare([i \in 1..m |-> 1])
    <2>1. [i \in 1..m |-> 1] \in [1..m -> Nat]  OBVIOUS
    <2>2. [i \in 1..m |-> 1] \in Seq(Nat)  BY <2>1, SeqDef
    <2> QED  BY <2>2 DEF Bare
  <1>5. Bare(<<0>>)
    <2>1. Len(<<0>>) = 1 /\ <<0>>[1] = 0  BY <1>1, OneItem
    <2>2. 1 \in DOMAIN <<0>>  BY <1>1, <2>1, LenProperties
    <2> QED  BY <2>1, <2>2 DEF Bare
  <1> QED  BY <1>1, <1>2, <1>3, <1>4, <1>5

\* A chain without a filter is the only layer's, or the plain audio's.
LEMMA ChainsAreFilled ==
  ASSUME prepared \in Seq(Shapes)
  PROVE  Bare(VideoChains \o AudioChains) <=> Len(prepared) = 1 \/ PlainAudio
  <1>1. VideoChains \in Seq(Nat) /\ (Bare(VideoChains) <=> Len(prepared) = 1)
    <2>1. CASE NoLayers
      <3>1. Len(prepared) # 1  BY <2>1, EmptySeq DEF NoLayers
      <3> QED  BY <2>1, <3>1, BareOnes DEF VideoChains
    <2>2. CASE ~NoLayers /\ Len(prepared) = 1
      <3>1. VideoChains = <<0>> \o <<1>>  BY <2>2 DEF VideoChains
      <3> QED  BY <2>2, <3>1, BareOnes, BareJoin
    <2>3. CASE ~NoLayers /\ Len(prepared) # 1
      <3>1. VideoChains = Overlays \o <<1>>  BY <2>3 DEF VideoChains
      <3>2. Len(prepared) - 1 \in Nat  BY <2>3, EmptySeq, LenProperties DEF NoLayers
      <3>3. Overlays \in Seq(Nat) /\ ~Bare(Overlays)  BY <3>2, BareOnes DEF Overlays
      <3>4. <<1>> \in Seq(Nat) /\ ~Bare(<<1>>)  BY BareOnes
      <3>5. VideoChains \in Seq(Nat) /\ ~Bare(VideoChains)
        BY <3>1, <3>3, <3>4, BareJoin
      <3> QED  BY <2>3, <3>5
    <2> QED  BY <2>1, <2>2, <2>3
  <1>2. AudioChains \in Seq(Nat) /\ (Bare(AudioChains) <=> PlainAudio)
    BY BareOnes DEF AudioChains, PlainAudio, WithAudio
  <1> QED  BY <1>1, <1>2, BareJoin

\* The black picture and the audio come after the layers' inputs, and are counted.
LEMMA OrderedAssemble ==
  ASSUME Ordered, Assemble
  PROVE  Ordered'
  <1> DEFINE black == IF NoLayers THEN <<Black>> ELSE <<>>
             audio == IF WithAudio THEN <<AudioFile>> ELSE <<>>
  <1>1. /\ inputs' = inputs \o black \o audio
        /\ graph' = [chains |-> VideoChains \o AudioChains,
                     audio |-> IF WithAudio THEN AudioInput ELSE 0]
        /\ pc = "prepare" /\ pc' = "run"
        /\ UNCHANGED <<tmpl, payload, k, expanded, prepared>>
    BY DEF Assemble
  <1>2. /\ black \in Seq(Names) /\ Len(black) = (IF NoLayers THEN 1 ELSE 0)
        /\ audio \in Seq(Names) /\ Len(audio) = (IF WithAudio THEN 1 ELSE 0)
        /\ WithAudio => audio[1] = AudioFile
    <2>1. <<>> \in Seq(Names) /\ Len(<<>>) = 0  BY EmptySeq
    <2>2. \A x \in Names : <<x>> \in Seq(Names) /\ Len(<<x>>) = 1 /\ <<x>>[1] = x  BY OneItem
    <2> QED  BY <2>1, <2>2, FileNames
  <1>3. inputs \in Seq(Names) /\ Len(inputs) \in Nat /\ Len(prepared) \in Nat
    BY LenProperties DEF Ordered, Typed
  <1> HIDE DEF black, audio
  <1>4. inputs \o black \in Seq(Names) /\ Len(inputs \o black) = Len(inputs) + Len(black)
    BY <1>2, <1>3, ConcatProperties
  <1>5. /\ inputs \o black \o audio \in Seq(Names)
        /\ Len(inputs \o black \o audio) = Len(inputs \o black) + Len(audio)
        /\ \A i \in 1..Len(inputs \o black) + Len(audio) :
             (inputs \o black \o audio)[i] =
               IF i <= Len(inputs \o black) THEN (inputs \o black)[i]
               ELSE audio[i - Len(inputs \o black)]
    <2> DEFINE s == inputs \o black
    <2>1. s \in Seq(Names) /\ audio \in Seq(Names)  BY <1>2, <1>4
    <2> HIDE DEF s
    <2>2. /\ s \o audio \in Seq(Names)
          /\ Len(s \o audio) = Len(s) + Len(audio)
          /\ \A i \in 1..Len(s) + Len(audio) :
               (s \o audio)[i] = IF i <= Len(s) THEN s[i] ELSE audio[i - Len(s)]
      BY <2>1, ConcatProperties
    <2> QED  BY <2>2 DEF s
  <1>6. Typed'  BY <1>1, <1>5 DEF Ordered, Typed
  <1>7. NoLayers => Len(prepared) = 0  BY EmptySeq DEF NoLayers
  <1>8. ASSUME KnownTypes'
        PROVE  /\ Len(inputs') = (IF NoLayers THEN 1 ELSE Len(prepared))
                                   + (IF WithAudio THEN 1 ELSE 0)
               /\ WithAudio => inputs'[graph'.audio + 1] = AudioFile
    <2>1. KnownTypes  BY <1>1, <1>8 DEF KnownTypes
    <2>2. Len(inputs) = Len(prepared)  BY <1>1, <2>1 DEF Ordered, Stages
    <2> DEFINE m == IF NoLayers THEN 1 ELSE Len(prepared)
    <2>3. Len(inputs \o black) = m  BY <1>2, <1>3, <1>4, <1>7, <2>2
    <2>4. m \in Nat  BY <1>3
    <2> HIDE DEF m
    <2>5. Len(inputs') = m + (IF WithAudio THEN 1 ELSE 0)  BY <1>1, <1>2, <1>5, <2>3
    <2>6. ASSUME WithAudio  PROVE inputs'[graph'.audio + 1] = AudioFile
      <3>1. graph'.audio = m
        BY <1>1, <2>6 DEF AudioInput, m
      <3>2. m + 1 \in 1..m + 1 /\ ~(m + 1 <= m) /\ (m + 1) - m = 1  BY <2>4
      <3>3. Len(audio) = 1  BY <1>2, <2>6
      <3>4. (inputs \o black \o audio)[m + 1] = audio[1]  BY <1>5, <2>3, <3>2, <3>3
      <3> QED  BY <1>1, <1>2, <2>6, <3>1, <3>4
    <2> QED  BY <2>5, <2>6 DEF m
  <1>9. (\E i \in DOMAIN graph'.chains : graph'.chains[i] = 0) <=> Len(prepared) = 1 \/ PlainAudio
    <2>1. graph'.chains = VideoChains \o AudioChains  BY <1>1
    <2> QED  BY <2>1, ChainsAreFilled DEF Bare, Ordered, Typed
  <1>10. /\ NoLayers' = NoLayers /\ WithAudio' = WithAudio /\ PlainAudio' = PlainAudio
         /\ Len(prepared') = Len(prepared)
    BY <1>1 DEF NoLayers, WithAudio, PlainAudio
  <1>11. ASSUME ~KnownTypes'  PROVE LastNamed' >= Len(inputs')
    <2>1. PICK i \in DOMAIN expanded : ~Known(expanded[i])
      BY <1>1, <1>11 DEF KnownTypes, Known
    <2>2. i \in 1..Len(prepared)
      <3>1. Len(expanded) \in Nat /\ DOMAIN expanded = 1..Len(expanded)
        BY LenProperties DEF Ordered, Typed
      <3>2. k > Len(expanded) /\ k <= Len(expanded) + 1 /\ Len(prepared) + 1 = k /\ k \in Nat
        BY <1>1 DEF Assemble, Ordered, Typed, Stages
      <3> QED  BY <1>3, <3>1, <3>2
    <2>3. prepared[i] = expanded[i]  BY <1>1, <2>2 DEF Ordered, Stages
    <2>4. Len(inputs) < Len(prepared)  BY <1>1, <2>1, <2>2, <2>3 DEF Ordered, Stages
    <2>5. ~NoLayers  BY <1>7, <1>3, <2>2
    <2>6. Len(inputs') = Len(inputs) + (IF WithAudio THEN 1 ELSE 0)
      BY <1>1, <1>2, <1>3, <1>4, <1>5, <2>5
    <2>7. LastNamed' = IF WithAudio THEN Len(prepared) ELSE Len(prepared) - 1
      BY <1>1, <1>10, <2>5 DEF LastNamed, AudioInput
    <2> QED  BY <1>3, <2>4, <2>6, <2>7
  <1>12. GraphFitsInputs'  BY <1>8, <1>9, <1>10, <1>11 DEF GraphFitsInputs
  <1>13. Stages'  BY <1>1 DEF Stages
  <1> QED  BY <1>6, <1>12, <1>13 DEF Ordered

\* Every step keeps the order.
LEMMA OrderedNext ==
  ASSUME Ordered, [Next]_vars
  PROVE  Ordered'
  <1>1. CASE UNCHANGED vars
    BY <1>1 DEF vars, Ordered, Typed, Stages, GraphFitsInputs, KnownTypes, NoLayers,
                WithAudio, PlainAudio, LastNamed
  <1>2. CASE Next
    <2>1. CASE Expand  BY <2>1, OrderedExpand
    <2>2. CASE Expanded  BY <2>2, OrderedExpanded
    <2>3. CASE PrepareImage  BY <2>3, OrderedImage
    <2>4. CASE PrepareOverlay  BY <2>4, OrderedOverlay
    <2>5. CASE PrepareUnknown  BY <2>5, OrderedUnknown
    <2>6. CASE PrepareFails  BY <2>6, OrderedFails DEF PrepareFails
    <2>7. CASE NothingToRender  BY <2>7, OrderedFails DEF NothingToRender
    <2>8. CASE Assemble  BY <2>8, OrderedAssemble
    <2>9. CASE AudioFails  BY <2>9, OrderedFails DEF AudioFails
    <2> QED  BY <1>2, <2>1, <2>2, <2>3, <2>4, <2>5, <2>6, <2>7, <2>8, <2>9 DEF Next
  <1> QED  BY <1>1, <1>2

\* The filter graph names every input of a template whose types are known, and
\* the audio's number is the audio's; a layer of another type makes it name an
\* input that is not there; for any templates and payloads.
THEOREM GraphIsComplete == Spec => []GraphFitsInputs
  <1>1. Ordered => GraphFitsInputs  BY DEF Ordered
  <1> QED  BY OrderedInit, OrderedNext, <1>1, PTL DEF Spec

\* A background in motion.
Moved(l) == l.name = <<"background">> /\ l.motion

\* The file that becomes the input of the i-th layer l.
OwnFile(l, i) ==
  IF l.type \in OverlayTypes THEN Png(l.name)
  ELSE IF Moved(l) /\ l.effect \in Effects THEN EffectFile(l.effect)
  ELSE IF Moved(l) THEN MotionFile ELSE TempFile(i)

\* What the i-th layer l, an image, writes.
ImageFiles(l, i) ==
  {TempFile(i)} \cup (IF Moved(l) THEN {PreprocessedFile, MotionFile} ELSE {})
  \cup {OwnFile(l, i)}

\* The names of what is made of the images differ from each other.
LEMMA ScratchDiffers ==
  ASSUME NEW i \in Nat, i > 0, NEW j \in Nat, j > 0
  PROVE  /\ TempFile(i) # PreprocessedFile /\ TempFile(i) # MotionFile
         /\ TempFile(i) # AudioFile /\ MotionFile # AudioFile
         /\ \A e \in Effects : TempFile(i) # EffectFile(e) /\ EffectFile(e) # AudioFile
         /\ i # j => TempFile(i) # TempFile(j)
  <1>1. TempFile(i)[1] = "tmp" /\ Len(TempFile(i)) = i + 1 /\ Len(TempFile(j)) = j + 1
    BY TempNames
  <1>2. i # j => i + 1 # j + 1  OBVIOUS
  <1>3. i # j => TempFile(i) # TempFile(j)  BY <1>1, <1>2
  <1>4. /\ PreprocessedFile[1] = "bg_preprocessed" /\ MotionFile[1] = "bg_motion.mp4"
        /\ AudioFile[1] = "audio" /\ \A e \in Effects : EffectFile(e)[1] = "bg_effect_"
    BY NamesDiffer
  <1>5. /\ TempFile(i) # PreprocessedFile /\ TempFile(i) # MotionFile
        /\ TempFile(i) # AudioFile /\ MotionFile # AudioFile
    BY <1>1, <1>4
  <1>6. \A e \in Effects : TempFile(i) # EffectFile(e) /\ EffectFile(e) # AudioFile
    BY <1>1, <1>4
  <1> QED  BY <1>3, <1>5, <1>6

\* A drawing's name is no name of what is made of the images, one apart.
LEMMA DrawingsDiffer ==
  ASSUME NEW l \in Shapes, NEW i \in Nat, i > 0
  PROVE  /\ Png(l.name) \in FilesOf(l)
         /\ \A f \in FilesOf(l) :
              /\ f # TempFile(i) /\ f # MotionFile /\ f # AudioFile
              /\ \A e \in Effects : f # EffectFile(e)
  <1>1. l.name \in Names  BY DEF Shapes
  <1>2. <<>> \o Png(l.name) = Png(l.name)  BY <1>1, PngNames DEF Prefixes
  <1>3. \A f \in FilesOf(l) : LastOf(f) = ".png"
    BY <1>1, PngNames DEF FilesOf, Prefixes
  <1>4. LastOf(TempFile(i)) = "1"  BY TempNames
  <1>5. /\ LastOf(MotionFile) = "bg_motion.mp4" /\ LastOf(AudioFile) = "tmp"
        /\ \A e \in Effects : LastOf(EffectFile(e)) = e /\ e # ".png"
    BY NamesDiffer
  <1>6. Png(l.name) \in FilesOf(l)  BY <1>2 DEF FilesOf
  <1>7. \A f \in FilesOf(l) : f # TempFile(i) /\ f # MotionFile /\ f # AudioFile
    BY <1>3, <1>4, <1>5
  <1>8. \A f \in FilesOf(l), e \in Effects : f # EffectFile(e)  BY <1>3, <1>5
  <1> QED  BY <1>6, <1>7, <1>8

\* An image overwrites no earlier layer's input.
LEMMA ImageSparesOthers ==
  ASSUME expanded \in Seq(Shapes), KnownTypes, NamesApart,
         NEW i \in 1..Len(expanded), NEW j \in 1..Len(expanded), i # j,
         expanded[j].type = "image"
  PROVE  OwnFile(expanded[i], i) \notin ImageFiles(expanded[j], j)
  <1> DEFINE l == expanded[i]
             m == expanded[j]
  <1>1. /\ i \in DOMAIN expanded /\ j \in DOMAIN expanded
        /\ i \in Nat /\ i > 0 /\ j \in Nat /\ j > 0
        /\ l \in Shapes /\ m \in Shapes
    BY LenProperties, ElementOfSeq
  <1>2. l.name # m.name  BY <1>1 DEF NamesApart
  <1>3. l.type \in OverlayTypes \/ l.type = "image"  BY <1>1 DEF KnownTypes
  <1>4. l.type \in OverlayTypes => PreprocessedFile \notin FilesOf(l)
    BY <1>1 DEF NamesApart, Drawn
  <1>5. m.type \notin OverlayTypes  BY TypesAssumption DEF OverlayTypes, TextTypes
  <1> HIDE DEF l, m
  <1>6. ImageFiles(m, j) \subseteq {TempFile(j), PreprocessedFile, MotionFile}
                                     \cup {EffectFile(e) : e \in Effects}
    BY <1>5 DEF ImageFiles, OwnFile
  <1>7. ~Moved(m) => ImageFiles(m, j) = {TempFile(j)}
    BY <1>5 DEF ImageFiles, OwnFile
  <1>8. CASE l.type \in OverlayTypes
    <2>1. OwnFile(l, i) = Png(l.name)  BY <1>8 DEF OwnFile
    <2>2. /\ Png(l.name) \in FilesOf(l)
          /\ \A f \in FilesOf(l) : f # TempFile(j) /\ f # MotionFile
                                   /\ \A e \in Effects : f # EffectFile(e)
      BY <1>1, DrawingsDiffer
    <2> QED  BY <1>4, <1>6, <1>8, <2>1, <2>2 DEF l, m
  <1>9. CASE l.type \notin OverlayTypes /\ ~Moved(l)
    <2>1. OwnFile(l, i) = TempFile(i)  BY <1>9 DEF OwnFile
    <2> QED  BY <1>1, <1>6, <2>1, ScratchDiffers DEF l, m
  <1>10. CASE l.type \notin OverlayTypes /\ Moved(l)
    <2>1. OwnFile(l, i) \in {MotionFile} \cup {EffectFile(e) : e \in Effects}
      BY <1>10 DEF OwnFile
    <2>2. ~Moved(m)  BY <1>2, <1>10 DEF Moved
    <2> QED  BY <1>1, <1>7, <2>1, <2>2, ScratchDiffers DEF l, m
  <1> QED  BY <1>8, <1>9, <1>10

\* A drawing overwrites no earlier layer's input.
LEMMA DrawingSparesOthers ==
  ASSUME expanded \in Seq(Shapes), KnownTypes, NamesApart,
         NEW i \in 1..Len(expanded), NEW j \in 1..Len(expanded), i # j,
         expanded[j].type \in OverlayTypes
  PROVE  OwnFile(expanded[i], i) \notin FilesOf(expanded[j])
  <1> DEFINE l == expanded[i]
             m == expanded[j]
  <1>1. /\ i \in DOMAIN expanded /\ j \in DOMAIN expanded
        /\ i \in Nat /\ i > 0 /\ l \in Shapes /\ m \in Shapes
    BY LenProperties, ElementOfSeq
  <1>2. l.type \in OverlayTypes => FilesOf(l) \cap FilesOf(m) = {}
    BY <1>1 DEF NamesApart, Drawn
  <1>3. m.type \in OverlayTypes  OBVIOUS
  <1> HIDE DEF l, m
  <1>4. CASE l.type \in OverlayTypes
    <2>1. OwnFile(l, i) \in FilesOf(l)  BY <1>1, <1>4, DrawingsDiffer DEF OwnFile
    <2> QED  BY <1>2, <1>4, <2>1 DEF l, m
  <1>5. CASE l.type \notin OverlayTypes
    <2>1. OwnFile(l, i) \in {TempFile(i), MotionFile} \cup {EffectFile(e) : e \in Effects}
      BY <1>5 DEF OwnFile
    <2>2. \A f \in FilesOf(m) : f # TempFile(i) /\ f # MotionFile
                                /\ \A e \in Effects : f # EffectFile(e)
      BY <1>1, DrawingsDiffer
    <2> QED  BY <2>1, <2>2 DEF l, m
  <1> QED  BY <1>4, <1>5

\* What a drawing is made in before it gets its name.
Drafts(l) == {pre \o Png(l.name) : pre \in Prefixes \ {<<>>}}

\* The drafts of a drawing: at least one, and none of them the drawing.
LEMMA Dressings ==
  ASSUME NEW l \in Shapes
  PROVE  /\ Dressing(l) \in Seq(Drafts(l)) /\ Len(Dressing(l)) \in DOMAIN Dressing(l)
         /\ Drafts(l) \subseteq FilesOf(l) /\ Png(l.name) \notin Drafts(l)
  <1> DEFINE D == Drafts(l)
             raw == RawFile(l)
             shadow == <<"shadow_">> \o Png(l.name)
             boxbg == <<"boxbg_">> \o Png(l.name)
             boxed == <<"boxed_">> \o Png(l.name)
             s == IF l.shadow THEN <<shadow>> ELSE <<>>
             b == IF l.box /\ l.type \in TextTypes THEN <<boxbg, boxed>> ELSE <<>>
  <1>1. /\ <<"raw_">> # <<>> /\ <<"shadow_">> # <<>> /\ <<"boxbg_">> # <<>> /\ <<"boxed_">> # <<>>
    OBVIOUS
  <1>2. raw \in D /\ shadow \in D /\ boxbg \in D /\ boxed \in D
    BY <1>1 DEF Drafts, Prefixes, RawFile
  <1>3. D \subseteq FilesOf(l)  BY DEF Drafts, FilesOf, Prefixes
  <1>4. Png(l.name) \notin D
    <2>1. l.name \in Names  BY DEF Shapes
    <2>2. \A pre \in Prefixes : pre # <<>> => pre \o Png(l.name) # Png(l.name)
      BY <2>1, PngNames
    <2> QED  BY <2>2 DEF Drafts
  <1>5. Dressing(l) = <<raw>> \o s \o b  BY DEF Dressing
  <1> HIDE DEF D, raw, shadow, boxbg, boxed
  <1>6. <<raw>> \in Seq(D) /\ Len(<<raw>>) = 1  BY <1>2, OneItem
  <1>7. s \in Seq(D)  BY <1>2, OneItem, EmptySeq
  <1>8. b \in Seq(D)
    <2>1. <<boxbg>> \in Seq(D)  BY <1>2, OneItem
    <2>2. <<boxbg, boxed>> = Append(<<boxbg>>, boxed)  OBVIOUS
    <2>3. <<boxbg, boxed>> \in Seq(D)  BY <1>2, <2>1, <2>2, AppendProperties
    <2> QED  BY <2>3, EmptySeq
  <1> HIDE DEF s, b
  <1>9. <<raw>> \o s \in Seq(D) /\ Len(<<raw>> \o s) = 1 + Len(s)
    BY <1>6, <1>7, ConcatProperties
  <1>10. (<<raw>> \o s) \o b \in Seq(D) /\ Len((<<raw>> \o s) \o b) = Len(<<raw>> \o s) + Len(b)
    <2> DEFINE r == <<raw>> \o s
    <2>1. r \in Seq(D)  BY <1>9
    <2> HIDE DEF r
    <2>2. r \o b \in Seq(D) /\ Len(r \o b) = Len(r) + Len(b)  BY <1>8, <2>1, ConcatProperties
    <2> QED  BY <2>2 DEF r
  <1>11. Len(s) \in Nat /\ Len(b) \in Nat  BY <1>7, <1>8, LenProperties
  <1>12. Len((<<raw>> \o s) \o b) > 0 /\ Len((<<raw>> \o s) \o b) \in Nat
    BY <1>9, <1>10, <1>11
  <1>13. DOMAIN ((<<raw>> \o s) \o b) = 1..Len((<<raw>> \o s) \o b)  BY <1>10, LenProperties
  <1> QED  BY <1>3, <1>4, <1>5, <1>10, <1>12, <1>13 DEF D

\* A drawing leaves the picture behind, and nothing else but drafts changes.
LEMMA Drawings ==
  ASSUME NEW l \in Shapes, NEW d
  PROVE  LET e == Element(l, d)
             D == Drawing(l, d)
         IN  /\ Png(l.name) \in DOMAIN D
             /\ D[Png(l.name)] = Holds(l, e.asset)
             /\ \A f \in DOMAIN D \ FilesOf(l) : f \in DOMAIN e.files
             /\ \A f \in DOMAIN e.files \ FilesOf(l) : f \in DOMAIN D /\ D[f] = e.files[f]
  <1> DEFINE e == Element(l, d)
             steps == Dressing(l)
             last == steps[Len(steps)]
             made == {steps[i] : i \in DOMAIN steps} \cup {Png(l.name)}
             drawn == Written(e.files, made, Holds(l, e.asset))
  <1>1. Drawing(l, d) = [f \in DOMAIN drawn \ {last} |-> drawn[f]]  BY DEF Drawing
  <1>2. \A i \in DOMAIN steps : steps[i] \in Drafts(l)
    <2> SUFFICES ASSUME NEW i \in DOMAIN steps PROVE steps[i] \in Drafts(l)  OBVIOUS
    <2>1. steps \in Seq(Drafts(l))  BY Dressings
    <2>2. i \in 1..Len(steps)  BY <2>1, LenProperties
    <2> QED  BY <2>1, <2>2, ElementOfSeq
  <1>3. last \in Drafts(l) /\ last # Png(l.name)  BY <1>2, Dressings
  <1>4. Png(l.name) \in made /\ made \subseteq FilesOf(l) /\ last \in FilesOf(l)
    BY <1>2, <1>3, Dressings, DrawingsDiffer
  <1> HIDE DEF e, last, made
  <1>5. DOMAIN drawn = DOMAIN e.files \cup made
        /\ \A f \in DOMAIN drawn : drawn[f] = IF f \in made THEN Holds(l, e.asset) ELSE e.files[f]
    BY DEF Written
  <1> HIDE DEF drawn
  <1>6. Png(l.name) \in DOMAIN drawn \ {last} /\ drawn[Png(l.name)] = Holds(l, e.asset)
    BY <1>3, <1>4, <1>5
  <1>7. \A f \in DOMAIN drawn \ FilesOf(l) : f \in DOMAIN e.files
    BY <1>4, <1>5
  <1>8. \A f \in DOMAIN e.files \ FilesOf(l) : f \in DOMAIN drawn \ {last} /\ drawn[f] = e.files[f]
    BY <1>4, <1>5
  <1> DEFINE D == [f \in DOMAIN drawn \ {last} |-> drawn[f]]
  <1>9. DOMAIN D = DOMAIN drawn \ {last} /\ \A f \in DOMAIN drawn \ {last} : D[f] = drawn[f]
    OBVIOUS
  <1> HIDE DEF D
  <1>10. D = Drawing(l, d)  BY <1>1 DEF D
  <1>11. /\ Png(l.name) \in DOMAIN D /\ D[Png(l.name)] = Holds(l, e.asset)
         /\ \A f \in DOMAIN D \ FilesOf(l) : f \in DOMAIN e.files
         /\ \A f \in DOMAIN e.files \ FilesOf(l) : f \in DOMAIN D /\ D[f] = e.files[f]
    BY <1>6, <1>7, <1>8, <1>9
  <1> QED  BY <1>10, <1>11 DEF e

\* A file of the directory was made for an image, for a drawing of an
\* earlier layer or of its asset.
Accounted(f) ==
  \/ f \in Scratch
  \/ \E j \in 1..Len(prepared) :
       \/ j \in Drawn /\ f \in FilesOf(expanded[j])
       \/ j \in Fetched /\ f = Base(expanded[j].asset) /\ disk[f].asset = expanded[j].asset

\* The i-th layer's picture is its input.
Shown(i) ==
  LET l == expanded[i]
      f == OwnFile(l, i)
  IN  /\ inputs[i] = f /\ f \in DOMAIN disk
      /\ disk[f].of = l.name /\ disk[f].asset \in {l.asset, None}

\* Every layer so far is shown, and no file of the directory is unaccounted
\* for: with Ordered this is the inductive invariant.
Kept ==
  /\ pc = "expand" => disk = <<>>
  /\ pc = "prepare" /\ KnownTypes /\ NamesApart =>
       /\ \A i \in 1..Len(prepared) : Shown(i)
       /\ \A f \in DOMAIN disk : Accounted(f)

\* An element's asset is the layer's own, fetched now or before.
LEMMA Elements ==
  ASSUME Ordered, Kept, Preparing, KnownTypes, NamesApart, Layer.type \in OverlayTypes
  PROVE  LET e == Element(Layer, disk)
         IN  /\ e.asset \in {Layer.asset, None}
             /\ \A f \in DOMAIN disk : f \in DOMAIN e.files /\ e.files[f] = disk[f]
             /\ \A f \in DOMAIN e.files \ DOMAIN disk :
                  Layer.asset # None /\ f = Base(Layer.asset) /\ e.files[f].asset = Layer.asset
  <1> DEFINE b == Base(Layer.asset)
             e == Element(Layer, disk)
  <1>1. CASE Layer.asset = None
    <2>1. e = [files |-> disk, asset |-> None]  BY <1>1 DEF Element
    <2>2. e.files = disk /\ e.asset = None  BY <2>1
    <2> HIDE DEF e
    <2> QED  BY <2>2 DEF e
  <1>2. CASE Layer.asset # None /\ b \in DOMAIN disk
    <2>1. Fetch(Layer.asset, disk) = disk  BY <1>2 DEF Fetch
    <2>2. e = [files |-> disk, asset |-> disk[b].asset]  BY <1>2, <2>1 DEF Element
    <2>3. e.files = disk /\ e.asset = disk[b].asset  BY <2>2
    <2>4. k \in DOMAIN expanded /\ k \in 1..Len(expanded) /\ DOMAIN expanded = 1..Len(expanded)
          /\ Len(prepared) + 1 = k /\ Len(prepared) \in Nat
      <3>1. Len(expanded) \in Nat /\ DOMAIN expanded = 1..Len(expanded) /\ Len(prepared) \in Nat
        BY LenProperties DEF Ordered, Typed
      <3> QED  BY <3>1 DEF Preparing, Ordered, Typed, Stages
    <2>5. k \in Drawn /\ k \in Fetched  BY <1>2, <2>4 DEF Drawn, Fetched, Layer
    <2>6. Accounted(b)  BY <1>2 DEF Kept, Preparing
    <2>7. b \notin Scratch /\ \A j \in Drawn : k # j => b \notin FilesOf(expanded[j])
      BY <2>5 DEF NamesApart, Layer
    <2>8. \A j \in 1..Len(prepared) : j # k  BY <2>4
    <2>9. PICK j \in 1..Len(prepared) :
             j \in Fetched /\ b = Base(expanded[j].asset) /\ disk[b].asset = expanded[j].asset
      BY <2>6, <2>7, <2>8 DEF Accounted
    <2>10. expanded[j].asset = Layer.asset  BY <2>5, <2>9 DEF NamesApart, Layer
    <2> HIDE DEF e
    <2> QED  BY <2>3, <2>9, <2>10 DEF e
  <1>3. CASE Layer.asset # None /\ b \notin DOMAIN disk
    <2> DEFINE w == Written(disk, {b}, Download(Layer.asset))
    <2>1. Fetch(Layer.asset, disk) = w  BY <1>3 DEF Fetch
    <2>2. e = [files |-> w, asset |-> w[b].asset]  BY <1>3, <2>1 DEF Element
    <2>3. DOMAIN w = DOMAIN disk \cup {b} /\ w[b] = Download(Layer.asset)
          /\ \A f \in DOMAIN disk : w[f] = disk[f]
      BY <1>3 DEF Written
    <2>4. Download(Layer.asset).asset = Layer.asset  BY DEF Download
    <2> HIDE DEF w
    <2>5. e.files = w /\ e.asset = w[b].asset  BY <2>2
    <2> HIDE DEF e
    <2> QED  BY <1>3, <2>3, <2>4, <2>5 DEF e
  <1> QED  BY <1>1, <1>2, <1>3

\* The next layer is the one after those prepared.
LEMMA Bounds ==
  ASSUME Ordered, Preparing
  PROVE  /\ DOMAIN expanded = 1..Len(expanded) /\ Len(expanded) \in Nat
         /\ Len(prepared) \in Nat /\ Len(prepared) + 1 = k
         /\ k \in 1..Len(expanded) /\ Layer \in Shapes
         /\ \A i \in 1..Len(prepared) : i \in 1..Len(expanded) /\ i # k
  <1>1. DOMAIN expanded = 1..Len(expanded) /\ Len(expanded) \in Nat /\ Len(prepared) \in Nat
    BY LenProperties DEF Ordered, Typed
  <1>2. Len(prepared) + 1 = k /\ k \in 1..Len(expanded)
    BY <1>1 DEF Ordered, Typed, Stages, Preparing
  <1>3. Layer \in Shapes  BY <1>2, ElementOfSeq DEF Layer, Ordered, Typed
  <1>4. \A i \in 1..Len(prepared) : i \in 1..Len(expanded) /\ i # k  BY <1>1, <1>2
  <1> QED  BY <1>1, <1>2, <1>3, <1>4

\* The next layer is shown and the earlier ones are spared.
LEMMA KeptPrepared ==
  ASSUME Ordered, Kept, Preparing, KnownTypes, NamesApart,
         NEW file \in Names, Prepared(<<file>>),
         file = OwnFile(Layer, k), file \in DOMAIN disk',
         disk'[file].of = Layer.name, disk'[file].asset \in {Layer.asset, None},
         \A i \in 1..Len(prepared) :
           LET f == OwnFile(expanded[i], i)
           IN  f \in DOMAIN disk' /\ disk'[f] = disk[f],
         \A f \in DOMAIN disk' :
           \/ f \in Scratch
           \/ k \in Drawn /\ f \in FilesOf(Layer)
           \/ k \in Fetched /\ f = Base(Layer.asset) /\ disk'[f].asset = Layer.asset
           \/ f \in DOMAIN disk /\ disk'[f] = disk[f]
  PROVE  Kept'
  <1>1. /\ inputs' = inputs \o <<file>> /\ prepared' = Append(prepared, Layer) /\ k' = k + 1
        /\ pc = "prepare" /\ pc' = "prepare" /\ expanded' = expanded
    BY DEF Prepared, Preparing
  <1>2. Len(prepared) \in Nat /\ Len(prepared) + 1 = k /\ Len(inputs) = Len(prepared)
    BY Bounds DEF Preparing, Ordered, Stages
  <1>3. Len(prepared') = k
    BY <1>1, <1>2, AppendProperties, Bounds DEF Ordered, Typed
  <1>4. /\ \A i \in 1..Len(prepared) : inputs'[i] = inputs[i]
        /\ inputs'[k] = file
    <2>1. <<file>> \in Seq(Names) /\ Len(<<file>>) = 1 /\ <<file>>[1] = file  BY OneItem
    <2>2. \A i \in 1..Len(inputs) + 1 :
            (inputs \o <<file>>)[i] = IF i <= Len(inputs) THEN inputs[i]
                                      ELSE <<file>>[i - Len(inputs)]
      BY <2>1, ConcatProperties DEF Ordered, Typed
    <2>3. /\ \A i \in 1..Len(prepared) : i \in 1..Len(inputs) + 1 /\ i <= Len(inputs)
          /\ k \in 1..Len(inputs) + 1 /\ ~(k <= Len(inputs)) /\ k - Len(inputs) = 1
      BY <1>2
    <2> QED  BY <1>1, <2>1, <2>2, <2>3
  <1>5. ASSUME NEW i \in 1..Len(prepared')  PROVE Shown(i)'
    <2>1. CASE i = k
      <3>1. expanded'[i] = Layer  BY <1>1, <2>1 DEF Layer
      <3> QED  BY <1>1, <1>4, <2>1, <3>1 DEF Shown
    <2>2. CASE i # k
      <3>1. i \in 1..Len(prepared)  BY <1>2, <1>3, <2>2
      <3>2. Shown(i)  BY <1>1, <3>1 DEF Kept
      <3>3. inputs'[i] = inputs[i]  BY <1>4, <3>1
      <3>4. OwnFile(expanded[i], i) \in DOMAIN disk'
            /\ disk'[OwnFile(expanded[i], i)] = disk[OwnFile(expanded[i], i)]
        BY <3>1
      <3> QED  BY <1>1, <3>2, <3>3, <3>4 DEF Shown
    <2> QED  BY <2>1, <2>2
  <1>6. ASSUME NEW f \in DOMAIN disk'  PROVE Accounted(f)'
    <2>1. /\ Scratch' = Scratch /\ Drawn' = Drawn /\ Fetched' = Fetched
          /\ k \in 1..Len(prepared') /\ \A j \in 1..Len(prepared) : j \in 1..Len(prepared')
      BY <1>1, <1>2, <1>3 DEF Scratch, Drawn, Fetched
    <2>2. CASE f \in Scratch  BY <2>1, <2>2 DEF Accounted
    <2>3. CASE k \in Drawn /\ f \in FilesOf(Layer)
      BY <1>1, <2>1, <2>3 DEF Accounted, Layer
    <2>4. CASE k \in Fetched /\ f = Base(Layer.asset) /\ disk'[f].asset = Layer.asset
      BY <1>1, <2>1, <2>4 DEF Accounted, Layer
    <2>5. CASE f \in DOMAIN disk /\ disk'[f] = disk[f]
      <3>1. Accounted(f)  BY <1>1, <2>5 DEF Kept
      <3> QED  BY <1>1, <2>1, <2>5, <3>1 DEF Accounted
    <2> QED  BY <2>2, <2>3, <2>4, <2>5
  <1> QED  BY <1>1, <1>5, <1>6 DEF Kept

\* The steps of the preparation, one by one.
LEMMA KeptImage ==
  ASSUME Ordered, Kept, PrepareImage
  PROVE  Kept'
  <1>1. Preparing /\ Layer.type = "image" /\ Layer.type \notin OverlayTypes
    BY TypesAssumption DEF PrepareImage, OverlayTypes, TextTypes
  <1>2. /\ disk' = Written(disk, ImageFiles(Layer, k), Holds(Layer, Layer.asset))
        /\ Prepared(<<OwnFile(Layer, k)>>)
    BY <1>1 DEF PrepareImage, ImageFiles, OwnFile, Moved
  <1>3. /\ pc = "prepare" /\ pc' = "prepare" /\ expanded' = expanded
    BY <1>1, <1>2 DEF Preparing, Prepared
  <1>4. ASSUME KnownTypes, NamesApart  PROVE Kept'
    <2> DEFINE file == OwnFile(Layer, k)
    <2>1. k \in 1..Len(expanded) /\ k \in Nat /\ k > 0 /\ k \in DOMAIN expanded
          /\ \A i \in 1..Len(prepared) : i \in 1..Len(expanded) /\ i # k
      BY <1>1, Bounds
    <2>2. file \in Names  BY <1>1, <2>1, FileNames, TempNames DEF OwnFile
    <2>3. file \in ImageFiles(Layer, k)  BY DEF ImageFiles
    <2>4. ImageFiles(Layer, k) \subseteq Scratch
      BY <1>1, <2>1 DEF ImageFiles, OwnFile, Scratch
    <2>5. /\ DOMAIN disk' = DOMAIN disk \cup ImageFiles(Layer, k)
          /\ \A f \in ImageFiles(Layer, k) : disk'[f] = Holds(Layer, Layer.asset)
          /\ \A f \in DOMAIN disk \ ImageFiles(Layer, k) : disk'[f] = disk[f]
      BY <1>2 DEF Written
    <2>6. disk'[file].of = Layer.name /\ disk'[file].asset = Layer.asset
      BY <2>3, <2>5 DEF Holds
    <2>7. ASSUME NEW i \in 1..Len(prepared)
          PROVE  LET f == OwnFile(expanded[i], i)
                 IN  f \in DOMAIN disk' /\ disk'[f] = disk[f]
      <3>1. Shown(i)  BY <1>3, <1>4 DEF Kept
      <3>2. OwnFile(expanded[i], i) \in DOMAIN disk  BY <3>1 DEF Shown
      <3>3. OwnFile(expanded[i], i) \notin ImageFiles(Layer, k)
        BY <1>1, <1>4, <2>1, ImageSparesOthers DEF Layer, Ordered, Typed
      <3> QED  BY <2>5, <3>2, <3>3
    <2>8. \A f \in DOMAIN disk' : f \in Scratch \/ (f \in DOMAIN disk /\ disk'[f] = disk[f])
      BY <2>4, <2>5
    <2>9. file \in DOMAIN disk'  BY <2>3, <2>5
    <2> HIDE DEF file
    <2>10. file = OwnFile(Layer, k) /\ Prepared(<<file>>)  BY <1>2 DEF file
    <2> QED  BY <1>1, <1>4, <2>2, <2>6, <2>7, <2>8, <2>9, <2>10, KeptPrepared
  <1>5. (KnownTypes' <=> KnownTypes) /\ (NamesApart' <=> NamesApart)
    BY <1>3 DEF KnownTypes, NamesApart, Drawn, Fetched, Scratch
  <1> QED  BY <1>3, <1>4, <1>5 DEF Kept

LEMMA KeptOverlay ==
  ASSUME Ordered, Kept, PrepareOverlay
  PROVE  Kept'
  <1> DEFINE file == Png(Layer.name)
             e == Element(Layer, disk)
  <1>1. Preparing /\ Layer.type \in OverlayTypes /\ Prepared(<<file>>)
        /\ disk' = IF Empty(Layer) THEN Written(disk, {file}, Holds(Layer, None))
                   ELSE Drawing(Layer, disk)
    BY DEF PrepareOverlay
  <1>2. pc = "prepare" /\ pc' = "prepare" /\ expanded' = expanded
    BY <1>1 DEF Preparing, Prepared
  <1>3. ASSUME KnownTypes, NamesApart  PROVE Kept'
    <2>1. k \in 1..Len(expanded) /\ k \in Nat /\ k > 0 /\ k \in DOMAIN expanded
          /\ Layer \in Shapes /\ \A i \in 1..Len(prepared) : i \in 1..Len(expanded) /\ i # k
      BY <1>1, Bounds
    <2>2. file \in Names /\ file \in FilesOf(Layer)
      <3>1. Layer.name \in Names  BY <2>1 DEF Shapes
      <3> QED  BY <2>1, <3>1, PngNames, DrawingsDiffer DEF Prefixes
    <2>3. file = OwnFile(Layer, k)  BY <1>1 DEF OwnFile
    <2>4. k \in Drawn /\ (Layer.asset # None => k \in Fetched)
      BY <1>1, <2>1 DEF Drawn, Fetched, Layer
    <2>5. /\ file \in DOMAIN disk' /\ disk'[file].of = Layer.name
          /\ disk'[file].asset \in {Layer.asset, None}
          /\ \A f \in DOMAIN disk \ FilesOf(Layer) : f \in DOMAIN disk' /\ disk'[f] = disk[f]
          /\ \A f \in DOMAIN disk' \ FilesOf(Layer) :
               f \in DOMAIN disk
               \/ (Layer.asset # None /\ f = Base(Layer.asset)
                   /\ disk'[f].asset = Layer.asset)
      <3>1. CASE Empty(Layer)
        <4>1. disk' = Written(disk, {file}, Holds(Layer, None))  BY <1>1, <3>1
        <4>2. /\ DOMAIN disk' = DOMAIN disk \cup {file} /\ disk'[file] = Holds(Layer, None)
              /\ \A f \in DOMAIN disk \ {file} : disk'[f] = disk[f]
          BY <4>1 DEF Written
        <4> QED  BY <2>2, <4>2 DEF Holds
      <3>2. CASE ~Empty(Layer)
        <4>1. disk' = Drawing(Layer, disk)  BY <1>1, <3>2
        <4>2. /\ file \in DOMAIN disk' /\ disk'[file] = Holds(Layer, e.asset)
              /\ \A f \in DOMAIN disk' \ FilesOf(Layer) : f \in DOMAIN e.files
              /\ \A f \in DOMAIN e.files \ FilesOf(Layer) :
                   f \in DOMAIN disk' /\ disk'[f] = e.files[f]
          BY <2>1, <4>1, Drawings
        <4>3. /\ e.asset \in {Layer.asset, None}
              /\ \A f \in DOMAIN disk : f \in DOMAIN e.files /\ e.files[f] = disk[f]
              /\ \A f \in DOMAIN e.files \ DOMAIN disk :
                   Layer.asset # None /\ f = Base(Layer.asset)
                   /\ e.files[f].asset = Layer.asset
          BY <1>1, <1>3, Elements
        <4>4. disk'[file].of = Layer.name /\ disk'[file].asset = e.asset
          BY <4>2 DEF Holds
        <4> HIDE DEF e, file
        <4> QED  BY <4>2, <4>3, <4>4
      <3> QED  BY <3>1, <3>2
    <2>6. ASSUME NEW i \in 1..Len(prepared)
          PROVE  LET f == OwnFile(expanded[i], i)
                 IN  f \in DOMAIN disk' /\ disk'[f] = disk[f]
      <3>1. Shown(i)  BY <1>2, <1>3 DEF Kept
      <3>2. OwnFile(expanded[i], i) \in DOMAIN disk  BY <3>1 DEF Shown
      <3>3. OwnFile(expanded[i], i) \notin FilesOf(Layer)
        BY <1>1, <1>3, <2>1, DrawingSparesOthers DEF Layer, Ordered, Typed
      <3> QED  BY <2>5, <3>2, <3>3
    <2>7. ASSUME NEW f \in DOMAIN disk'
          PROVE  \/ f \in Scratch
                 \/ k \in Drawn /\ f \in FilesOf(Layer)
                 \/ k \in Fetched /\ f = Base(Layer.asset) /\ disk'[f].asset = Layer.asset
                 \/ f \in DOMAIN disk /\ disk'[f] = disk[f]
      BY <2>4, <2>5
    <2> HIDE DEF file
    <2>8. Prepared(<<file>>)  BY <1>1
    <2> QED  BY <1>1, <1>3, <2>2, <2>3, <2>5, <2>6, <2>7, <2>8, KeptPrepared
  <1>4. (KnownTypes' <=> KnownTypes) /\ (NamesApart' <=> NamesApart)
    BY <1>2 DEF KnownTypes, NamesApart, Drawn, Fetched, Scratch
  <1> QED  BY <1>2, <1>3, <1>4 DEF Kept

LEMMA KeptUnknown ==
  ASSUME Ordered, Kept, PrepareUnknown
  PROVE  Kept'
  <1>1. Preparing /\ Layer.type \notin OverlayTypes \cup {"image"}
        /\ pc' = "prepare" /\ expanded' = expanded
    BY DEF PrepareUnknown, Preparing, Prepared
  <1>2. k \in DOMAIN expanded  BY <1>1, Bounds
  <1>3. ~KnownTypes  BY <1>1, <1>2 DEF KnownTypes, Layer
  <1>4. ~KnownTypes'  BY <1>1, <1>3 DEF KnownTypes
  <1> QED  BY <1>1, <1>4 DEF Kept

LEMMA KeptExpand ==
  ASSUME Ordered, Kept, Expand \/ Expanded
  PROVE  Kept'
  <1>1. disk' = disk /\ prepared' = prepared /\ pc = "expand"
    BY DEF Expand, Expanded
  <1>2. disk' = <<>> /\ prepared' = <<>>  BY <1>1 DEF Kept, Ordered, Stages
  <1>3. Len(prepared') = 0 /\ DOMAIN disk' = {}  BY <1>2, EmptySeq
  <1>4. 1..Len(prepared') = {}  BY <1>3
  <1> QED  BY <1>2, <1>3, <1>4 DEF Kept

\* The audio's file is no layer's.
LEMMA ShowsItselfAssembled ==
  ASSUME Ordered, Kept, Assemble
  PROVE  Kept' /\ EveryLayerShowsItself'
  <1> DEFINE black == IF NoLayers THEN <<Black>> ELSE <<>>
             audio == IF WithAudio THEN <<AudioFile>> ELSE <<>>
  <1>1. /\ inputs' = inputs \o black \o audio
        /\ disk' = IF WithAudio THEN Written(disk, {AudioFile}, Download(AudioFile)) ELSE disk
        /\ pc = "prepare" /\ pc' = "run" /\ expanded' = expanded /\ prepared' = prepared
    BY DEF Assemble
  <1>2. black \in Seq(Names) /\ audio \in Seq(Names)
    <2>1. <<>> \in Seq(Names)  BY EmptySeq
    <2>2. \A x \in Names : <<x>> \in Seq(Names)  BY OneItem
    <2> QED  BY <2>1, <2>2, FileNames
  <1>3. inputs \in Seq(Names) /\ Len(inputs) \in Nat /\ Len(prepared) \in Nat
        /\ DOMAIN prepared = 1..Len(prepared)
    BY LenProperties DEF Ordered, Typed
  <1> HIDE DEF black, audio
  <1>4. \A i \in 1..Len(inputs) : (inputs \o black \o audio)[i] = inputs[i]
    <2> DEFINE s == inputs \o black
    <2>1. /\ s \in Seq(Names) /\ Len(s) = Len(inputs) + Len(black) /\ Len(black) \in Nat
          /\ \A i \in 1..Len(inputs) + Len(black) :
               s[i] = IF i <= Len(inputs) THEN inputs[i] ELSE black[i - Len(inputs)]
      BY <1>2, <1>3, ConcatProperties, LenProperties
    <2> HIDE DEF s
    <2>2. /\ Len(audio) \in Nat
          /\ \A i \in 1..Len(s) + Len(audio) :
               (s \o audio)[i] = IF i <= Len(s) THEN s[i] ELSE audio[i - Len(s)]
      BY <1>2, <2>1, ConcatProperties, LenProperties
    <2>3. \A i \in 1..Len(inputs) : (s \o audio)[i] = inputs[i]
      <3> TAKE i \in 1..Len(inputs)
      <3>1. i \in 1..Len(inputs) + Len(black) /\ i <= Len(inputs)
            /\ i \in 1..Len(s) + Len(audio) /\ i <= Len(s)
        BY <1>3, <2>1, <2>2
      <3> QED  BY <2>1, <2>2, <3>1
    <2> QED  BY <2>3 DEF s
  <1>5. ASSUME KnownTypes', NamesApart', NEW i \in DOMAIN prepared'
        PROVE  /\ inputs'[i] \in DOMAIN disk'
               /\ disk'[inputs'[i]].of = prepared'[i].name
               /\ disk'[inputs'[i]].asset \in {prepared'[i].asset, None}
    <2>1. KnownTypes /\ NamesApart
      BY <1>1, <1>5 DEF KnownTypes, NamesApart, Drawn, Fetched, Scratch
    <2>2. i \in 1..Len(prepared) /\ Len(inputs) = Len(prepared)
          /\ k <= Len(expanded) + 1 /\ Len(prepared) + 1 = k
          /\ prepared[i] = expanded[i]
      BY <1>1, <1>3, <2>1 DEF Ordered, Stages
    <2>3. Shown(i)  BY <1>1, <2>1, <2>2 DEF Kept
    <2> DEFINE f == OwnFile(expanded[i], i)
    <2>4. inputs[i] = f /\ inputs'[i] = f  BY <1>1, <1>4, <2>2, <2>3 DEF Shown
    <2>5. f # AudioFile
      <3>1. i \in Nat /\ i > 0 /\ i \in 1..Len(expanded)
        <4>1. Len(expanded) \in Nat  BY LenProperties DEF Ordered, Typed
        <4> QED  BY <1>3, <2>2, <4>1
      <3>2. expanded[i] \in Shapes  BY <3>1, ElementOfSeq DEF Ordered, Typed
      <3>3. expanded[i].type \in OverlayTypes => f # AudioFile
        BY <3>1, <3>2, DrawingsDiffer DEF OwnFile
      <3>4. expanded[i].type \notin OverlayTypes => f # AudioFile
        BY <3>1, ScratchDiffers DEF OwnFile
      <3> QED  BY <3>3, <3>4
    <2>6. f \in DOMAIN disk /\ disk[f].of = expanded[i].name
          /\ disk[f].asset \in {expanded[i].asset, None}
      BY <2>3 DEF Shown
    <2> HIDE DEF f
    <2>7. f \in DOMAIN disk' /\ disk'[f] = disk[f]
      BY <1>1, <2>5, <2>6 DEF Written
    <2> QED  BY <1>1, <2>2, <2>4, <2>6, <2>7
  <1>6. Kept'  BY <1>1 DEF Kept
  <1> QED  BY <1>5, <1>6 DEF EveryLayerShowsItself

\* The inductive invariant of the second theorem.
Shows == Ordered /\ Kept /\ EveryLayerShowsItself

\* Every step keeps the pictures.
LEMMA ShowsNext ==
  ASSUME Shows, [Next]_vars
  PROVE  Shows'
  <1>1. Ordered /\ Kept /\ EveryLayerShowsItself  BY DEF Shows
  <1>2. Ordered'  BY <1>1, OrderedNext
  <1>3. Kept' /\ EveryLayerShowsItself'
    <2>1. CASE UNCHANGED vars
      <3>1. UNCHANGED <<pc, expanded, prepared, inputs, disk>>  BY <2>1 DEF vars
      <3>2. Kept'
        BY <1>1, <3>1 DEF Kept, Shown, Accounted, KnownTypes, NamesApart, Drawn, Fetched, Scratch
      <3>3. EveryLayerShowsItself'
        BY <1>1, <3>1 DEF EveryLayerShowsItself, KnownTypes, NamesApart, Drawn, Fetched, Scratch
      <3> QED  BY <3>2, <3>3
    <2>2. CASE Expand \/ Expanded
      <3>1. pc' # "run"  BY <2>2 DEF Expand, Expanded
      <3> QED  BY <1>1, <2>2, <3>1, KeptExpand DEF EveryLayerShowsItself
    <2>3. CASE PrepareImage \/ PrepareOverlay \/ PrepareUnknown
      <3>1. pc' # "run"
        BY <2>3 DEF PrepareImage, PrepareOverlay, PrepareUnknown, Prepared, Preparing
      <3> QED  BY <1>1, <2>3, <3>1, KeptImage, KeptOverlay, KeptUnknown
               DEF EveryLayerShowsItself
    <2>4. CASE PrepareFails \/ NothingToRender \/ AudioFails
      <3>1. pc' = "failed"
        BY <2>4 DEF PrepareFails, NothingToRender, AudioFails, Fail
      <3> QED  BY <3>1 DEF EveryLayerShowsItself, Kept
    <2>5. CASE Assemble  BY <1>1, <2>5, ShowsItselfAssembled
    <2> QED  BY <2>1, <2>2, <2>3, <2>4, <2>5 DEF Next
  <1> QED  BY <1>2, <1>3 DEF Shows

\* When ffmpeg starts every input holds its own layer's picture, made from its
\* own asset, if the names do not meet: for any templates and payloads.
THEOREM LayersShowThemselves == Spec => []EveryLayerShowsItself
  <1>1. Init => Shows
    <2> SUFFICES ASSUME Init PROVE Shows  OBVIOUS
    <2>1. pc = "expand" /\ disk = <<>>  BY DEF Init, Fresh
    <2> QED  BY <2>1, OrderedInit DEF Shows, Kept, EveryLayerShowsItself
  <1>2. Shows => EveryLayerShowsItself  BY DEF Shows
  <1> QED  BY <1>1, ShowsNext, <1>2, PTL DEF Spec

(***************************************************************************)
(* Natural numbers: a least one, induction over a set, division.           *)
(***************************************************************************)

\* The order of the natural numbers is well-founded.
LEMMA Less ==
  ASSUME NEW R, R = {ss \in Nat \X Nat : ss[1] < ss[2]}
  PROVE  IsWellFoundedOn(R, Nat)
  BY NatLessThanWellFounded DEF OpToRel

\* A set of natural numbers has a least one.
LEMMA LeastNat ==
  ASSUME NEW S, S \subseteq Nat, S # {}
  PROVE  \E x \in S : \A y \in S : x <= y
  <1> DEFINE R == {ss \in Nat \X Nat : ss[1] < ss[2]}
  <1>1. IsWellFoundedOn(R, Nat)  BY Less
  <1> HIDE DEF R
  <1>2. \E x \in S : \A y \in S : ~ (<<y, x>> \in R)  BY <1>1, WFMin
  <1>3. \A x, y \in Nat : <<y, x>> \notin R => x <= y  BY SMT DEF R
  <1> QED  BY <1>2, <1>3

\* Induction, over a set instead of a formula.
LEMMA SetInduction ==
  ASSUME NEW S, 0 \in S, \A m \in Nat : m \in S => m + 1 \in S
  PROVE  Nat \subseteq S
  <1> SUFFICES ASSUME NEW R, R = Nat \ S, R # {}  PROVE FALSE  OBVIOUS
  <1>1. PICK x \in R : \A y \in R : x <= y  BY LeastNat
  <1>2. x \in Nat /\ x # 0  BY <1>1
  <1>3. x - 1 \in Nat  BY <1>2
  <1>4. x - 1 \in S  BY <1>1, <1>2, <1>3
  <1>5. (x - 1) + 1 \in S  BY <1>3, <1>4
  <1> QED  BY <1>2, <1>5

\* Division by a positive number: what is used of it.
LEMMA Quotient ==
  ASSUME NEW a \in Int, NEW d \in Nat, d > 0
  PROVE  /\ a \div d \in Int
         /\ \E r \in 0..d - 1 : a = d * (a \div d) + r
  OBVIOUS

LEMMA ProductNat == ASSUME NEW a \in Nat, NEW b \in Nat PROVE a * b \in Nat
  OBVIOUS

\* A positive factor may be left out of an inequality.
LEMMA Cancel ==
  ASSUME NEW m \in Nat, m > 0, NEW x \in Int, NEW y \in Int, m * x < m * y + m
  PROVE  x <= y
  <1> SUFFICES ASSUME x > y PROVE FALSE  OBVIOUS
  <1>1. x - y - 1 \in Nat  OBVIOUS
  <1>2. m * (x - y - 1) \in Nat  BY <1>1, ProductNat
  <1>3. m * (x - y - 1) = m * x - m * y - m  OBVIOUS
  <1>4. m * x \in Int /\ m * y \in Int  OBVIOUS
  <1> QED  BY <1>2, <1>3, <1>4

LEMMA TimesKeepsOrder ==
  ASSUME NEW a \in Nat, NEW b \in Int, NEW c \in Int, b <= c
  PROVE  a * b <= a * c
  <1>1. c - b \in Nat  OBVIOUS
  <1>2. a * (c - b) \in Nat  BY <1>1, ProductNat
  <1>3. a * (c - b) = a * c - a * b /\ a * c \in Int /\ a * b \in Int  OBVIOUS
  <1> QED  BY <1>2, <1>3

(***************************************************************************)
(* Timeline.                                                               *)
(***************************************************************************)

\* A carousel, its number of texts and the clock.
TimelineType == texts \in Carousels /\ n \in Counts /\ t \in Nat

LEMMA TimelineTyped == T!Spec => []TimelineType
  <1>1. T!Init => TimelineType  BY DEF T!Init, TimelineType
  <1>2. TimelineType /\ [T!Play]_(T!vars) => TimelineType'
    BY DEF T!Play, T!vars, TimelineType
  <1> QED  BY <1>1, <1>2, PTL DEF T!Spec

\* %.3f goes half a millisecond at most, up or down.
LEMMA MillisNear ==
  ASSUME n \in Nat, n > 0, NEW a \in Int, NEW b
  PROVE  /\ T!Millis(a, b) \in Int
         /\ 2 * a - n <= (2 * n) * T!Millis(a, b)
         /\ (2 * n) * T!Millis(a, b) <= 2 * a + n
  <1> DEFINE m == 2 * n
             c == 2 * a + n
             q == c \div m
  <1>1. m \in Nat /\ m > 0 /\ c \in Int  OBVIOUS
  <1>2. c % m = 0 <=> T!Halfway(a)  BY DEF T!Halfway
  <1>3. T!Millis(a, b) = q \/ (T!Halfway(a) /\ T!Millis(a, b) = q - 1)
    BY <1>1 DEF T!Millis
  <1>4. 2 * a - n = c - m  OBVIOUS
  <1> HIDE DEF m, c
  <1>5. q \in Int /\ \E r \in 0..m - 1 : c = m * q + r  BY <1>1, Quotient
  <1>6. c % m = 0 => c = m * q  BY <1>1
  <1> HIDE DEF q
  <1>7. m * (q - 1) = m * q - m /\ m * q \in Int  BY <1>1, <1>5
  <1>8. /\ T!Millis(a, b) \in Int
        /\ c - m <= m * T!Millis(a, b)
        /\ m * T!Millis(a, b) <= c
    BY <1>1, <1>2, <1>3, <1>5, <1>6, <1>7
  <1> QED  BY <1>4, <1>8 DEF m, c

\* It keeps the order, and whole milliseconds as they are.
LEMMA MillisMonotone ==
  ASSUME n \in Nat, n > 0, NEW a \in Int, NEW b \in Int, a < b, NEW p, NEW q
  PROVE  T!Millis(a, p) <= T!Millis(b, q)
  <1> DEFINE x == T!Millis(a, p)
             y == T!Millis(b, q)
             m == 2 * n
  <1>1. x \in Int /\ y \in Int /\ m * x <= 2 * a + n /\ 2 * b - n <= m * y
    BY MillisNear
  <1>2. m \in Nat /\ m > 0 /\ 2 * a + n < 2 * b - n + m  OBVIOUS
  <1> HIDE DEF x, y, m
  <1>3. m * x < m * y + m  BY <1>1, <1>2
  <1>4. x <= y  BY <1>1, <1>2, <1>3, Cancel
  <1> QED  BY <1>4 DEF x, y

LEMMA MillisWhole ==
  ASSUME n \in Nat, n > 0, NEW a \in Nat, NEW p
  PROVE  T!Millis(n * a, p) = a
  <1> DEFINE x == T!Millis(n * a, p)
             m == 2 * n
  <1>0. n * a \in Int  OBVIOUS
  <1>1. x \in Int /\ 2 * (n * a) - n <= m * x /\ m * x <= 2 * (n * a) + n
    BY <1>0, MillisNear
  <1>2. m \in Nat /\ m > 0 /\ n < m /\ m * a = 2 * (n * a)  OBVIOUS
  <1> HIDE DEF x, m
  <1>3. m * x < m * a + m /\ m * a < m * x + m  BY <1>0, <1>1, <1>2
  <1>4. x <= a /\ a <= x  BY <1>1, <1>2, <1>3, Cancel
  <1> QED  BY <1>1, <1>4 DEF x

\* The parts follow each other from the layer's start to its end.
LEMMA Parts ==
  ASSUME TimelineType
  PROVE  /\ n \in Nat /\ n > 0 /\ T!Items = 0..n - 1
         /\ texts.start \in Nat /\ texts.end \in Nat /\ texts.start < texts.end
         /\ \A i \in Nat : T!PartStart(i) \in Nat
         /\ \A i \in Nat : T!PartEnd(i) = T!PartStart(i + 1)
         /\ \A i \in Nat : T!PartStart(i) + T!Length = T!PartEnd(i)
         /\ \A i, j \in Nat : i < j => T!PartStart(i) < T!PartStart(j)
  <1>1. /\ n \in Nat /\ n > 0 /\ T!Items = 0..n - 1
        /\ texts.start \in Nat /\ texts.end \in Nat /\ texts.start < texts.end
    BY CarouselsAssumption DEF TimelineType, T!TimelineAssumption, T!Items
  <1> DEFINE s == texts.start
             l == T!Length
  <1>2. l \in Nat /\ l > 0 /\ s \in Nat  BY <1>1 DEF T!Length
  <1>3. \A i \in Nat : T!PartStart(i) = n * s + i * l  BY DEF T!PartStart
  <1>4. \A i \in Nat : T!PartEnd(i) = n * s + (i + 1) * l  BY DEF T!PartEnd
  <1> HIDE DEF s, l
  <1>5. n * s \in Nat  BY <1>1, <1>2, ProductNat
  <1>6. \A i \in Nat : i * l \in Nat  BY <1>2, ProductNat
  <1>7. \A i \in Nat : (i + 1) * l = i * l + l  BY <1>2
  <1>8. ASSUME NEW i \in Nat, NEW j \in Nat, i < j  PROVE i * l < j * l
    <2>1. j - i - 1 \in Nat  BY <1>8
    <2>2. (j - i - 1) * l \in Nat  BY <2>1, <1>2, ProductNat
    <2>3. (j - i - 1) * l = j * l - i * l - l  BY <1>2
    <2> QED  BY <2>2, <2>3, <1>2, <1>6
  <1>9. \A i \in Nat : T!PartStart(i) \in Nat  BY <1>3, <1>5, <1>6
  <1>10. \A i \in Nat : T!PartEnd(i) = T!PartStart(i + 1)  BY <1>3, <1>4
  <1>11. \A i \in Nat : T!PartStart(i) + l = T!PartEnd(i)
    BY <1>2, <1>3, <1>4, <1>5, <1>6, <1>7
  <1>12. \A i, j \in Nat : i < j => T!PartStart(i) < T!PartStart(j)
    BY <1>3, <1>5, <1>6, <1>8
  <1> QED  BY <1>1, <1>9, <1>10, <1>11, <1>12 DEF l

\* Printed, each part ends where the next one starts, the first one starts with
\* the layer and the last one ends with it.
LEMMA Printed ==
  ASSUME TimelineType
  PROVE  /\ \A i \in Nat : T!ItemStart(i) \in Int /\ T!ItemEnd(i) = T!ItemStart(i + 1)
         /\ \A i, j \in Nat : i <= j => T!ItemStart(i) <= T!ItemStart(j)
         /\ T!ItemStart(0) = texts.start
         /\ T!ItemStart(n) = texts.end
  <1>1. /\ n \in Nat /\ n > 0
        /\ texts.start \in Nat /\ texts.end \in Nat /\ texts.start < texts.end
    BY Parts
  <1>2. \A i, j \in Nat : i <= j => T!ItemStart(i) <= T!ItemStart(j)
    <2> SUFFICES ASSUME NEW i \in Nat, NEW j \in Nat, i <= j
                 PROVE  T!ItemStart(i) <= T!ItemStart(j)
      OBVIOUS
    <2>1. CASE i < j
      <3> DEFINE a == T!PartStart(i)
                 b == T!PartStart(j)
                 d == <<"text", i - 1>>
                 e == <<"text", j - 1>>
      <3>0. a \in Nat /\ b \in Nat  BY Parts
      <3>1. a \in Int /\ b \in Int /\ a < b  BY <2>1, <3>0, Parts
      <3>2. T!ItemStart(i) = T!Millis(a, d) /\ T!ItemStart(j) = T!Millis(b, e)
        BY DEF T!ItemStart
      <3> HIDE DEF a, b, d, e
      <3>3. T!Millis(a, d) <= T!Millis(b, e)  BY <1>1, <3>1, MillisMonotone
      <3> QED  BY <3>2, <3>3
    <2>2. CASE i = j
      <3>1. T!ItemStart(i) \in Int  BY <1>1, Parts, MillisNear DEF T!ItemStart
      <3> QED  BY <2>2, <3>1
    <2> QED  BY <2>1, <2>2
  <1>3. \A i \in Nat : T!ItemStart(i) \in Int
    BY <1>1, Parts, MillisNear DEF T!ItemStart
  <1>4. \A i \in Nat : T!ItemEnd(i) = T!ItemStart(i + 1)
    <2> SUFFICES ASSUME NEW i \in Nat PROVE T!ItemEnd(i) = T!ItemStart(i + 1)  OBVIOUS
    <2>1. (i + 1) - 1 = i /\ T!PartEnd(i) = T!PartStart(i + 1)  BY Parts
    <2> QED  BY <2>1 DEF T!ItemStart, T!ItemEnd
  <1>5. T!PartStart(0) = n * texts.start
    BY <1>1 DEF T!PartStart, T!Length
  <1>6. T!PartStart(n) = n * texts.end
    BY <1>1 DEF T!PartStart, T!Length
  <1>7. T!ItemStart(0) = texts.start  BY <1>1, <1>5, MillisWhole DEF T!ItemStart
  <1>8. T!ItemStart(n) = texts.end  BY <1>1, <1>6, MillisWhole DEF T!ItemStart
  <1> QED  BY <1>2, <1>3, <1>4, <1>7, <1>8

\* A text is shown exactly while the layer lasts: the first that has not ended.
LEMMA SomeText ==
  ASSUME TimelineType
  PROVE  T!Between(t, texts.start, texts.end) <=> \E i \in T!Items : T!Shown(i)
  <1>0. /\ n \in Nat /\ n > 0 /\ t \in Nat /\ T!Items = 0..n - 1
        /\ texts.start \in Nat /\ texts.end \in Nat
    BY Parts DEF TimelineType
  <1>1. ASSUME T!Between(t, texts.start, texts.end)
        PROVE  \E i \in T!Items : T!Shown(i)
    <2> DEFINE S == {i \in Nat : t <= 2 * T!ItemEnd(i)}
    <2>1. t <= 2 * T!ItemEnd(n - 1) /\ n - 1 \in Nat
      <3>1. n - 1 \in Nat /\ (n - 1) + 1 = n  BY <1>0
      <3>2. T!ItemEnd(n - 1) = texts.end  BY <3>1, Printed
      <3> QED  BY <1>1, <3>1, <3>2 DEF T!Between
    <2>2. n - 1 \in S /\ S \subseteq Nat  BY <2>1
    <2>3. PICK i \in S : \A j \in S : i <= j  BY <2>2, LeastNat
    <2>4. i \in Nat /\ i <= n - 1 /\ t <= 2 * T!ItemEnd(i)  BY <2>2, <2>3
    <2>5. 2 * T!ItemStart(i) <= t
      <3>1. CASE i = 0  BY <3>1, <1>1, Printed DEF T!Between
      <3>2. CASE i # 0
        <4>1. i - 1 \in Nat /\ (i - 1) + 1 = i  BY <2>4, <3>2
        <4>2. i - 1 \notin S  BY <2>3, <2>4, <4>1
        <4>3. T!ItemEnd(i - 1) = T!ItemStart(i) /\ T!ItemStart(i) \in Int  BY <4>1, <2>4, Printed
        <4> QED  BY <4>1, <4>2, <4>3, <1>0
      <3> QED  BY <3>1, <3>2
    <2>6. i \in T!Items  BY <2>4, <1>0
    <2> QED  BY <2>4, <2>5, <2>6 DEF T!Shown, T!ShownAt, T!Between
  <1>2. ASSUME NEW i \in T!Items, T!Shown(i)
        PROVE  T!Between(t, texts.start, texts.end)
    <2>1. i \in Nat /\ i + 1 \in Nat /\ 0 <= i /\ i + 1 <= n /\ 0 \in Nat  BY <1>0
    <2>2. 2 * T!ItemStart(i) <= t /\ t <= 2 * T!ItemEnd(i)
      BY <1>2 DEF T!Shown, T!ShownAt, T!Between
    <2>3. texts.start <= T!ItemStart(i) /\ T!ItemStart(i) \in Int
      BY <2>1, Printed
    <2>4. T!ItemEnd(i) <= texts.end /\ T!ItemEnd(i) \in Int
      BY <2>1, <1>0, Printed
    <2> QED  BY <2>2, <2>3, <2>4, <1>0 DEF T!Between
  <1> QED  BY <1>1, <1>2

\* Two texts are shown together at the moment between their parts only.
LEMMA OneText ==
  ASSUME TimelineType, NEW i \in T!Items, NEW j \in T!Items, i < j, T!Shown(i), T!Shown(j)
  PROVE  t = 2 * T!ItemStart(j)
  <1>1. i \in Nat /\ i + 1 \in Nat /\ j \in Nat /\ i + 1 <= j /\ t \in Nat
    <2>1. n \in Nat /\ T!Items = 0..n - 1 /\ t \in Nat  BY Parts DEF TimelineType
    <2> QED  BY <2>1
  <1>2. T!ItemEnd(i) <= T!ItemStart(j) /\ T!ItemEnd(i) \in Int /\ T!ItemStart(j) \in Int
    BY <1>1, Printed
  <1>3. t <= 2 * T!ItemEnd(i) /\ 2 * T!ItemStart(j) <= t
    BY DEF T!Shown, T!ShownAt, T!Between
  <1> QED  BY <1>1, <1>2, <1>3

\* While a carousel lasts some text is on the screen, and two together only
\* when one takes over: for all times and any number of texts.
THEOREM TurnsAreTaken == T!Spec => []TextsTakeTurns
  <1>1. TimelineType => TextsTakeTurns
    BY SomeText, OneText DEF TextsTakeTurns, T!TextsTakeTurns
  <1> QED  BY <1>1, TimelineTyped, PTL

\* One time, printed by two expressions: the same, or halfway between two
\* milliseconds and one of them apart.
LEMMA PrintedTwice ==
  ASSUME n \in Nat, n > 0, NEW a \in Int, NEW p, NEW q, T!Millis(a, p) # T!Millis(a, q)
  PROVE  /\ T!Halfway(a)
         /\ T!Millis(a, p) \in {T!Millis(a, q) - 1, T!Millis(a, q) + 1}
  <1>1. 2 * a + n \in Int /\ 2 * n \in Nat /\ 2 * n > 0  OBVIOUS
  <1>2. (2 * a + n) \div (2 * n) \in Int  BY <1>1, Quotient
  <1> QED  BY <1>2 DEF T!Millis

\* A pager shows the number of the text that is shown, but for the millisecond
\* that two expressions for one time may be apart: for all times, any number of
\* texts, and however each of them is rounded.
THEOREM PagesFollowTexts == T!Spec => []PagerKeepsUp
  <1>1. TimelineType => PagerKeepsUp
    <2> SUFFICES ASSUME TimelineType, NEW i \in T!Items, T!PageShown(i) # T!Shown(i)
                 PROVE  /\ T!Halfway(T!PartEnd(i))
                        /\ t \in 2 * T!ItemEnd(i) - 1..2 * T!ItemEnd(i) + 2
      BY DEF PagerKeepsUp, T!PagerKeepsUp
    <2> DEFINE a == T!PartEnd(i)
               e == T!ItemEnd(i)
               g == T!PageEnd(i)
    <2>1. i \in Nat /\ i + 1 \in Nat /\ n \in Nat /\ n > 0 /\ t \in Nat
      <3>1. n \in Nat /\ n > 0 /\ T!Items = 0..n - 1 /\ t \in Nat  BY Parts DEF TimelineType
      <3> QED  BY <3>1
    <2>2. /\ e = T!Millis(a, <<"text", i>>)
          /\ g = T!Millis(a, <<"page", i>>)
      BY <2>1, Parts DEF T!PageEnd, T!ItemEnd
    <2>3. a \in Int
      <3>1. a = T!PartStart(i + 1)  BY <2>1, Parts
      <3> QED  BY <2>1, <3>1, Parts
    <2>4. e \in Int /\ g \in Int  BY <2>1, <2>2, <2>3, MillisNear
    <2>5. (t <= 2 * g) # (t <= 2 * e)
      BY DEF T!PageShown, T!Shown, T!ShownAt, T!Between
    <2>6. T!Halfway(a) /\ g \in {e - 1, e + 1}
      <3>1. g # e  BY <2>5
      <3> HIDE DEF a, e, g
      <3> QED  BY <2>1, <2>2, <2>3, <3>1, PrintedTwice
    <2>7. t \in 2 * e - 1..2 * e + 2
      <3> HIDE DEF a, e, g
      <3> QED  BY <2>1, <2>4, <2>5, <2>6
    <2> QED  BY <2>6, <2>7
  <1> QED  BY <1>1, TimelineTyped, PTL

\* A text whose part is a millisecond longer than its fades is legible when it
\* has faded in, however its start, its end and its fade are rounded; one whose
\* part is more than a millisecond shorter fades out before it has faded in.
THEOREM TextsAreLegible == T!Spec => []EveryTextLegible
  <1>1. ASSUME TimelineType, texts.at = 0, NEW i \in T!Items
        PROVE  /\ T!Fits(1) => T!EverLegible(i)
               /\ ~T!Fits(-1) => ~T!EverLegible(i)
    <2>1. i \in Nat /\ i + 1 \in Nat /\ 0 <= i /\ 0 \in Nat /\ i + 1 <= n /\ n \in Nat
          /\ n > 0 /\ texts.start \in Nat /\ texts.end \in Nat /\ texts.start < texts.end
      <3>1. /\ n \in Nat /\ n > 0 /\ T!Items = 0..n - 1
            /\ texts.start \in Nat /\ texts.end \in Nat /\ texts.start < texts.end
        BY <1>1, Parts
      <3> QED  BY <1>1, <3>1
    <2> DEFINE a == T!ItemStart(i)
               b == T!ItemEnd(i)
               f == T!FadeOutStart(i)
               in == texts.fadeIn
               out == texts.fadeOut
               l == T!Length
               s == T!PartStart(i)
               v == 2 * (a + in)
               m == 2 * n
    <2>2. in \in Nat /\ out \in Nat /\ l \in Nat
      BY <1>1, <2>1, CarouselsAssumption DEF TimelineType, T!TimelineAssumption, T!Length
    <2>3. a \in Int /\ b \in Int /\ texts.start <= a /\ b <= texts.end
      BY <1>1, <2>1, Printed
    <2>4. T!AnimationStart(i) = a  BY <1>1 DEF T!AnimationStart
    <2>5. s \in Int /\ T!PartEnd(i) = s + l /\ n * out \in Nat /\ n * in \in Nat
      <3>1. s \in Nat  BY <1>1, <2>1, Parts
      <3>2. T!PartEnd(i) = s + l  BY <1>1, <2>1, Parts
      <3>3. n * out \in Nat /\ n * in \in Nat  BY <2>1, <2>2, ProductNat
      <3> QED  BY <3>1, <3>2, <3>3
    <2>6. m * a <= 2 * s + n /\ 2 * s - n <= m * a
      <3> DEFINE e == <<"text", i - 1>>
      <3>1. a = T!Millis(s, e)  BY DEF T!ItemStart
      <3> HIDE DEF s, e
      <3>2. (2 * n) * T!Millis(s, e) <= 2 * s + n /\ 2 * s - n <= (2 * n) * T!Millis(s, e)
        BY <2>1, <2>5, MillisNear
      <3> HIDE DEF a
      <3> QED  BY <3>1, <3>2
    <2>7. /\ f \in Int /\ 2 * (s + l - n * out) - n <= m * f
          /\ m * f <= 2 * (s + l - n * out) + n
      <3> DEFINE c == T!PartEnd(i) - n * out
      <3>1. c \in Int /\ c = s + l - n * out  BY <2>2, <2>5
      <3>2. f = T!Millis(c, <<"fade", i>>)  BY DEF T!FadeOutStart
      <3> HIDE DEF c
      <3>3. T!Millis(c, <<"fade", i>>) \in Int
            /\ 2 * c - n <= (2 * n) * T!Millis(c, <<"fade", i>>)
            /\ (2 * n) * T!Millis(c, <<"fade", i>>) <= 2 * c + n
        BY <2>1, <3>1, MillisNear
      <3> HIDE DEF f, s, l
      <3> QED  BY <3>1, <3>2, <3>3
    <2>8. 2 * (s + l) - n <= m * b
      <3>1. T!PartEnd(i) \in Int  BY <2>2, <2>5
      <3> QED  BY <2>1, <2>5, <3>1, MillisNear DEF T!ItemEnd
    <2>9. /\ n * (in + out + 1) = n * in + n * out + n
          /\ n * (in + out + (-1)) = n * in + n * out - n
          /\ m * (a + in) = m * a + 2 * (n * in) /\ m \in Nat /\ m > 0 /\ a + in \in Int
      <3> HIDE DEF a, in, out
      <3> QED  BY <2>1, <2>2, <2>3
    <2>10. m * f \in Int /\ m * b \in Int /\ m * a \in Int
      <3> HIDE DEF a, b, f
      <3> QED  BY <2>1, <2>3, <2>7
    <2>11. ASSUME T!Fits(1)  PROVE T!EverLegible(i)
      <3>1. n * (in + out + 1) <= l  BY <2>11 DEF T!Fits
      <3>2. a + in <= f /\ a + in <= b
        <4> HIDE DEF a, b, f, in, out, l, s, m
        <4>1. m = 2 * n  BY DEF m
        <4>2. m * (a + in) < m * f + m /\ m * (a + in) < m * b + m
          BY <2>1, <2>2, <2>5, <2>6, <2>7, <2>8, <2>9, <2>10, <3>1, <4>1
        <4> QED  BY <2>3, <2>7, <2>9, <4>2, Cancel
      <3>3. v \in 0..2 * texts.end /\ 2 * a <= v /\ v <= 2 * b /\ ~(v > 2 * f)
        <4> HIDE DEF a, b, f, in
        <4> QED  BY <2>1, <2>2, <2>3, <2>7, <3>2
      <3>4. T!Opaque(i, v)
        <4>1. T!ShownAt(i, v)  BY <3>3 DEF T!ShownAt, T!Between
        <4>2. T!FadedIn(i, v)
          <5>1. v >= v  BY <3>3
          <5> QED  BY <5>1, <2>4 DEF T!FadedIn
        <4>3. ~T!FadingOut(i, v)  BY <3>3 DEF T!FadingOut
        <4> QED  BY <4>1, <4>2, <4>3 DEF T!Opaque
      <3> QED  BY <3>3, <3>4 DEF T!EverLegible
    <2>12. ASSUME NEW w \in 0..2 * texts.end, T!Opaque(i, w)  PROVE T!Fits(-1)
      <3>1. w >= 2 * (a + in) /\ ~(w > 2 * f)
        BY <2>4, <2>12 DEF T!Opaque, T!FadedIn, T!FadingOut
      <3>2. a + in <= f
        <4> HIDE DEF a, f, in
        <4> QED  BY <2>1, <2>2, <2>3, <2>7, <3>1
      <3>3. n * (in + out + (-1)) <= l
        <4> HIDE DEF a, f, in, out, l, s, m
        <4>1. m = 2 * n  BY DEF m
        <4>2. m * (a + in) <= m * f  BY <2>7, <2>9, <3>2, TimesKeepsOrder
        <4> QED  BY <2>1, <2>2, <2>5, <2>6, <2>7, <2>9, <2>10, <4>1, <4>2
      <3> QED  BY <3>3 DEF T!Fits
    <2> QED  BY <2>11, <2>12 DEF T!EverLegible
  <1>2. TimelineType => EveryTextLegible
    BY <1>1 DEF EveryTextLegible, T!EveryTextLegible
  <1> QED  BY <1>2, TimelineTyped, PTL

(***************************************************************************)
(* BackgroundMotion.                                                       *)
(***************************************************************************)

\* A motion, the number of frames and the frame.
MotionType == motion \in Motions /\ frames \in Frames /\ on \in 0..frames - 1

LEMMA FramesAre == \A f \in Frames : f \in Nat /\ f > 1
  <1>1. Frames \subseteq Nat \ {0, 1}  BY MotionsAssumption, Zenon DEF C!MotionAssumption
  <1> QED  BY <1>1

LEMMA TypesAre ==
  \A m \in Motions : /\ m.type \in {"drift", "pulse", "glance", "linear"}
                    /\ m.speed \in {"fast", "slow", ""}
  BY MotionsAssumption, Zenon DEF C!MotionAssumption

LEMMA ZoomsAre ==
  \A m \in Motions : m.zoom = C!NoRange \/ \E a, b \in Int : m.zoom = <<a, b>>
  <1>1. \A m \in Motions : m.zoom = C!NoRange \/ m.zoom \in Int \X Int
    BY MotionsAssumption, Zenon DEF C!MotionAssumption
  <1>2. \A z \in Int \X Int : \E a, b \in Int : z = <<a, b>>  OBVIOUS
  <1> QED  BY <1>1, <1>2, Zenon

LEMMA MotionTyped == C!Spec => []MotionType
  <1>1. C!Init => MotionType
    BY FramesAre DEF C!Init, MotionType
  <1>2. MotionType /\ [C!NextFrame]_(C!vars) => MotionType'
    BY FramesAre DEF C!NextFrame, C!vars, MotionType
  <1> QED  BY <1>1, <1>2, PTL DEF C!Spec

\* What is between 0 and d stays between a and b when it is blended.
LEMMA BlendWithin ==
  ASSUME NEW a \in Int, NEW b \in Int, NEW d \in Nat, NEW x \in 0..d
  PROVE  /\ C!Blend(<<a, b>>, x, d) \in Int
         /\ C!Within(C!Blend(<<a, b>>, x, d), a * d, b * d)
         /\ x = d => C!Blend(<<a, b>>, x, d) = b * d
  <1> DEFINE w == (b - a) * x
  <1>1. C!Blend(<<a, b>>, x, d) = a * d + w  BY DEF C!Blend
  <1>2. w \in Int /\ a * d \in Int /\ b * d \in Int  OBVIOUS
  <1>3. x = d => w = b * d - a * d  OBVIOUS
  <1>4. CASE a <= b
    <2>1. b - a \in Nat /\ d - x \in Nat /\ x \in Nat  BY <1>4
    <2>2. w \in Nat /\ (b - a) * (d - x) \in Nat  BY <2>1, ProductNat
    <2>3. (b - a) * (d - x) = b * d - a * d - w  OBVIOUS
    <2> HIDE DEF w
    <2>4. a * d <= a * d + w /\ a * d + w <= b * d  BY <2>2, <2>3, <1>2
    <2> QED  BY <2>4, <1>1, <1>2, <1>3 DEF C!Within
  <1>5. CASE b <= a
    <2>1. a - b \in Nat /\ d - x \in Nat /\ x \in Nat  BY <1>5
    <2>2. (a - b) * x \in Nat /\ (a - b) * (d - x) \in Nat  BY <2>1, ProductNat
    <2>3. (a - b) * (d - x) = a * d - b * d + w /\ (a - b) * x = - w  OBVIOUS
    <2> HIDE DEF w
    <2>4. b * d <= a * d + w /\ a * d + w <= a * d  BY <2>2, <2>3, <1>2
    <2> QED  BY <2>4, <1>1, <1>2, <1>3 DEF C!Within
  <1> QED  BY <1>4, <1>5

\* The wave stays between -1 and 1, and starts upwards.
LEMMA SinWithin ==
  ASSUME NEW x \in Nat, NEW d \in Nat, d > 0
  PROVE  /\ C!Sin(x, d) \in Int
         /\ C!Within(C!Sin(x, d), - d, d)
         /\ 4 * x <= d => C!Sin(x, d) = 4 * x
         /\ d < 4 * x /\ 2 * x <= d => C!Sin(x, d) = 2 * d - 4 * x
  <1> DEFINE r == (4 * x) % (4 * d)
  <1>1. r \in 0..4 * d - 1  OBVIOUS
  <1>2. x < d => r = 4 * x  OBVIOUS
  <1>3. C!Sin(x, d) = IF r <= d THEN r ELSE IF r <= 3 * d THEN 2 * d - r ELSE r - 4 * d
    BY DEF C!Sin
  <1> HIDE DEF r
  <1> QED  BY <1>1, <1>2, <1>3 DEF C!Within

LEMMA CosWithin ==
  ASSUME NEW x \in Nat, NEW d \in Nat, d > 0
  PROVE  C!Cos(x, d) \in Int /\ C!Within(C!Cos(x, d), - d, d)
  <1> DEFINE s == C!Sin(4 * x + d, 4 * d)
  <1>1. 4 * x + d \in Nat /\ 4 * d \in Nat /\ 4 * d > 0  OBVIOUS
  <1>2. s \in Int /\ C!Within(s, - (4 * d), 4 * d)  BY <1>1, SinWithin
  <1>3. C!Cos(x, d) = s \div 4  BY DEF C!Cos
  <1> HIDE DEF s
  <1> QED  BY <1>2, <1>3 DEF C!Within

\* Periods and ranges.
LEMMA Periods ==
  ASSUME MotionType
  PROVE  /\ frames \in Nat /\ frames > 1 /\ on \in Nat /\ on <= frames - 1
         /\ C!PanPeriod \in Nat /\ C!PanPeriod > 0
         /\ C!ZoomPeriod \in Nat /\ C!ZoomPeriod >= 2 * frames
         /\ motion.speed = "fast" => C!ZoomPeriod = 2 * frames
         /\ motion.speed # "fast" => C!ZoomPeriod >= 4 * frames
         /\ C!PulsePeriod \in Nat /\ C!PulsePeriod > 0
         /\ C!GlancePeriod \in Nat /\ C!GlancePeriod > 0
         /\ C!LastFrame = frames - 1
  <1>1. frames \in Nat /\ frames > 1 /\ on \in Nat /\ on <= frames - 1
    BY FramesAre DEF MotionType
  <1>2. C!LastFrame = frames - 1  BY DEF C!LastFrame
  <1>3. CASE motion.speed = "fast"
    <2>1. /\ C!PanPeriod = frames * 1 /\ C!ZoomPeriod = frames * 2
          /\ C!PulsePeriod = 3 /\ C!GlancePeriod = 7
      BY <1>3 DEF C!PanPeriod, C!ZoomPeriod, C!PulsePeriod, C!GlancePeriod
    <2> QED  BY <1>1, <1>2, <1>3, <2>1
  <1>4. CASE motion.speed = "slow"
    <2>1. /\ C!PanPeriod = frames * 3 /\ C!ZoomPeriod = frames * 6
          /\ C!PulsePeriod = 8 /\ C!GlancePeriod = 15
      BY <1>4 DEF C!PanPeriod, C!ZoomPeriod, C!PulsePeriod, C!GlancePeriod
    <2> QED  BY <1>1, <1>2, <1>4, <2>1
  <1>5. CASE motion.speed # "fast" /\ motion.speed # "slow"
    <2>1. /\ C!PanPeriod = frames * 2 /\ C!ZoomPeriod = frames * 4
          /\ C!PulsePeriod = 5 /\ C!GlancePeriod = 10
      BY <1>5 DEF C!PanPeriod, C!ZoomPeriod, C!PulsePeriod, C!GlancePeriod
    <2> QED  BY <1>1, <1>2, <1>5, <2>1
  <1> QED  BY <1>3, <1>4, <1>5

\* The zoom has a range, and a glance has one zoom only.
LEMMA Ranges ==
  ASSUME MotionType
  PROVE  \E a, b \in Int : C!ZoomRange = <<a, b>> /\ (motion.type = "glance" => a = b)
  <1>1. motion \in Motions  BY DEF MotionType
  <1>2. \A x, y \in Int : \E a, b \in Int : C!Or(motion.zoom, <<x, y>>) = <<a, b>>
    BY <1>1, ZoomsAre DEF C!Or
  <1>3. \A x \in Int : \E a, b \in Int : C!Or(motion.zoom, <<x, x>>) = <<a, b>>
    BY <1>2
  <1>4. motion.type \in {"drift", "pulse", "glance", "linear"}  BY <1>1, TypesAre
  <1>5. CASE motion.type = "glance"
    <2>1. PICK a, b \in Int : C!Or(motion.zoom, <<115, 115>>) = <<a, b>>  BY <1>2
    <2>2. C!ZoomRange = <<a, a>>  BY <2>1, <1>5 DEF C!ZoomRange
    <2> QED  BY <2>2
  <1>6. CASE motion.type = "drift"  BY <1>2, <1>6 DEF C!ZoomRange
  <1>7. CASE motion.type = "pulse"  BY <1>2, <1>7 DEF C!ZoomRange
  <1>8. CASE motion.type = "linear"  BY <1>2, <1>8 DEF C!ZoomRange
  <1> QED  BY <1>4, <1>5, <1>6, <1>7, <1>8
\* The wave of a drifting zoom rises all the time, but for the speed fast,
\* whose wave falls in the second half.
LEMMA DriftWave ==
  ASSUME MotionType, NEW x \in Nat, x <= frames - 1
  PROVE  LET w == C!Sin(x, C!ZoomPeriod)
         IN  /\ w \in 0..C!ZoomPeriod
             /\ motion.speed # "fast" \/ 2 * x <= frames => w = 4 * x
  <1> DEFINE p == C!ZoomPeriod
             w == C!Sin(x, p)
  <1>1. p \in Nat /\ p > 0 /\ 2 * x <= p  BY Periods
  <1>2. motion.speed # "fast" \/ 2 * x <= frames => 4 * x <= p  BY Periods
  <1>3. /\ w \in Int
        /\ 4 * x <= p => w = 4 * x
        /\ p < 4 * x /\ 2 * x <= p => w = 2 * p - 4 * x
    BY <1>1, SinWithin
  <1> HIDE DEF p, w
  <1>4. w \in 0..p  BY <1>1, <1>3
  <1> QED  BY <1>2, <1>3, <1>4 DEF p, w

\* The zoom, type by type.
LEMMA ZoomKeepsItsRange ==
  ASSUME MotionType
  PROVE  /\ C!Within(C!Zoom, C!ZoomRange[1] * C!ZoomDen, C!ZoomRange[2] * C!ZoomDen)
         /\ motion.type = "linear" /\ on = frames - 1 => C!Zoom = C!ZoomRange[2] * C!ZoomDen
  <1>1. PICK a, b \in Int : C!ZoomRange = <<a, b>> /\ (motion.type = "glance" => a = b)
    BY Ranges
  <1>2. C!ZoomRange[1] = a /\ C!ZoomRange[2] = b  BY <1>1
  <1>3. motion.type \in {"drift", "pulse", "glance", "linear"}  BY TypesAre DEF MotionType
  <1>4. CASE motion.type = "drift"
    <2>1. C!ZoomDen = C!ZoomPeriod /\ C!ZoomPeriod \in Nat
      BY <1>4, Periods DEF C!ZoomDen
    <2>2. C!Sin(on, C!ZoomPeriod) \in 0..C!ZoomPeriod  BY Periods, DriftWave
    <2>3. C!Zoom = C!Blend(<<a, b>>, C!Sin(on, C!ZoomPeriod), C!ZoomPeriod)
      BY <1>1, <1>4, <2>1 DEF C!Zoom
    <2> QED  BY <1>2, <1>4, <2>1, <2>2, <2>3, BlendWithin
  <1>5. CASE motion.type = "pulse"
    <2> DEFINE p == C!PulsePeriod
               s == C!Sin(on, p)
    <2>1. p \in Nat /\ p > 0 /\ on \in Nat  BY Periods
    <2>2. s \in Int /\ C!Within(s, - p, p)  BY <2>1, SinWithin
    <2>3. C!ZoomDen = 2 * p  BY <1>5 DEF C!ZoomDen
    <2>4. C!Wave(on, p) = s + p  BY DEF C!Wave
    <2>5. C!Zoom = C!Blend(<<a, b>>, C!Wave(on, p), C!ZoomDen)
      BY <1>1, <1>5 DEF C!Zoom
    <2> HIDE DEF p, s
    <2>6. s + p \in 0..2 * p /\ 2 * p \in Nat  BY <2>1, <2>2 DEF C!Within
    <2> QED  BY <1>2, <1>5, <2>3, <2>4, <2>5, <2>6, BlendWithin
  <1>6. CASE motion.type = "glance"
    <2>1. C!ZoomDen = 1 /\ C!Zoom = a  BY <1>1, <1>2, <1>6 DEF C!ZoomDen, C!Zoom
    <2> QED  BY <1>1, <1>2, <1>6, <2>1 DEF C!Within
  <1>7. CASE motion.type = "linear"
    <2>1. C!ZoomDen = frames - 1 /\ frames - 1 \in Nat /\ on \in 0..frames - 1
      BY <1>7, Periods DEF C!ZoomDen
    <2>2. C!Zoom = C!Blend(<<a, b>>, on, frames - 1)  BY <1>1, <1>7, <2>1 DEF C!Zoom
    <2> QED  BY <1>2, <2>1, <2>2, BlendWithin
  <1> QED  BY <1>3, <1>4, <1>5, <1>6, <1>7

\* The pan, type by type.
LEMMA PanKeepsItsRange ==
  ASSUME MotionType
  PROVE  /\ C!Within(C!PanX, - C!PanDen, C!PanDen)
         /\ C!Within(C!PanY, - C!PanDen, C!PanDen)
         /\ motion.type = "linear" /\ on = frames - 1 =>
              C!PanX = C!PanDen /\ C!PanY = C!PanDen
  <1>1. motion.type \in {"drift", "pulse", "glance", "linear"}  BY TypesAre DEF MotionType
  <1>2. /\ frames \in Nat /\ frames > 1 /\ on \in Nat /\ on <= frames - 1
        /\ C!PanPeriod \in Nat /\ C!PanPeriod > 0
        /\ C!GlancePeriod \in Nat /\ C!GlancePeriod > 0
        /\ C!LastFrame = frames - 1
    BY Periods
  <1>3. CASE motion.type = "drift"
    <2>1. C!PanX = C!Sin(on, C!PanPeriod) /\ C!PanY = C!Cos(on, C!PanPeriod)
          /\ C!PanDen = C!PanPeriod
      BY <1>3 DEF C!PanX, C!PanY, C!PanDen
    <2> QED  BY <1>2, <1>3, <2>1, SinWithin, CosWithin
  <1>4. CASE motion.type = "glance"
    <2>1. C!PanX = C!Sin(on, C!GlancePeriod) /\ C!PanY = 0 /\ C!PanDen = C!GlancePeriod
      BY <1>4 DEF C!PanX, C!PanY, C!PanDen
    <2>2. C!Within(0, - C!GlancePeriod, C!GlancePeriod)  BY <1>2 DEF C!Within
    <2> QED  BY <1>2, <1>4, <2>1, <2>2, SinWithin
  <1>5. CASE motion.type = "pulse"
    <2>1. C!PanX = 0 /\ C!PanY = 0 /\ C!PanDen = frames - 1
      BY <1>2, <1>5 DEF C!PanX, C!PanY, C!PanDen
    <2> QED  BY <1>2, <1>5, <2>1 DEF C!Within
  <1>6. CASE motion.type = "linear"
    <2>1. C!PanX = 2 * on - (frames - 1) /\ C!PanY = 2 * on - (frames - 1)
          /\ C!PanDen = frames - 1
      BY <1>2, <1>6 DEF C!PanX, C!PanY, C!PanDen
    <2> QED  BY <1>2, <1>6, <2>1 DEF C!Within
  <1> QED  BY <1>1, <1>3, <1>4, <1>5, <1>6

\* The camera stays in its ranges, whichever way they lead, at any length.
THEOREM RangesAreKept == C!Spec => []KeepsItsRanges
  <1>1. MotionType => KeepsItsRanges
    BY ZoomKeepsItsRange, PanKeepsItsRange DEF KeepsItsRanges, C!KeepsItsRanges
  <1> QED  BY <1>1, MotionTyped, PTL

\* What a drifting camera's zoom does from one frame to the next.
LEMMA DriftStep ==
  ASSUME NEW a \in Int, NEW b \in Int, NEW p \in Nat, NEW x \in Int, NEW y \in Int, x <= y
  PROVE  /\ a < b => C!Blend(<<a, b>>, x, p) <= C!Blend(<<a, b>>, y, p)
         /\ b < a => C!Blend(<<a, b>>, y, p) <= C!Blend(<<a, b>>, x, p)
  <1> DEFINE v == (b - a) * x
             w == (b - a) * y
  <1>1. C!Blend(<<a, b>>, x, p) = a * p + v /\ C!Blend(<<a, b>>, y, p) = a * p + w
    BY DEF C!Blend
  <1>2. v \in Int /\ w \in Int /\ a * p \in Int /\ (b - a) * (y - x) = w - v
        /\ (a - b) * (y - x) = v - w
    OBVIOUS
  <1>3. a < b => w - v \in Nat
    <2> HAVE a < b
    <2>1. b - a \in Nat /\ y - x \in Nat  OBVIOUS
    <2> QED  BY <2>1, <1>2, ProductNat
  <1>4. b < a => v - w \in Nat
    <2> HAVE b < a
    <2>1. a - b \in Nat /\ y - x \in Nat  OBVIOUS
    <2> QED  BY <2>1, <1>2, ProductNat
  <1> HIDE DEF v, w
  <1> QED  BY <1>1, <1>2, <1>3, <1>4

\* The zoom turns back at the speed fast only, and in the second half.
THEOREM TurnsBackLate == C!Spec => TurnsBackOnlyFast
  <1>1. ASSUME MotionType, MotionType', C!NextFrame,
               motion.type = "drift", C!TurnsBack
        PROVE  motion.speed = "fast" /\ 2 * on' >= frames
    <2> SUFFICES ASSUME motion.speed # "fast" \/ 2 * on' < frames  PROVE FALSE
      <3>1. on \in Nat /\ on' = on + 1 /\ frames \in Nat  BY <1>1, Periods DEF C!NextFrame
      <3> QED  BY <3>1
    <2> DEFINE p == C!ZoomPeriod
               x == C!Sin(on, p)
               y == C!Sin(on', p)
    <2>1. on \in Nat /\ on' = on + 1 /\ on <= frames - 1 /\ on' <= frames - 1 /\ frames \in Nat
          /\ p \in Nat
      BY <1>1, Periods DEF C!NextFrame
    <2>2. UNCHANGED <<motion, frames>>  BY <1>1 DEF C!NextFrame
    <2>3. x = 4 * on
      <3>1. motion.speed # "fast" \/ 2 * on <= frames  BY <2>1
      <3> QED  BY <1>1, <2>1, <3>1, DriftWave
    <2>4. y = 4 * on'
      <3>1. motion.speed # "fast" \/ 2 * on' <= frames  BY <2>1
      <3>2. on' \in Nat  BY <2>1
      <3> QED  BY <1>1, <2>1, <3>1, <3>2, DriftWave
    <2>5. PICK a, b \in Int : C!ZoomRange = <<a, b>>  BY <1>1, Ranges
    <2>6. C!Zoom = C!Blend(<<a, b>>, x, p)
      BY <1>1, <2>5 DEF C!Zoom, C!ZoomDen
    <2>7. C!Zoom' = C!Blend(<<a, b>>, y, p)
      BY <1>1, <2>2, <2>5 DEF C!Zoom, C!ZoomDen, C!ZoomRange, C!Or, C!ZoomPeriod, C!Blend, C!Sin
    <2>8. x \in Int /\ y \in Int /\ x <= y  BY <2>1, <2>3, <2>4
    <2>9. /\ C!Blend(<<a, b>>, x, p) \in Int /\ C!Blend(<<a, b>>, y, p) \in Int
      BY <2>1, <2>8 DEF C!Blend
    <2> HIDE DEF x, y, p
    <2>10. /\ a < b => C!Blend(<<a, b>>, x, p) <= C!Blend(<<a, b>>, y, p)
           /\ b < a => C!Blend(<<a, b>>, y, p) <= C!Blend(<<a, b>>, x, p)
      BY <2>1, <2>8, DriftStep
    <2>11. \/ a < b /\ C!Zoom' < C!Zoom
           \/ b < a /\ C!Zoom < C!Zoom'
      BY <1>1, <2>5 DEF C!TurnsBack
    <2> QED  BY <2>6, <2>7, <2>9, <2>10, <2>11
  <1>2. MotionType /\ MotionType' /\ [C!NextFrame]_(C!vars)
          => [motion.type = "drift" /\ C!TurnsBack
                => motion.speed = "fast" /\ 2 * on' >= frames]_(C!vars)
    BY <1>1
  <1> QED  BY <1>2, MotionTyped, PTL DEF C!Spec, TurnsBackOnlyFast, C!TurnsBackOnlyFast
(***************************************************************************)
(* Overlay.  The expression is a recursive function: first that there is   *)
(* such a function, then what holds of it after every animation.           *)
(***************************************************************************)

\* An overlay and the clock.
OverlayType == overlay \in Animated /\ u \in Nat

LEMMA OverlayTyped == O!Spec => []OverlayType
  <1>1. O!Init => OverlayType  BY DEF O!Init, OverlayType
  <1>2. OverlayType /\ [O!Play]_(O!vars) => OverlayType'
    BY DEF O!Play, O!vars, OverlayType
  <1> QED  BY <1>1, <1>2, PTL DEF O!Spec

\* The animations of the overlay.
Last == Len(overlay.anims)
Anim(i) == overlay.anims[i]

\* The expression before the first animation, and that there is a function of
\* the number of animations with these values.
First(w) == [x |-> O!Rest(O!Default(w)), last |-> O!Default(w)]
Unfolds(f, m, w) ==
  f = [i \in 0..m |-> IF i = 0 THEN First(w) ELSE O!Around(f[i - 1], Anim(i), w)]

\* The function that the expression is defined by.
Unfolded(f, w) ==
  /\ f[0] = First(w)
  /\ \A i \in 1..Last : f[i] = O!Around(f[i - 1], Anim(i), w)
  /\ O!Place(w) = f[Last].x

\* Such a function exists for any number of animations.
LEMMA Exists ==
  ASSUME NEW w
  PROVE  \A m \in Nat : \E f : Unfolds(f, m, w)
  <1> DEFINE S == {m \in Nat : \E f : Unfolds(f, m, w)}
  <1>1. 0 \in S
    <2> DEFINE f == [i \in 0..0 |-> First(w)]
    <2>1. f = [i \in 0..0 |-> IF i = 0 THEN First(w) ELSE O!Around(f[i - 1], Anim(i), w)]
      OBVIOUS
    <2> QED  BY <2>1 DEF Unfolds
  <1>2. ASSUME NEW m \in Nat, m \in S  PROVE m + 1 \in S
    <2>1. PICK f : Unfolds(f, m, w)  BY <1>2
    <2> DEFINE g == [i \in 0..m + 1 |->
                       IF i = m + 1 THEN O!Around(f[m], Anim(m + 1), w) ELSE f[i]]
               h == [i \in 0..m + 1 |->
                       IF i = 0 THEN First(w) ELSE O!Around(g[i - 1], Anim(i), w)]
    <2>2. ASSUME NEW i \in 0..m + 1  PROVE g[i] = h[i]
      <3>1. CASE i = m + 1
        <4>1. i # 0 /\ i - 1 = m /\ m \in 0..m + 1 /\ m # m + 1  BY <3>1
        <4>2. g[i - 1] = f[m] /\ g[i] = O!Around(f[m], Anim(i), w)  BY <3>1, <4>1
        <4> QED  BY <4>1, <4>2
      <3>2. CASE i = 0
        <4>1. 0 \in 0..m /\ 0 # m + 1  OBVIOUS
        <4>2. f[0] = First(w)  BY <2>1, <4>1 DEF Unfolds
        <4> QED  BY <3>2, <4>1, <4>2
      <3>3. CASE i # 0 /\ i # m + 1
        <4>1. i \in 0..m /\ i - 1 \in 0..m + 1 /\ i - 1 # m + 1  BY <3>3
        <4>2. f[i] = O!Around(f[i - 1], Anim(i), w)  BY <2>1, <3>3, <4>1 DEF Unfolds
        <4> QED  BY <3>3, <4>1, <4>2
      <3> QED  BY <3>1, <3>2, <3>3
    <2>3. g = h  BY <2>2
    <2>4. Unfolds(g, m + 1, w)  BY <2>3 DEF Unfolds
    <2> HIDE DEF g
    <2> QED  BY <2>4
  <1> HIDE DEF S
  <1>3. Nat \subseteq S  BY <1>1, <1>2, SetInduction
  <1> QED  BY <1>3 DEF S

LEMMA AnimsAre ==
  \A l \in Animated : l.anims \in Seq(O!Animations) /\ l.start \in Nat
  BY OverlaysAssumption, Zenon DEF O!OverlayAssumption

LEMMA LastAre ==
  ASSUME overlay \in Animated
  PROVE  Last \in Nat /\ DOMAIN overlay.anims = 1..Last
         /\ \A i \in 1..Last : Anim(i) \in O!Animations
  <1> DEFINE s == overlay.anims
  <1>1. s \in Seq(O!Animations)  BY AnimsAre
  <1> HIDE DEF s
  <1>2. Len(s) \in Nat /\ DOMAIN s = 1..Len(s) /\ \A i \in 1..Len(s) : s[i] \in O!Animations
    BY <1>1
  <1> QED  BY <1>2 DEF s, Last, Anim

SomeUnfolded == \A w : \E f : Unfolded(f, w)

\* The expression is the last value of such a function.
LEMMA ItUnfolds == OverlayType => SomeUnfolded
  <1> SUFFICES ASSUME OverlayType, NEW w PROVE \E f : Unfolded(f, w)  BY DEF SomeUnfolded
  <1> DEFINE f == CHOOSE g : Unfolds(g, Last, w)
  <1>1. Last \in Nat  BY LastAre DEF OverlayType
  <1>2. Unfolds(f, Last, w)  BY <1>1, Exists
  <1>3. O!Expr(w) = f[Last]  BY DEF O!Expr, Unfolds, First, Last, Anim
  <1> HIDE DEF f
  <1>4. \A i \in 0..Last : f[i] = IF i = 0 THEN First(w) ELSE O!Around(f[i - 1], Anim(i), w)
    BY <1>2 DEF Unfolds
  <1>5. f[0] = First(w)  BY <1>1, <1>4
  <1>6. \A i \in 1..Last : f[i] = O!Around(f[i - 1], Anim(i), w)  BY <1>1, <1>4
  <1>7. O!Place(w) = f[Last].x  BY <1>3 DEF O!Place
  <1> QED  BY <1>5, <1>6, <1>7 DEF Unfolded

\* The times of an animation.
LEMMA Timed ==
  ASSUME OverlayType, NEW i \in 1..Last
  PROVE  /\ O!Start(Anim(i)) \in Nat /\ O!Finish(Anim(i)) \in Nat
         /\ O!Start(Anim(i)) < O!Finish(Anim(i))
  <1> DEFINE a == Anim(i)
  <1>1. a \in O!Animations  BY LastAre DEF OverlayType
  <1>2. a.at \in Nat /\ a.dur \in Nat \ {0}  BY <1>1, Zenon DEF O!Animations
  <1>3. overlay.start \in Nat  BY AnimsAre DEF OverlayType
  <1> HIDE DEF a
  <1> QED  BY <1>2, <1>3 DEF O!Start, O!Finish, a
\* What an animation that is over has led to.
LEMMA AfterGlide ==
  ASSUME OverlayType, NEW i \in 1..Last, u > 2 * O!Finish(Anim(i)), NEW from, NEW to
  PROVE  /\ O!Glide(Anim(i), from, to) = O!Rest(to)
         /\ ~(u < 2 * O!Start(Anim(i)))
  <1> DEFINE st == O!Start(Anim(i))
             fi == O!Finish(Anim(i))
  <1>1. st \in Nat /\ fi \in Nat /\ st < fi /\ u \in Nat  BY Timed DEF OverlayType
  <1>2. O!Glide(Anim(i), from, to) =
          IF u <= 2 * st THEN O!Rest(from)
          ELSE IF u >= 2 * fi THEN O!Rest(to) ELSE O!Between(from, to)
    BY DEF O!Glide
  <1> HIDE DEF st, fi
  <1>3. u > 2 * fi  BY DEF fi
  <1>4. ~(u <= 2 * st) /\ u >= 2 * fi /\ ~(u < 2 * st)  BY <1>1, <1>3
  <1> QED  BY <1>2, <1>4 DEF st

\* When all animations are over each of the expressions rests where the last
\* move so far leads to, if no slide came after it.
RestsAt(f, m, w) ==
  /\ f[m].x = O!Rest(f[m].last)
  /\ \/ f[m].last = O!Default(w)
     \/ \E i \in 1..m : /\ O!Moves(Anim(i)) /\ f[m].last = Anim(i).target
                        /\ \A j \in 1..m : j > i => ~O!Moving(Anim(j))
  /\ \A i \in O!LastMove : i <= m => f[m].last = Anim(i).target

\* One more animation that is over.
LEMMA RestsNext ==
  ASSUME OverlayType, O!Over, NEW f, NEW w, Unfolded(f, w), NEW m \in Nat, m + 1 <= Last,
         RestsAt(f, m, w)
  PROVE  RestsAt(f, m + 1, w)
  <1> DEFINE a == Anim(m + 1)
             b == f[m]
             c == f[m + 1]
  <1>1. Last \in Nat /\ DOMAIN overlay.anims = 1..Last  BY LastAre DEF OverlayType
  <1>2. m + 1 \in 1..Last /\ (m + 1) - 1 = m  BY <1>1
  <1>3. u > 2 * O!Finish(a)  BY <1>1, <1>2 DEF O!Over, Anim
  <1>4. c = O!Around(b, a, w)  BY <1>2 DEF Unfolded
  <1>5. \A i \in O!LastMove : i \in 1..Last /\ O!Moves(Anim(i))
          /\ \A j \in 1..Last : j > i => ~O!Moving(Anim(j))
    BY <1>1 DEF O!LastMove, Anim
  <1>6. \A i \in O!LastMove : i <= m + 1 /\ i # m + 1 => i <= m  BY <1>1, <1>5
  <1>7. CASE O!Slides(a)
    <2>1. c = [x |-> O!Slide(a, w), last |-> O!Default(w)]  BY <1>4, <1>7 DEF O!Around
    <2>2. c.x = O!Slide(a, w) /\ c.last = O!Default(w)  BY <2>1
    <2>3. O!Slide(a, w) = O!Rest(O!Default(w))  BY <1>2, <1>3, AfterGlide DEF O!Slide
    <2>4. ~O!Moves(a)  BY <1>7 DEF O!Slides, O!Moves
    <2>5. \A i \in O!LastMove : ~(i <= m + 1)
      <3> SUFFICES ASSUME NEW i \in O!LastMove, i <= m + 1  PROVE FALSE  OBVIOUS
      <3>1. i \in 1..Last /\ O!Moves(Anim(i))  BY <1>5
      <3>2. i # m + 1  BY <3>1, <2>4
      <3>3. m + 1 > i  BY <1>1, <3>1, <3>2
      <3>4. ~O!Moving(a)  BY <1>2, <1>5, <3>3
      <3> QED  BY <1>7, <3>4 DEF O!Moving
    <2> QED  BY <2>2, <2>3, <2>5 DEF RestsAt
  <1>8. CASE ~O!Slides(a) /\ O!Moves(a)
    <2>1. c = [x |-> O!Move(a, b.x, b.last), last |-> a.target]  BY <1>4, <1>8 DEF O!Around
    <2>2. c.x = O!Move(a, b.x, b.last) /\ c.last = a.target  BY <2>1
    <2>3. O!Move(a, b.x, b.last) = O!Rest(a.target)
      BY <1>2, <1>3, AfterGlide DEF O!Move
    <2>4. \A i \in O!LastMove : i <= m + 1 => i = m + 1
      <3> SUFFICES ASSUME NEW i \in O!LastMove, i <= m + 1, i # m + 1  PROVE FALSE
        OBVIOUS
      <3>1. m + 1 > i  BY <1>1, <1>5
      <3>2. ~O!Moving(a)  BY <1>2, <1>5, <3>1
      <3> QED  BY <1>8, <3>2 DEF O!Moving
    <2>5. \A i \in O!LastMove : i <= m + 1 => c.last = Anim(i).target  BY <2>2, <2>4
    <2>6. \E i \in 1..m + 1 : /\ O!Moves(Anim(i)) /\ c.last = Anim(i).target
                              /\ \A j \in 1..m + 1 : j > i => ~O!Moving(Anim(j))
      <3>1. m + 1 \in 1..m + 1 /\ \A j \in 1..m + 1 : ~(j > m + 1)  OBVIOUS
      <3> QED  BY <3>1, <2>2, <1>8
    <2> QED  BY <2>2, <2>3, <2>5, <2>6 DEF RestsAt
  <1>9. CASE ~O!Moving(a)
    <2>1. ~O!Slides(a) /\ ~O!Moves(a)  BY <1>9 DEF O!Moving
    <2>2. c = b  BY <1>4, <2>1 DEF O!Around
    <2>3. \A i \in O!LastMove : i <= m + 1 => i <= m  BY <1>5, <1>6, <2>1
    <2>4. ASSUME NEW i \in 1..m, O!Moves(Anim(i)), b.last = Anim(i).target,
                 \A j \in 1..m : j > i => ~O!Moving(Anim(j))
          PROVE  \E h \in 1..m + 1 : /\ O!Moves(Anim(h)) /\ c.last = Anim(h).target
                                     /\ \A j \in 1..m + 1 : j > h => ~O!Moving(Anim(j))
      <3>1. i \in 1..m + 1  OBVIOUS
      <3>2. \A j \in 1..m + 1 : j \in 1..m \/ j = m + 1  OBVIOUS
      <3>3. \A j \in 1..m + 1 : j > i => ~O!Moving(Anim(j))  BY <2>4, <3>2, <1>9
      <3> QED  BY <2>2, <2>4, <3>1, <3>3
    <2> HIDE DEF b, c
    <2>5. /\ b.x = O!Rest(b.last)
          /\ \A i \in O!LastMove : i <= m => b.last = Anim(i).target
          /\ \/ b.last = O!Default(w)
             \/ \E i \in 1..m : /\ O!Moves(Anim(i)) /\ b.last = Anim(i).target
                                /\ \A j \in 1..m : j > i => ~O!Moving(Anim(j))
      BY DEF RestsAt, b
    <2>6. /\ c.x = O!Rest(c.last)
          /\ \A i \in O!LastMove : i <= m + 1 => c.last = Anim(i).target
          /\ \/ c.last = O!Default(w)
             \/ \E i \in 1..m + 1 : /\ O!Moves(Anim(i)) /\ c.last = Anim(i).target
                                    /\ \A j \in 1..m + 1 : j > i => ~O!Moving(Anim(j))
      BY <2>2, <2>3, <2>4, <2>5
    <2> QED  BY <2>6 DEF RestsAt, c
  <1> QED  BY <1>7, <1>8, <1>9 DEF O!Moving

\* By then it is of its full size.
LEMMA FullSize ==
  ASSUME OverlayType, O!Over
  PROVE  O!Sizes = {O!Drawn}
  <1>1. DOMAIN overlay.anims = 1..Last  BY LastAre DEF OverlayType
  <1>2. ASSUME NEW i \in 1..Last  PROVE ~(u < 2 * O!Finish(overlay.anims[i]))
    <2> DEFINE fi == O!Finish(overlay.anims[i])
    <2>1. u > 2 * fi  BY <1>1 DEF O!Over
    <2>2. fi \in Nat /\ u \in Nat  BY Timed DEF OverlayType, Anim
    <2> HIDE DEF fi
    <2>3. ~(u < 2 * fi)  BY <2>1, <2>2
    <2> QED  BY <2>3 DEF fi
  <1>3. O!Pops = {}  BY <1>1, <1>2 DEF O!Pops
  <1> QED  BY <1>3 DEF O!Sizes

\* An overlay ends where the last move listed leads to, for any number of
\* animations of any times and in any order.
THEOREM OverlaySettles == O!Spec => []Settles
  <1>1. OverlayType => Settles
    <2> DEFINE w == O!Drawn
    <2> SUFFICES ASSUME OverlayType, O!Over  PROVE O!Settled(O!Place(w))
      BY FullSize DEF Settles, O!Settles
    <2> HIDE DEF w
    <2>1. PICK f : Unfolded(f, w)  BY ItUnfolds DEF SomeUnfolded
    <2>2. Last \in Nat /\ DOMAIN overlay.anims = 1..Last  BY LastAre DEF OverlayType
    <2> DEFINE S == {m \in Nat : m <= Last => RestsAt(f, m, w)}
    <2>3. 0 \in S
      <3>1. f[0].x = O!Rest(O!Default(w)) /\ f[0].last = O!Default(w)
        BY <2>1 DEF Unfolded, First
      <3>2. \A i \in O!LastMove : ~(i <= 0)  BY <2>2 DEF O!LastMove
      <3>3. RestsAt(f, 0, w)  BY <3>1, <3>2 DEF RestsAt
      <3> QED  BY <3>3
    <2>4. ASSUME NEW m \in Nat, m \in S  PROVE m + 1 \in S
      <3>1. m + 1 <= Last => m <= Last  BY <2>2
      <3> QED  BY <2>1, <2>4, <3>1, RestsNext
    <2> HIDE DEF S
    <2>5. Nat \subseteq S  BY <2>3, <2>4, SetInduction
    <2>6. RestsAt(f, Last, w)
      <3>1. Last \in S /\ Last <= Last  BY <2>2, <2>5
      <3> QED  BY <3>1 DEF S
    <2>7. O!Place(w) = f[Last].x  BY <2>1 DEF Unfolded
    <2>8. \A i \in O!LastMove : i \in 1..Last /\ i <= Last  BY <2>2 DEF O!LastMove
    <2>9. CASE O!LastMove = {}
      <3>1. \A i \in 1..Last : O!Moves(Anim(i)) =>
              ~ \A j \in 1..Last : j > i => ~O!Moving(Anim(j))
        BY <2>2, <2>9 DEF O!LastMove, Anim
      <3>2. f[Last].last = O!Default(w)  BY <2>6, <3>1 DEF RestsAt
      <3> QED  BY <2>6, <2>7, <2>9, <3>2 DEF RestsAt, O!Settled, w
    <2>10. CASE O!LastMove # {}
      <3>1. \A i \in O!LastMove : O!Place(w) = O!Rest(Anim(i).target)
        BY <2>6, <2>7, <2>8 DEF RestsAt
      <3> QED  BY <2>10, <3>1 DEF O!Settled, Anim
    <2> QED  BY <2>9, <2>10
  <1> QED  BY <1>1, OverlayTyped, PTL
\* A step of the clock: the overlay and the times of its animations stay.
Ticks == OverlayType /\ overlay' = overlay /\ u' = u + 1

\* The i-th animation's part of the expression at the moment v.
GlideAt(v, i, from, to) ==
  IF v <= 2 * O!Start(Anim(i)) THEN O!Rest(from)
  ELSE IF v >= 2 * O!Finish(Anim(i)) THEN O!Rest(to)
  ELSE O!Between(from, to)

\* What does not change with the clock.
LEMMA Stays ==
  ASSUME Ticks, NEW w
  PROVE  /\ Last' = Last /\ O!Default(w)' = O!Default(w) /\ First(w)' = First(w)
         /\ \A i \in 1..Last :
              /\ Anim(i)' = Anim(i)
              /\ O!Start(Anim(i))' = O!Start(Anim(i))
              /\ O!SlideFrom(Anim(i), w)' = O!SlideFrom(Anim(i), w)
              /\ O!Slides(Anim(i))' = O!Slides(Anim(i))
              /\ O!Moves(Anim(i))' = O!Moves(Anim(i))
  <1>1. overlay' = overlay  BY DEF Ticks
  <1>2. Last' = Last  BY <1>1 DEF Last
  <1>3. O!Default(w)' = O!Default(w)  BY <1>1 DEF O!Default, O!Drawn
  <1>4. First(w)' = First(w)  BY <1>3 DEF First, O!Rest
  <1>5. \A i : Anim(i)' = Anim(i)  BY <1>1 DEF Anim
  <1>6. \A a : O!Start(a)' = O!Start(a)  BY <1>1 DEF O!Start
  <1>7. \A a : O!SlideFrom(a, w)' = O!SlideFrom(a, w)
    BY <1>1, <1>3 DEF O!SlideFrom, O!Edge, O!Width
  <1>8. \A i : O!Slides(Anim(i))' = O!Slides(Anim(i))  BY <1>1 DEF O!Slides, Anim
  <1>9. \A i : O!Moves(Anim(i))' = O!Moves(Anim(i))  BY <1>1 DEF O!Moves, Anim
  <1>10. \A i : O!Start(Anim(i))' = O!Start(Anim(i))  BY <1>1 DEF O!Start, Anim
  <1>11. \A i : O!SlideFrom(Anim(i), w)' = O!SlideFrom(Anim(i), w)
    BY <1>1, <1>3 DEF O!SlideFrom, O!Edge, O!Width, Anim
  <1> QED  BY <1>2, <1>3, <1>4, <1>5, <1>8, <1>9, <1>10, <1>11

\* The part of the expression before and after a step of the clock.
LEMMA Glides ==
  ASSUME Ticks, NEW i \in 1..Last, NEW from, NEW to
  PROVE  /\ O!Glide(Anim(i), from, to) = GlideAt(u, i, from, to)
         /\ O!Glide(Anim(i), from, to)' = GlideAt(u + 1, i, from, to)
  BY DEF Ticks, O!Glide, GlideAt, O!Start, O!Finish, Anim, O!Rest, O!Between

\* Between two moments it sets out or arrives, if it does anything.
LEMMA GlideJoins ==
  ASSUME Ticks, NEW i \in 1..Last, NEW from, NEW to
  PROVE  /\ O!Joins(GlideAt(u, i, from, to), GlideAt(u + 1, i, from, to))
         /\ u + 1 <= 2 * O!Start(Anim(i)) => GlideAt(u + 1, i, from, to) = O!Rest(from)
         /\ \A v \in {u, u + 1} :
              2 * O!Finish(Anim(i)) <= v => GlideAt(v, i, from, to) = O!Rest(to)
  <1> DEFINE st == O!Start(Anim(i))
             fi == O!Finish(Anim(i))
             p == GlideAt(u, i, from, to)
             q == GlideAt(u + 1, i, from, to)
  <1>1. st \in Nat /\ fi \in Nat /\ st < fi /\ u \in Nat  BY Timed DEF Ticks, OverlayType
  <1>2. p = IF u <= 2 * st THEN <<from, from>>
            ELSE IF u >= 2 * fi THEN <<to, to>> ELSE <<from, to>>
    BY DEF GlideAt, O!Rest, O!Between
  <1>3. q = IF u + 1 <= 2 * st THEN <<from, from>>
            ELSE IF u + 1 >= 2 * fi THEN <<to, to>> ELSE <<from, to>>
    BY DEF GlideAt, O!Rest, O!Between
  <1>4. O!Rest(from) = <<from, from>> /\ O!Rest(to) = <<to, to>>  BY DEF O!Rest
  <1> HIDE DEF st, fi, p, q
  <1>5. CASE u + 1 <= 2 * st  BY <1>1, <1>2, <1>3, <1>4, <1>5 DEF O!Joins, p, q, st, fi
  <1>6. CASE u <= 2 * st /\ ~(u + 1 <= 2 * st)
    <2>1. ~(u + 1 >= 2 * fi) /\ ~(u >= 2 * fi)  BY <1>1, <1>6
    <2> QED  BY <1>2, <1>3, <1>6, <2>1 DEF O!Joins, p, q, st, fi
  <1>7. CASE ~(u <= 2 * st)
    <2>1. ~(u + 1 <= 2 * st) /\ (u >= 2 * fi => u + 1 >= 2 * fi)  BY <1>1, <1>7
    <2> QED  BY <1>1, <1>2, <1>3, <1>4, <1>7, <2>1 DEF O!Joins, p, q, st, fi
  <1> QED  BY <1>5, <1>6, <1>7

\* What joins the expressions of two moments after m animations.
OverAt(v, m) == \A i \in 1..m : O!Moving(Anim(i)) => 2 * O!Finish(Anim(i)) <= v
Joined(f, g, m) ==
  /\ f[m].last = g[m].last
  /\ O!Joins(f[m].x, g[m].x)
  /\ OverAt(u, m) => f[m].x = O!Rest(f[m].last)
  /\ OverAt(u + 1, m) => g[m].x = O!Rest(g[m].last)

\* One more animation joins the two moments as well, if the chain is in order.
LEMMA JoinedNext ==
  ASSUME Ticks, O!InOrder, NEW f, NEW g, NEW w, Unfolded(f, w), Unfolded(g, w)',
         NEW m \in Nat, m + 1 <= Last, Joined(f, g, m)
  PROVE  Joined(f, g, m + 1)
  <1> DEFINE a == Anim(m + 1)
             st == O!Start(a)
             fi == O!Finish(a)
  <1>1. OverlayType /\ u \in Nat /\ Last \in Nat /\ DOMAIN overlay.anims = 1..Last
    BY LastAre DEF Ticks, OverlayType
  <1>2. m + 1 \in 1..Last /\ (m + 1) - 1 = m  BY <1>1
  <1>3. st \in Nat /\ fi \in Nat /\ st < fi  BY <1>1, <1>2, Timed
  <1>4. f[m + 1] = O!Around(f[m], a, w)  BY <1>2 DEF Unfolded
  <1>5. g[m + 1] = O!Around(g[m], a, w)'
    <2>1. Last' = Last  BY Stays
    <2>2. \A i \in 1..Last' : g[i] = O!Around(g[i - 1], Anim(i), w)'  BY DEF Unfolded
    <2> QED  BY <1>2, <2>1, <2>2
  <1>6. O!Slides(a)' = O!Slides(a) /\ O!Moves(a)' = O!Moves(a) /\ a' = a
        /\ O!Start(a)' = st /\ O!SlideFrom(a, w)' = O!SlideFrom(a, w) /\ O!Default(w)' = O!Default(w)
    BY <1>2, Stays
  <1>7. \A v : OverAt(v, m + 1) => OverAt(v, m)  BY DEF OverAt
  <1>8. \A v : OverAt(v, m + 1) /\ O!Moving(a) => 2 * fi <= v  BY DEF OverAt
  <1>9. CASE O!Slides(a)
    <2> DEFINE from == O!SlideFrom(a, w)
               to == O!Default(w)
    <2>1. f[m + 1].x = O!Slide(a, w) /\ f[m + 1].last = to
      BY <1>4, <1>9 DEF O!Around
    <2>2. g[m + 1].x = O!Slide(a, w)' /\ g[m + 1].last = to
      BY <1>5, <1>6, <1>9 DEF O!Around
    <2>3. O!Slide(a, w) = GlideAt(u, m + 1, from, to)
      BY <1>2, Glides DEF O!Slide
    <2>4. O!Slide(a, w)' = GlideAt(u + 1, m + 1, from, to)
      <3>1. O!Slide(a, w)' = O!Glide(a, from, to)'  BY DEF O!Slide
      <3>2. \A p, q : p = from /\ q = to => O!Glide(a, p, q)' = GlideAt(u + 1, m + 1, p, q)
        BY <1>2, Glides
      <3>3. O!Glide(a, from, to)' = GlideAt(u + 1, m + 1, from, to)
        BY <1>2, <1>6, <3>2 DEF O!Glide, GlideAt, Ticks, O!Start, O!Finish, O!Rest, O!Between
      <3> QED  BY <3>1, <3>3
    <2>5. O!Moving(a)  BY <1>9 DEF O!Moving
    <2> HIDE DEF from, to, a
    <2>6. /\ O!Joins(GlideAt(u, m + 1, from, to), GlideAt(u + 1, m + 1, from, to))
          /\ \A v \in {u, u + 1} : 2 * fi <= v => GlideAt(v, m + 1, from, to) = O!Rest(to)
      BY <1>2, GlideJoins DEF a
    <2> QED  BY <1>8, <2>1, <2>2, <2>3, <2>4, <2>5, <2>6 DEF Joined
  <1>10. CASE ~O!Slides(a) /\ O!Moves(a)
    <2> DEFINE from == f[m].last
               to == a.target
    <2>1. f[m + 1].x = O!Move(a, f[m].x, from) /\ f[m + 1].last = to
      BY <1>4, <1>10 DEF O!Around
    <2>2. from = g[m].last  BY DEF Joined
    <2>3. g[m + 1].x = O!Move(a, g[m].x, from)' /\ g[m + 1].last = to
      BY <1>5, <1>6, <1>10, <2>2 DEF O!Around
    <2>4. f[m + 1].x = IF u < 2 * st THEN f[m].x ELSE GlideAt(u, m + 1, from, to)
      BY <1>2, <2>1, Glides DEF O!Move
    <2>5. g[m + 1].x = IF u + 1 < 2 * st THEN g[m].x ELSE GlideAt(u + 1, m + 1, from, to)
      <3>1. u' = u + 1  BY DEF Ticks
      <3>2. O!Move(a, g[m].x, from)' =
              IF u' < 2 * O!Start(a)' THEN g[m].x ELSE O!Glide(a, from, to)'
        BY <1>6 DEF O!Move
      <3>3. O!Glide(a, from, to)' = GlideAt(u + 1, m + 1, from, to)
        BY <1>6, <3>1 DEF O!Glide, GlideAt, O!Start, O!Finish, O!Rest, O!Between, Ticks
      <3> QED  BY <1>6, <2>3, <3>1, <3>2, <3>3
    <2>6. O!Moving(a)  BY <1>10 DEF O!Moving
    <2>7. OverAt(2 * st, m)
      <3> SUFFICES ASSUME NEW i \in 1..m, O!Moving(Anim(i))
                   PROVE  2 * O!Finish(Anim(i)) <= 2 * st
        BY DEF OverAt
      <3>1. i \in 1..Last /\ i < m + 1  BY <1>1, <1>2
      <3>2. O!Finish(Anim(i)) <= st  BY <1>1, <1>2, <2>6, <3>1 DEF O!InOrder, Anim
      <3>3. O!Finish(Anim(i)) \in Nat  BY <1>1, <3>1, Timed
      <3> QED  BY <1>3, <3>2, <3>3
    <2> HIDE DEF from, to, a
    <2>8. /\ O!Joins(GlideAt(u, m + 1, from, to), GlideAt(u + 1, m + 1, from, to))
          /\ u + 1 <= 2 * st => GlideAt(u + 1, m + 1, from, to) = O!Rest(from)
          /\ \A v \in {u, u + 1} : 2 * fi <= v => GlideAt(v, m + 1, from, to) = O!Rest(to)
      BY <1>2, GlideJoins DEF a
    <2>9. \A v \in {u, u + 1} : OverAt(v, m + 1) => 2 * fi <= v /\ ~(v < 2 * st)
      <3> HIDE DEF st, fi
      <3> QED  BY <1>1, <1>3, <1>8, <2>6
    <2>10. OverAt(u, m + 1) => f[m + 1].x = O!Rest(to)  BY <2>4, <2>8, <2>9
    <2>11. OverAt(u + 1, m + 1) => g[m + 1].x = O!Rest(to)  BY <2>5, <2>8, <2>9
    <2>12. O!Joins(f[m + 1].x, g[m + 1].x)
      <3>1. CASE u + 1 < 2 * st
        <4>1. u < 2 * st  BY <1>1, <1>3, <3>1
        <4> QED  BY <2>4, <2>5, <3>1, <4>1 DEF Joined
      <3>2. CASE u < 2 * st /\ ~(u + 1 < 2 * st)
        <4>1. u + 1 = 2 * st  BY <1>1, <1>3, <3>2
        <4>2. u + 1 <= 2 * st  BY <1>1, <4>1
        <4>3. f[m + 1].x = f[m].x  BY <2>4, <3>2
        <4>4. g[m + 1].x = O!Rest(from)  BY <2>5, <2>8, <3>2, <4>2
        <4>5. g[m].x = O!Rest(from)  BY <2>2, <2>7, <4>1 DEF Joined
        <4> QED  BY <4>3, <4>4, <4>5 DEF Joined
      <3>3. CASE ~(u < 2 * st)
        <4>1. ~(u + 1 < 2 * st)  BY <1>1, <1>3, <3>3
        <4> QED  BY <2>4, <2>5, <2>8, <3>3, <4>1
      <3> QED  BY <3>1, <3>2, <3>3
    <2> QED  BY <2>1, <2>3, <2>10, <2>11, <2>12 DEF Joined
  <1>11. CASE ~O!Moving(a)
    <2>1. ~O!Slides(a) /\ ~O!Moves(a)  BY <1>11 DEF O!Moving
    <2>2. f[m + 1] = f[m]  BY <1>4, <2>1 DEF O!Around
    <2>3. g[m + 1] = g[m]  BY <1>5, <1>6, <2>1 DEF O!Around
    <2> QED  BY <1>7, <2>2, <2>3 DEF Joined
  <1> QED  BY <1>9, <1>10, <1>11 DEF O!Moving

\* Chained moves in order never make an overlay jump, however many there are.
THEOREM OverlayNeverJumps == O!Spec => NeverJumps
  <1>1. O!Spec => [](OverlayType /\ SomeUnfolded)  BY OverlayTyped, ItUnfolds, PTL
  <1>2. ASSUME OverlayType, SomeUnfolded, SomeUnfolded', O!Play, O!InOrder, NEW w
        PROVE  O!Joins(O!Place(w), O!Place(w)')
    <2>1. Ticks  BY <1>2 DEF O!Play, Ticks
    <2>2. PICK f : Unfolded(f, w)  BY <1>2 DEF SomeUnfolded
    <2>3. PICK g : Unfolded(g, w)'  BY <1>2 DEF SomeUnfolded
    <2>4. Last \in Nat  BY <1>2, LastAre DEF OverlayType
    <2> DEFINE S == {m \in Nat : m <= Last => Joined(f, g, m)}
    <2>5. 0 \in S
      <3>1. f[0] = First(w) /\ g[0] = First(w)
        <4>1. g[0] = First(w)' /\ First(w)' = First(w)  BY <2>1, <2>3, Stays DEF Unfolded
        <4> QED  BY <2>2, <4>1 DEF Unfolded
      <3>2. Joined(f, g, 0)  BY <3>1 DEF Joined, First, O!Joins
      <3> QED  BY <3>2
    <2>6. ASSUME NEW m \in Nat, m \in S  PROVE m + 1 \in S
      <3>1. m + 1 <= Last => m <= Last  BY <2>4
      <3> QED  BY <1>2, <2>1, <2>2, <2>3, <2>6, <3>1, JoinedNext
    <2> HIDE DEF S
    <2>7. Nat \subseteq S  BY <2>5, <2>6, SetInduction
    <2>8. Joined(f, g, Last)
      <3>1. Last \in S /\ Last <= Last  BY <2>4, <2>7
      <3> QED  BY <3>1 DEF S
    <2>9. O!Place(w) = f[Last].x  BY <2>2 DEF Unfolded
    <2>10. O!Place(w)' = g[Last].x
      <3>1. O!Place(w)' = g[Last'].x /\ Last' = Last  BY <2>1, <2>3, Stays DEF Unfolded
      <3> QED  BY <3>1
    <2> QED  BY <2>8, <2>9, <2>10 DEF Joined
  <1>3. OverlayType /\ SomeUnfolded /\ SomeUnfolded' /\ [O!Play]_(O!vars)
          => [O!InOrder => \A w \in O!Sizes : O!Joins(O!Place(w), O!Place(w)')]_(O!vars)
    BY <1>2
  <1> QED  BY <1>1, <1>3, PTL DEF O!Spec, NeverJumps, O!NeverJumps
=============================================================================
