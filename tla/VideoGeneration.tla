--------------------------- MODULE VideoGeneration ---------------------------
(***************************************************************************)
(* generateVideo (renderer/renderer.go): the template's layers are         *)
(* expanded with the payload, each is turned into a file in the job's      *)
(* temporary directory and an input of ffmpeg, and the filter graph names  *)
(* the inputs by their numbers.                                            *)
(*                                                                         *)
(* Names of layers and of files are sequences, so that a name that the     *)
(* code puts together can be the same as one that it was given; a number   *)
(* in a name is as many ones.  What a file holds is told by the layer it   *)
(* was made for and by the asset it was made from.                         *)
(***************************************************************************)
EXTENDS Naturals, Sequences, FiniteSets

CONSTANTS
  Templates,   \* [layers, tracks]: see VideoGenerationAssumption
  Payloads,    \* the payload's "texts", "topic" and "title"
  TextPrefixed,  \* the types that begin with "text_", whatever follows
  None         \* no text, no file, no motion

TextTypes == {"text"} \cup TextPrefixed
OverlayTypes == TextTypes \cup {"box", "icon"}

\* A layer: its asset is the file of an image or an icon, or a text's font.
Layers ==
  [name : Seq(STRING), type : STRING, text : STRING, asset : Seq(STRING) \cup {None},
   motion : BOOLEAN, effect : STRING, shadow : BOOLEAN, box : BOOLEAN]

ASSUME TypesAssumption ==
  /\ {"text_topic", "text_title", "text_carousel_item", "text_pager_item", "text_carousel"}
       \subseteq TextPrefixed
  /\ {"image", "box", "icon", "topic", "title", "pager"} \cap TextPrefixed = {}

ASSUME VideoGenerationAssumption ==
  /\ \A x \in Templates :
       /\ x.layers \in Seq(Layers)
       /\ x.tracks \subseteq [file : Seq(STRING) \cup {None}, plain : BOOLEAN]
       /\ Cardinality(x.tracks) <= 1
  /\ \A p \in Payloads :
       /\ DOMAIN p \subseteq {"texts", "topic", "title"}
       /\ \A f \in DOMAIN p : p[f] \in Seq(STRING)

VARIABLES
  tmpl, payload,   \* the job's template and payload
  pc,              \* "expand", "prepare", "assemble", "run", "failed", "crashed"
  k,               \* the next layer
  expanded,        \* expandSemanticLayers' finalLayers
  prepared,        \* preparedLayers
  inputs,          \* ffmpegInputs: the files behind the -i
  disk,            \* the temporary directory: what each file holds
  graph            \* -filter_complex: its chains and the inputs they name

vars == <<tmpl, payload, pc, k, expanded, prepared, inputs, disk, graph>>

NoGraph == [chains |-> <<>>, audio |-> 0]

\* Nothing done yet.
Fresh ==
  /\ pc = "expand" /\ k = 1
  /\ expanded = <<>> /\ prepared = <<>> /\ inputs = <<>>
  /\ disk = <<>>
  /\ graph = NoGraph

Init ==
  /\ tmpl \in Templates
  /\ payload \in Payloads
  /\ Fresh

Fail ==
  /\ pc' = "failed"
  /\ UNCHANGED <<tmpl, payload, k, expanded, prepared, inputs, graph>>

-----------------------------------------------------------------------------
(* expandSemanticLayers.                                                   *)

\* A payload field that is not there, or not a list of texts, counts as empty.
Field(f) == IF f \in DOMAIN payload THEN payload[f] ELSE <<>>
TextsPayload == Field("texts")

\* payload["topic"].(string)
Text(f) == IF Field(f) = <<>> THEN "" ELSE Field(f)[1]

Numeral(i) == [x \in 1..i |-> "1"]
ItemName(l, i) == Append(l.name, "_") \o Numeral(i - 1)

Item(l, i, type, text) ==
  [l EXCEPT !.name = ItemName(l, i), !.type = type, !.text = text]

\* A carousel's item is built anew, without what only images and boxes have.
Expansion(l) ==
  CASE l.type = "topic" -> <<[l EXCEPT !.type = "text_topic", !.text = Text("topic")]>>
    [] l.type = "title" -> <<[l EXCEPT !.type = "text_title", !.text = Text("title")]>>
    [] l.type = "text_carousel" ->
         [i \in 1..Len(TextsPayload) |-> Item(l, i, "text_carousel_item", TextsPayload[i])]
    [] l.type = "pager" ->
         IF Len(TextsPayload) < 2 THEN <<>>
         ELSE [i \in 1..Len(TextsPayload) |-> Item(l, i, "text_pager_item", "n/m")]
    [] OTHER -> <<l>>

\* text.(string) of something else.
NotText == "not a string"
Panics(l) ==
  l.type = "text_carousel" /\ \E i \in DOMAIN TextsPayload : TextsPayload[i] = NotText

Expand ==
  /\ pc = "expand" /\ k <= Len(tmpl.layers)
  /\ IF Panics(tmpl.layers[k])
     THEN pc' = "crashed" /\ UNCHANGED <<k, expanded>>
     ELSE /\ expanded' = expanded \o Expansion(tmpl.layers[k])
          /\ k' = k + 1
          /\ UNCHANGED pc
  /\ UNCHANGED <<tmpl, payload, prepared, inputs, disk, graph>>

Expanded ==
  /\ pc = "expand" /\ k > Len(tmpl.layers)
  /\ pc' = "prepare" /\ k' = 1
  /\ UNCHANGED <<tmpl, payload, expanded, prepared, inputs, disk, graph>>

-----------------------------------------------------------------------------
(* The files.                                                              *)

Layer == expanded[k]
Preparing == pc = "prepare" /\ k <= Len(expanded)

Png(name) == Append(name, ".png")
\* os.CreateTemp, and the files that renderBackgroundMotion and
\* applyPostEffect always call the same.
\* Seeded fault: a download is named after what it is, not by CreateTemp.
TempFileSame(i) == <<"tmp", ".jpg">>
TempFile(i) == <<"tmp">> \o Numeral(i)
PreprocessedFile == <<"bg_preprocessed", ".png">>
MotionFile == <<"bg_motion.mp4">>
EffectFile(effect) == <<"bg_effect_", effect>>
Effects == {"film", "warm", "cool", "vintage"}

Holds(l, asset) == [of |-> l.name, asset |-> asset]
Download(url) == [of |-> None, asset |-> url]

\* The directory d after the files were written.
Written(d, files, what) ==
  [f \in DOMAIN d \cup files |-> IF f \in files THEN what ELSE d[f]]

\* downloadAsset: a file of that name in the directory is taken for it.
\* An asset's name is its path without the directory, which comes first.
Base(asset) == Tail(asset)
Fetch(asset, d) ==
  IF Base(asset) \in DOMAIN d THEN d ELSE Written(d, {Base(asset)}, Download(asset))

\* The layer has its input.
Prepared(files) ==
  /\ inputs' = inputs \o files
  /\ prepared' = Append(prepared, Layer)
  /\ k' = k + 1
  /\ UNCHANGED <<tmpl, payload, pc, expanded, graph>>

\* downloadFileFromURL; the background may get its motion and an effect.
PrepareImage ==
  /\ Preparing /\ Layer.type = "image"
  /\ LET moved == Layer.name = <<"background">> /\ Layer.motion
         dressed == moved /\ Layer.effect \in Effects
         file == IF dressed THEN EffectFile(Layer.effect)
                 ELSE IF moved THEN MotionFile ELSE TempFile(k)
         used == {TempFile(k)} \cup (IF moved THEN {PreprocessedFile, MotionFile} ELSE {}) \cup {file}
     IN  /\ disk' = Written(disk, used, Holds(Layer, Layer.asset))
         /\ Prepared(<<file>>)

\* generateOverlayElement.  The element - text, icon or box - is drawn to
\* raw_<name>.png, with the asset as it is on disk by then.
RawFile(l) == <<"raw_">> \o Png(l.name)
Element(l, d) ==
  IF l.asset = None THEN [files |-> d, asset |-> None]
  ELSE LET fetched == Fetch(l.asset, d)
       IN  [files |-> fetched, asset |-> fetched[Base(l.asset)].asset]

\* It gets its shadow and its box in files of their own.
Dressing(l) ==
  <<RawFile(l)>>
  \o (IF l.shadow THEN <<<<"shadow_">> \o Png(l.name)>> ELSE <<>>)
  \o (IF l.box /\ l.type \in TextTypes
      THEN <<<<"boxbg_">> \o Png(l.name), <<"boxed_">> \o Png(l.name)>> ELSE <<>>)

\* The last of them is renamed to <name>.png.
Drawing(l, d) ==
  LET element == Element(l, d)
      steps == Dressing(l)
      last == steps[Len(steps)]
      drawn == Written(element.files, {steps[i] : i \in DOMAIN steps} \cup {Png(l.name)},
                       Holds(l, element.asset))
  IN  [f \in DOMAIN drawn \ {last} |-> drawn[f]]

\* A text that the expansion left empty is an empty picture.
Empty(l) == l.type \in TextTypes /\ l.text = ""

PrepareOverlay ==
  /\ Preparing /\ Layer.type \in OverlayTypes
  /\ ~(Layer.type = "text" /\ Empty(Layer))
  /\ ~(Layer.type \in TextTypes /\ ~Empty(Layer) /\ Layer.asset = None)
  /\ disk' = IF Empty(Layer) THEN Written(disk, {Png(Layer.name)}, Holds(Layer, None))
             ELSE Drawing(Layer, disk)
  /\ Prepared(<<Png(Layer.name)>>)

\* A type that nobody knows is prepared without a file.
PrepareUnknown ==
  /\ Preparing
  /\ Layer.type \notin OverlayTypes \cup {"image"}
  /\ UNCHANGED disk
  /\ Prepared(<<>>)

\* An empty text, a text without a font, a download or a command that fails.
PrepareFails ==
  /\ Preparing
  /\ Layer.type \in OverlayTypes \cup {"image"}
  /\ UNCHANGED disk
  /\ Fail

-----------------------------------------------------------------------------
(* The filter graph.                                                       *)

\* "color=c=black", where there is nothing to draw on.
Black == <<"black">>
AudioFile == <<"audio", "tmp">>
NoLayers == prepared = <<>>
WithAudio == \E track \in tmpl.tracks : track.file # None
PlainAudio == \E track \in tmpl.tracks : track.file # None /\ track.plain

\* The number of the audio's input, from 0.
\* Seeded fault: the black picture is forgotten.
AudioInputForgets == Len(prepared)
AudioInput == IF NoLayers THEN 1 ELSE Len(prepared)

\* The chains between the semicolons, as the filters in each of them: an
\* overlay per layer after the first, the format at the end, the audio.
\* Seeded fault: the first overlay is preceded by a semicolon too.
OverlaysEach == <<0>> \o [i \in 1..Len(prepared) - 1 |-> 1]
Overlays == [i \in 1..Len(prepared) - 1 |-> 1]
VideoChains ==
  IF NoLayers THEN <<1>>
  ELSE (IF Len(prepared) = 1 THEN <<0>> ELSE Overlays) \o <<1>>
AudioChains ==
  IF ~WithAudio THEN <<>> ELSE IF PlainAudio THEN <<0>> ELSE <<1>>

NothingToRender ==
  /\ pc = "prepare" /\ k > Len(expanded)
  /\ NoLayers /\ tmpl.tracks = {}
  /\ UNCHANGED disk
  /\ Fail

Assemble ==
  /\ pc = "prepare" /\ k > Len(expanded)
  /\ ~(NoLayers /\ tmpl.tracks = {})
  /\ inputs' = inputs \o (IF NoLayers THEN <<Black>> ELSE <<>>)
                     \o (IF WithAudio THEN <<AudioFile>> ELSE <<>>)
  /\ disk' = IF WithAudio THEN Written(disk, {AudioFile}, Download(AudioFile)) ELSE disk
  /\ graph' = [chains |-> VideoChains \o AudioChains,
               audio |-> IF WithAudio THEN AudioInput ELSE 0]
  /\ pc' = "run"
  /\ UNCHANGED <<tmpl, payload, k, expanded, prepared>>

AudioFails ==
  /\ pc = "prepare" /\ k > Len(expanded)
  /\ WithAudio
  /\ UNCHANGED disk
  /\ Fail

Next ==
  \/ Expand \/ Expanded \/ PrepareImage \/ PrepareOverlay \/ PrepareUnknown
  \/ PrepareFails \/ NothingToRender \/ Assemble \/ AudioFails

Spec == Init /\ [][Next]_vars

-----------------------------------------------------------------------------
(* Properties.                                                             *)

KnownTypes ==
  \A i \in DOMAIN expanded : expanded[i].type \in OverlayTypes \cup {"image"}

\* The highest number of an input in the graph, from 0.
LastNamed ==
  IF WithAudio THEN graph.audio ELSE IF NoLayers THEN 0 ELSE Len(prepared) - 1

\* The graph counts the layers, ffmpeg counts the inputs.  If every layer is of
\* a known type the graph names every input, and the audio's number is the
\* audio's.  If one is not, the numbers are off; but then the graph always
\* names an input that is not there, which ffmpeg refuses, and no layer is
\* ever shown in another one's place.  A chain without a filter, which ffmpeg
\* refuses too, comes of just two things: a template that leaves a single
\* layer, and audio that is played just as it is.
GraphFitsInputs ==
  pc = "run" =>
    /\ KnownTypes =>
         /\ Len(inputs) = (IF NoLayers THEN 1 ELSE Len(prepared)) + (IF WithAudio THEN 1 ELSE 0)
         /\ WithAudio => inputs[graph.audio + 1] = AudioFile
    /\ ~KnownTypes => LastNamed >= Len(inputs)
    /\ (\E i \in DOMAIN graph.chains : graph.chains[i] = 0)
         <=> Len(prepared) = 1 \/ PlainAudio

\* The names that the template and the payload give do not meet: no two
\* layers have one name, no drawing is called as another one while it is made
\* or as an asset, no two assets have one name, and none is called as what is
\* made of the images.
Drawn == {i \in DOMAIN expanded : expanded[i].type \in OverlayTypes}
FilesOf(l) ==
  {pre \o Png(l.name) : pre \in {<<>>, <<"raw_">>, <<"shadow_">>, <<"boxbg_">>, <<"boxed_">>}}
Fetched == {i \in Drawn : expanded[i].asset # None}
Scratch ==
  {TempFile(i) : i \in DOMAIN expanded} \cup {EffectFile(e) : e \in Effects}
  \cup {PreprocessedFile, MotionFile}
NamesApart ==
  /\ \A i, j \in DOMAIN expanded : i # j => expanded[i].name # expanded[j].name
  /\ \A i \in Drawn : PreprocessedFile \notin FilesOf(expanded[i])
  /\ \A i, j \in Drawn : i # j => FilesOf(expanded[i]) \cap FilesOf(expanded[j]) = {}
  /\ \A i \in Fetched :
       /\ Base(expanded[i].asset) \notin Scratch
       /\ \A j \in Drawn : i # j => Base(expanded[i].asset) \notin FilesOf(expanded[j])
       /\ \A j \in Fetched : Base(expanded[i].asset) = Base(expanded[j].asset)
                                => expanded[i].asset = expanded[j].asset

\* When ffmpeg starts, every input still holds the picture of its own layer,
\* made from its own asset: nothing in the directory was overwritten, moved
\* away or taken for something else.
EveryLayerShowsItself ==
  pc = "run" /\ KnownTypes /\ NamesApart =>
    \A i \in DOMAIN prepared :
      /\ inputs[i] \in DOMAIN disk
      /\ disk[inputs[i]].of = prepared[i].name
      /\ disk[inputs[i]].asset \in {prepared[i].asset, None}
=============================================================================
