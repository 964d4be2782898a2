---------------------------- MODULE Attachments ----------------------------
(***************************************************************************)
(* The images and the audio of a conversation, read for one request, and   *)
(* taken out again of what is dumped of it (llm/image.rs, conversation.rs).*)
(***************************************************************************)
EXTENDS Integers, Sequences

LOCAL INSTANCE SequencesExt
LOCAL INSTANCE Functions
LOCAL INSTANCE FiniteSetsExt

\* MAX_IMAGES_PER_TURN and the like, as small numbers.
MaxImages == 2
MaxAudios == 1
LongEdge  == 3
ShortEdge == 2
MaxAudio  == 2

Ok == "ok"

-----------------------------------------------------------------------------
\* ---- what a file is

\* assert_path_in_root: a regular file, no link, that really lies in the root.
PathVerdict(file) ==
    CASE file.kind = "none" -> "missing"
      [] file.kind = "link" -> "escape"
      [] file.kind = "directory" -> "invalid"
      [] file.kind = "file" -> IF file.inside THEN Ok ELSE "escape"

Unsized == <<0, 0>>

\* jpeg_dimensions: those of the first frame header; a segment cut short ends
\* the search.
JpegSize(segments) ==
    LET i == SelectInSeq(segments, LAMBDA s : s.marker \in {"frame", "torn"})
    IN  IF i = 0 \/ segments[i].marker = "torn" THEN Unsized ELSE segments[i].size

\* png_dimensions: those of the first chunk.
PngSize(segments) ==
    IF segments = <<>> \/ Head(segments).marker # "frame" THEN Unsized ELSE Head(segments).size

ImageSize(content) ==
    IF content.mime = "png" THEN PngSize(content.segments) ELSE JpegSize(content.segments)

Zero(size) == 0 \in {size[1], size[2]}

TooBig(size) == Max({size[1], size[2]}) > LongEdge \/ Min({size[1], size[2]}) > ShortEdge

\* detect_audio_mime: what the file begins with, then its extension.
AudioMime(file) == IF file.content.mime # "unknown" THEN file.content.mime ELSE file.extension

-----------------------------------------------------------------------------
\* ---- materialization

\* materialize_user_item, of one image: every claim of the part is checked
\* against the file.
ImageVerdict(part, file) ==
    LET size == ImageSize(file.content) IN
    IF PathVerdict(file) # Ok THEN PathVerdict(file)
    ELSE IF \/ part.bytes # file.content.bytes
            \/ file.content.mime \notin {"png", "jpeg"} \/ part.mime # file.content.mime
            \/ Zero(size) \/ part.size # size \/ TooBig(size)
         THEN "invalid" ELSE Ok

\* materialize_audio_user_item.
AudioVerdict(part, file) ==
    IF PathVerdict(file) # Ok THEN PathVerdict(file)
    ELSE IF \/ part.bytes # file.content.bytes \/ file.content.bytes > MaxAudio
            \/ part.mime # AudioMime(file)
         THEN "invalid" ELSE Ok

Verdict(part, file) == IF part.kind = "image" THEN ImageVerdict(part, file) ELSE AudioVerdict(part, file)

\* An attachment read once is not read again, whatever a later part says of it.
TakePart(files, state, part) ==
    IF part.kind = "text" \/ part.id \in DOMAIN state.store \/ state.error # Ok THEN state
    ELSE LET verdict == Verdict(part, files[part.path]) IN
         IF verdict # Ok THEN [state EXCEPT !.error = verdict]
         ELSE [state EXCEPT !.store =
                 [id \in DOMAIN @ \cup {part.id} |->
                    IF id = part.id THEN files[part.path].content ELSE @[id]]]

Count(parts, kind) == Len(SelectSeq(parts, LAMBDA p : p.kind = kind))

NothingRead == [store |-> [id \in {} |-> {}], error |-> Ok]

\* materialize_items, then materialize_audio_items: the turns in order, the
\* images before the audio.  The first fault ends it all.
TakeTurn(files, kind, limit, state, parts) ==
    IF state.error # Ok THEN state
    ELSE IF Count(parts, kind) > limit THEN [state EXCEPT !.error = "too_many"]
    ELSE FoldLeft(LAMBDA s, p : TakePart(files, s, p), state,
                  SelectSeq(parts, LAMBDA p : p.kind = kind))

Materialize(turns, files, kind) ==
    FoldLeft(LAMBDA s, parts :
               TakeTurn(files, kind, IF kind = "image" THEN MaxImages ELSE MaxAudios, s, parts),
             NothingRead, turns)

\* parse_user_turn_v2 and validate_shape: what is refused before any file is
\* looked at.
TurnVerdict(turn) ==
    IF turn.version # 1 \/ turn.type # "user_turn" THEN "invalid_turn"
    ELSE IF Count(turn.parts, "image") > MaxImages \/ Count(turn.parts, "audio") > MaxAudios
         THEN "too_many"
    ELSE IF \A i \in DOMAIN turn.parts : turn.parts[i].kind = "text" /\ turn.parts[i].blank
         THEN "invalid_turn"
    ELSE IF \E i \in DOMAIN turn.parts :
              LET p == turn.parts[i] IN
              \/ p.kind = "image" /\ (Zero(p.size) \/ TooBig(p.size))
              \/ p.kind = "audio" /\ p.bytes \notin 1 .. MaxAudio
         THEN "invalid"
    ELSE Ok

-----------------------------------------------------------------------------
\* ---- redaction: a JSON value is a leaf or an object; leaves are named for
\* what they hold.

Leaf(x)    == [leaf |-> x, fields |-> [key \in {} |-> {}]]
Object(f)  == [leaf |-> "object", fields |-> f]
IsLeaf(v)  == v.leaf # "object"
Redacted   == Leaf("redacted")
Media      == {"image_url", "audio_url"}
Inline     == {"source", "inlineData", "inline_data"}

\* What stands for the bytes that were there.
Summary == Object([key \in {"type", "data"} |-> IF key = "data" THEN Redacted ELSE Leaf("text")])

\* redact_signed_url: a query is dropped.
Unsigned(leaf) == IF leaf = "signed_url" THEN Leaf("url") ELSE Leaf(leaf)

\* redact_object, of the value of one key.
RedactField(key, v) ==
    CASE key \in Media /\ IsLeaf(v) ->
           IF (key = "image_url" /\ v.leaf = "image_data_url")
                \/ (key = "audio_url" /\ v.leaf = "audio_data_url")
           THEN Summary ELSE Unsigned(v.leaf)
      [] key = "image_url" /\ ~IsLeaf(v) /\ "url" \in DOMAIN v.fields ->
           IF ~IsLeaf(v.fields["url"]) THEN v
           ELSE Object([v.fields EXCEPT !["url"] =
                          IF @.leaf = "image_data_url" THEN Redacted ELSE Unsigned(@.leaf)])
      [] key \in Inline /\ ~IsLeaf(v) /\ "data" \in DOMAIN v.fields ->
           IF ~IsLeaf(v.fields["data"]) \/ v.fields["data"] = Redacted THEN v
           ELSE Object([v.fields EXCEPT !["data"] = Summary])
      [] OTHER -> v

\* The leaves of redact_image_json; redact_text knows images only.
RedactLeaf(leaf) ==
    CASE leaf \in {"image_data_url", "audio_data_url", "image_base64"} -> Redacted
      [] leaf = "image_inside" -> Leaf("text")
      [] OTHER -> Leaf(leaf)

\* redact_image_json.
RECURSIVE RedactJson(_)
RedactJson(v) ==
    IF IsLeaf(v) THEN RedactLeaf(v.leaf)
    ELSE Object([key \in DOMAIN v.fields |-> RedactJson(RedactField(key, v.fields[key]))])

RECURSIVE LeavesOf(_)
LeavesOf(v) ==
    IF IsLeaf(v) THEN {v.leaf} ELSE UNION {LeavesOf(v.fields[key]) : key \in DOMAIN v.fields}
=============================================================================
