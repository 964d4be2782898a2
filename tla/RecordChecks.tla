---------------------------- MODULE RecordChecks ----------------------------
(***************************************************************************)
(* What stored sessions and attachments promise, checked over bounded      *)
(* conversations.  TLC evaluates these assumptions in every run that       *)
(* extends this module.                                                    *)
(***************************************************************************)
LOCAL INSTANCE Integers
LOCAL INSTANCE Sequences
LOCAL INSTANCE SequencesExt
LOCAL INSTANCE Functions
LOCAL INSTANCE SessionFormats
LOCAL INSTANCE Attachments

-----------------------------------------------------------------------------
\* ---- sessions

SomeCalls == {Call("s", TRUE, TRUE, <<"q">>), Call("x", TRUE, FALSE, <<"q">>)}

SomeItems ==
    {UserItem(<<[media |-> TRUE, text |-> <<>>], [media |-> FALSE, text |-> <<"u">>]>>),
     ReasoningItem(<<"r">>, None), ReasoningItem(<<>>, "seal"), ResultItem("c", <<"t">>),
     AssistantItem(<<"a">>, <<>>, <<>>, None),
     AssistantItem(<<>>, <<Call("c", FALSE, FALSE, <<>>)>>, <<"own">>, None)}
      \cup {BackendItem(call, field) : call \in SomeCalls, field \in {"action", None}}

SomeSessions == BoundedSeq(SomeItems, 4)

OfKind(items, kind) == SelectSeq(items, LAMBDA e : e.kind = kind)

\* A session turned into messages loses no reasoning, no call and no result,
\* and keeps each in its order, even of a turn that was cut off before its
\* answer.  (Images and audio are lost, and how reasoning and calls alternate.)
ASSUME MessagesKeepTurns ==
    \A items \in SomeSessions :
        LET messages == ToMessages(items) IN
        /\ FlattenSeq([i \in DOMAIN messages |-> messages[i].reasoning]) = OfKind(items, "reasoning")
        /\ FlattenSeq([i \in DOMAIN messages |-> [j \in DOMAIN messages[i].calls |->
                                                  messages[i].calls[j].id]])
             = FlattenSeq([i \in DOMAIN items |->
                          CASE items[i].kind = "backend" -> <<items[i].call.id>>
                            [] items[i].kind = "assistant" ->
                                 [j \in DOMAIN items[i].calls |-> items[i].calls[j].id]
                            [] OTHER -> <<>>])
        /\ Len(SelectSeq(messages, LAMBDA m : m.role \in {"user", "tool"}))
             = Len(OfKind(items, "user")) + Len(OfKind(items, "result"))

\* What a trip through messages changes, the next trip leaves as it is: hosts
\* that keep messages and the sessions upgraded from them agree for good.
ASSUME UpgradeSettles ==
    \A items \in SomeSessions :
        LET upgraded == ToItems(ToMessages(items)) IN
        ToItems(ToMessages(upgraded)) = upgraded

\* A file of either form is read for what it holds; one form under the other's
\* version is corrupt, and so is a file cut short.
ASSUME FilesReadBack ==
    \A items \in BoundedSeq(SomeItems, 2) :
        LET old == [torn |-> FALSE, version |-> 1, form |-> "messages",
                    content |-> ToMessages(items)] IN
        /\ Parse(Saved(items)).items = items
        /\ Parse(Saved(Parse(old).items)).items = Parse(old).items
        /\ \A file \in {[old EXCEPT !.version = 2], [Saved(items) EXCEPT !.version = 0],
                        [Saved(items) EXCEPT !.torn = TRUE]} : Parse(file).error

\* The groups of a session are its items cut between turns: an answer ends its
\* group, and what leads to it stands in the same one.
ASSUME GroupsAreTurns ==
    \A items \in SomeSessions :
        LET groups == TurnGroups(items) IN
        /\ FlattenSeq(groups) = items
        /\ \A g \in DOMAIN groups : \A i \in DOMAIN groups[g] :
              groups[g][i].kind \notin {"reasoning", "backend"} => i = Len(groups[g])
        /\ \A g \in DOMAIN groups :
              g > 1 /\ Head(groups[g]).kind = "assistant" =>
                 Last(groups[g - 1]).kind \notin {"reasoning", "backend"}

-----------------------------------------------------------------------------
\* ---- attachments

SomeContents ==
    [mime : {"png", "jpeg"}, bytes : {1},
     segments : {<<[marker |-> "frame", size |-> <<3, 2>>]>>,
                 <<[marker |-> "other", size |-> <<1, 1>>], [marker |-> "frame", size |-> <<2, 2>>]>>,
                 <<[marker |-> "torn", size |-> <<2, 2>>], [marker |-> "frame", size |-> <<2, 2>>]>>}]

SomeDiskFiles == [kind : {"file"}, inside : {TRUE}, content : SomeContents, extension : {"png"}]
                   \cup {[kind |-> kind, inside |-> FALSE, content |-> CHOOSE c \in SomeContents : TRUE,
                          extension |-> "png"] : kind \in {"none", "link", "file"}}

Image(id, path, mime, size) ==
    [kind |-> "image", id |-> id, path |-> path, mime |-> mime, size |-> size, bytes |-> 1,
     blank |-> FALSE]

SomeParts == {Image(id, path, mime, size) : id \in {"i", "j"}, path \in {1, 2},
                                            mime \in {"png", "jpeg"}, size \in {<<3, 2>>, <<2, 2>>}}

SomeTurns == BoundedSeq(BoundedSeq(SomeParts, 1), 2)

PartsOf(turns) == FlattenSeq(turns)

\* A request goes out only with every image it names, each as the first part
\* that names it declared it; a file that is gone, or another one by now, fails
\* the request, however long ago its turn was.
ASSUME SentAsDeclared ==
    \A turns \in SomeTurns, files \in [1 .. 2 -> SomeDiskFiles] :
        LET read == Materialize(turns, files, "image")
            parts == PartsOf(turns)
            First(i) == \A j \in 1 .. i - 1 : parts[j].id # parts[i].id
        IN  (read.error = Ok) <=>
              \A i \in DOMAIN parts :
                First(i) =>
                  LET file == files[parts[i].path] IN
                  /\ file.kind = "file" /\ file.inside
                  /\ file.content.mime = parts[i].mime
                  /\ ImageSize(file.content) = parts[i].size

\* A turn accepted before its files are read is one that can be sent, when the
\* files are what it says.
ASSUME AcceptedTurnsAreSent ==
    \A parts \in BoundedSeq(SomeParts, 3), files \in [1 .. 2 -> SomeDiskFiles] :
        LET turn == [version |-> 1, type |-> "user_turn", parts |-> parts] IN
        /\ TurnVerdict(turn) = Ok
        /\ \A i \in DOMAIN parts : Verdict(parts[i], files[parts[i].path]) = Ok
        => Materialize(<<parts>>, files, "image").error = Ok

SomeLeaves == {Leaf(x) : x \in {"image_data_url", "audio_data_url", "image_base64", "image_inside",
                                "signed_url", "redacted", "text"}}

SomeKeys == {"image_url", "audio_url", "source", "inlineData", "data", "url", "other"}

SomeObjects == {Object([k \in {key} |-> v]) : key \in SomeKeys, v \in SomeLeaves}

SomeJson == {Object([k \in {key} |-> v]) : key \in SomeKeys, v \in SomeLeaves \cup SomeObjects}

\* A dump holds no image and no data URL, wherever they were, and no signed URL
\* of an image or a sound; and redacting it again changes nothing.  (A sound's
\* data URL within a longer text is not found.)
ASSUME DumpsHoldNoMedia ==
    \A json \in SomeJson :
        LET dump == RedactJson(json) IN
        /\ LeavesOf(dump) \cap {"image_data_url", "audio_data_url", "image_base64",
                                "image_inside"} = {}
        /\ \A key \in DOMAIN dump.fields \cap {"image_url", "audio_url"} :
              dump.fields[key].leaf # "signed_url"
        /\ RedactJson(dump) = dump
=============================================================================
