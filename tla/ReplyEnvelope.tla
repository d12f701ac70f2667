----------------------------- MODULE ReplyEnvelope -----------------------------
(***************************************************************************)
(* What becomes of the text a model answers with: it is asked for a JSON   *)
(* envelope, {"content": ..., "reply_to_id": ...}, and streams it in       *)
(* chunks that end anywhere.  The content goes to the client as far as it  *)
(* can be read, and what the whole parses to is stored                     *)
(* (backend/app/ai/context.py, and the loop of AIService.stream_response   *)
(* that ChatStream abstracts to a complete or broken reply).               *)
(*                                                                         *)
(* A reply is a sequence of symbols, no longer than what has to be told    *)
(* apart: "key" and "id" are the quoted names of the two members, and a    *)
(* group of four hexadecimal digits is one symbol.  Nothing here depends   *)
(* on where inside such a symbol a chunk ends: until its last character is *)
(* there the code takes it for not there.                                  *)
(***************************************************************************)
EXTENDS Naturals, Sequences, SequencesExt

CONSTANTS
    MaxPieces,   \* the bound on what the content is made of
    None

\* What a reply is made of, and what its reader makes of that.
Symbols == {"x", "newline", "quote", "\\", "u", "bmp", "high", "low", "open", "close", "key", "id",
            ":", "comma", "7", "0"}
Characters == Symbols \cup {"invalid", "letter", "emoji", "half"}
Told == Characters \cup {"?"}

ASSUME ReplyConstants ==
    /\ MaxPieces \in Nat
    /\ None \notin [content : Seq(Told), reply : {"7", None}]

\* The pieces of the content, as the model wrote them.
Pieces ==
    {<<"x">>, <<"newline">>, <<"quote">>, <<"\\", "quote">>, <<"\\", "\\">>, <<"\\", "x">>,
     <<"\\", "u", "x">>, <<"\\", "u", "bmp">>, <<"\\", "u", "high">>, <<"\\", "u", "low">>}
\* What may follow the content: ids are positive.
Rests == {<<"close">>, <<"comma", "id", ":", "7", "close">>, <<"comma", "id", ":", "0", "close">>}
\* What the content is wrapped in: the envelope, with its members in either order, with
\* something before or after it.
Starts == {<<"open", "key", ":", "quote">>, <<"x", "open", "key", ":", "quote">>}
Wrap(start, rest) == <<start, <<"quote">> \o rest>>
IdFirst == <<<<"open", "id", ":", "7", "comma", "key", ":", "quote">>, <<"quote", "close">>>>
Trailed == <<<<"open", "key", ":", "quote">>, <<"quote", "close", "x">>>>
Frames == {Wrap(start, rest) : start \in Starts, rest \in Rests} \cup {IdFirst, Trailed}

VARIABLES
    frame, pieces,              \* the reply the model would like to give
    read,                       \* how many symbols of it the provider has sent
    emitted,
    sent,                       \* the deltas the client has, one after the other
    stored                      \* the message and what it answers, once it is persisted

reply == <<frame, pieces>>
vars == <<reply, read, emitted, sent, stored>>

Text == frame[1] \o FlattenSeq(pieces) \o frame[2]
buffer == SubSeq(Text, 1, read)

-------------------------------------------------------------------------------
\* Escapes.

Hex == {"bmp", "high", "low"}
From(t, i) == SubSeq(t, i, Len(t))

\* _low_surrogate_follows
LowFollows(t, i) == i + 5 <= Len(t) /\ SubSeq(t, i + 3, i + 5) = <<"\\", "u", "low">>

\* How many symbols the character at i takes up.
Width(t, i) ==
    IF t[i] # "\\" THEN 1
    ELSE IF t[i + 1] # "u" THEN 2
    ELSE IF t[i + 2] = "high" /\ LowFollows(t, i) THEN 6 ELSE 3

\* json.loads, of the character at i: "half" is half of a pair.
Character(t, i) ==
    IF t[i] # "\\" THEN IF t[i] = "newline" THEN "invalid" ELSE t[i]
    ELSE IF i = Len(t) THEN "invalid"
    ELSE IF t[i + 1] # "u" THEN IF t[i + 1] \in {"quote", "\\"} THEN t[i + 1] ELSE "invalid"
    ELSE IF i + 1 = Len(t) \/ t[i + 2] \notin Hex THEN "invalid"
    ELSE IF t[i + 2] = "bmp" THEN "letter"
    ELSE IF Width(t, i) = 6 THEN "emoji" ELSE "half"

Loads(t) ==
    LET decoded[i \in 1 .. Len(t) + 1] ==
            IF i > Len(t) THEN <<>>
            ELSE IF Character(t, i) = "invalid" THEN <<"invalid">>
            ELSE <<Character(t, i)>> \o decoded[i + Width(t, i)]
    IN  decoded[1]
Decodes(t) == ~Contains(Loads(t), "invalid")

\* _replace_lone_surrogates: the pairs are together already.
ReplaceHalves(text) == [i \in DOMAIN text |-> IF text[i] = "half" THEN "?" ELSE text[i]]

-------------------------------------------------------------------------------
\* extract_streamed_content.

\* Where the value begins, past its opening quote: 0 unless it is a string.
StartOf(t) ==
    LET named == {i \in 1 .. Len(t) - 2 : SubSeq(t, i, i + 2) = <<"key", ":", "quote">>}
    IN  IF named = {} THEN 0 ELSE 3 + CHOOSE i \in named : \A j \in named : i <= j

\* Mutant: an escape is complete with its digits.
HeldDigits(t, i) ==
    t[i] = "\\" /\ (i = Len(t) \/ (t[i + 1] = "u" /\ (i + 1 = Len(t) \/ t[i + 2] \notin Hex)))
\* Dangling, partial or malformed, or a high surrogate without its low one.
Held(t, i) ==
    /\ t[i] = "\\"
    /\ \/ i = Len(t)
       \/ /\ t[i + 1] = "u"
          /\ \/ i + 1 = Len(t)
             \/ t[i + 2] \notin Hex
             \/ t[i + 2] = "high" /\ ~LowFollows(t, i)

\* The scan: the closing quote, or what has to wait for more.
EndOf(t, start) ==
    LET scan[i \in start .. Len(t) + 1] ==
            IF i > Len(t) THEN i
            ELSE IF Held(t, i) \/ t[i] = "quote" THEN i
            ELSE scan[i + Width(t, i)]
    IN  scan[start]

Extract(t) ==
    LET start == StartOf(t)
        value == SubSeq(t, start, EndOf(t, start) - 1)
    IN  IF start = 0 THEN None
        ELSE IF Decodes(value) THEN ReplaceHalves(Loads(value)) ELSE None

-------------------------------------------------------------------------------
\* parse_completion.

\* json.loads of the whole: the value ends at the first quote that is not escaped.
ClosedAt(t, start) ==
    LET scan[i \in start .. Len(t) + 2] ==
            IF i >= Len(t) + 1 THEN 0
            ELSE IF t[i] = "quote" THEN i
            ELSE scan[i + IF t[i] = "\\" THEN 2 ELSE 1]
    IN  scan[start]

Fallback(raw) == [content |-> raw, reply |-> None]
Parse(raw) ==
    LET start == StartOf(raw)
        end == ClosedAt(raw, start)
        value == SubSeq(raw, start, end - 1)
        rest == From(raw, end + 1)
    IN  IF \/ start = 0 \/ end = 0 \/ ~Decodes(value) \/ value = <<>>
           \/ rest \notin Rests
        THEN Fallback(raw)
        ELSE [content |-> ReplaceHalves(Loads(value)),
              reply |-> IF Contains(raw, "7") THEN "7" ELSE None]

-------------------------------------------------------------------------------
\* A DeltaEvent of n symbols.  Until it can be seen to be an envelope, nothing is sent.
Delta(n) ==
    /\ stored = None /\ n > 0 /\ read + n <= Len(Text)
    /\ read' = read + n
    /\ LET extracted == IF Head(Text) = "open" THEN Extract(SubSeq(Text, 1, read + n)) ELSE None
       IN  IF extracted # None /\ Len(extracted) > Len(emitted)
             THEN /\ sent' = sent \o From(extracted, Len(emitted) + 1)
                  /\ emitted' = extracted
             ELSE UNCHANGED <<sent, emitted>>
    /\ UNCHANGED <<reply, stored>>

\* Mutant: what was shown is not looked at.
ContentParsed(raw) == Parse(raw)
\* What the reply comes to: when the envelope never completed, what was shown of it.
Content(raw) ==
    IF Parse(raw).content = raw /\ emitted # <<>>
    THEN [content |-> emitted, reply |-> None]
    ELSE Parse(raw)

\* The CompletionEvent, wherever the provider stops; providers report an empty reply as
\* an error.  What has not been sent yet is, and the message is persisted.
Complete ==
    /\ stored = None /\ read > 0
    /\ stored' = Content(buffer)
    /\ sent' = sent \o From(stored'.content, Len(emitted) + 1)
    /\ UNCHANGED <<reply, read, emitted>>

Over == stored # None /\ UNCHANGED vars

Init ==
    /\ frame \in Frames
    /\ pieces \in UNION {[1 .. n -> Pieces] : n \in 0 .. MaxPieces}
    /\ read = 0 /\ emitted = <<>> /\ sent = <<>> /\ stored = None

Next == (\E n \in 1 .. Len(Text) : Delta(n)) \/ Complete \/ Over

Spec == Init /\ [][Next]_vars

-------------------------------------------------------------------------------
\* extract_streamed_content: "a prefix is never emitted that later turns out to be
\* corrupt".  Wherever chunks and the reply end, and whether or not the model keeps to
\* the format, the deltas a client put together are the message it finds when it loads
\* the conversation, and no half of a pair, which cannot be encoded, is in either.  It is
\* said of objects with one content member: of two, this function streams the first and
\* json.loads keeps the last.
StreamedIsStored ==
    /\ ~Contains(sent, "half")
    /\ stored # None => stored.content = sent

\* What the model meant, piece by piece.
Meant(i) ==
    CASE pieces[i] = <<"x">> -> <<"x">>
      [] pieces[i] = <<"\\", "quote">> -> <<"quote">>
      [] pieces[i] = <<"\\", "\\">> -> <<"\\">>
      [] pieces[i] = <<"\\", "u", "bmp">> -> <<"letter">>
      [] pieces[i] = <<"\\", "u", "high">> ->
           IF i < Len(pieces) /\ pieces[i + 1] = <<"\\", "u", "low">> THEN <<"emoji">> ELSE <<"?">>
      [] pieces[i] = <<"\\", "u", "low">> ->
           IF i > 1 /\ pieces[i - 1] = <<"\\", "u", "high">> THEN <<>> ELSE <<"?">>
WellFormed ==
    /\ Last(frame[2]) = "close"
    /\ pieces # <<>>
    /\ \A i \in DOMAIN pieces : pieces[i] \notin
         {<<"newline">>, <<"quote">>, <<"\\", "x">>, <<"\\", "u", "x">>}

\* parse_completion: an envelope that arrives whole, with or without something before
\* it, is stored as what the model meant, and as the answer to what it named, however it
\* was cut into chunks; one that breaks off is stored as the part the client has seen.
AnswerKept ==
    WellFormed /\ stored # None =>
      LET meant == FlattenSeq([i \in DOMAIN pieces |-> Meant(i)])
      IN  IF read = Len(Text)
          THEN /\ stored.content = meant
               /\ stored.reply = IF Contains(Text, "7") THEN "7" ELSE None
          ELSE emitted # <<>> => IsPrefix(stored.content, meant)
===============================================================================
