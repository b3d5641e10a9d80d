------------------------------ MODULE Documents ------------------------------
(***************************************************************************)
(* The chain of tools that turns a document into another one: document_read  *)
(* or vision_extract_structure, then author_content or assignment_solve,     *)
(* then document_generate_*, each fed by a reference to the result before.   *)
(* What a person wrote and what the language model replies is arbitrary: a   *)
(* reply may miss a field, have one of another type, or be no JSON at all.    *)
(*                                                                         *)
(* A JSON value carries its type, because the schemas and the parsers look   *)
(* at nothing else; a text is a sequence of opaque words, with white space as *)
(* a word of its own where it surrounds a text, and as the first one only.    *)
(***************************************************************************)
EXTENDS Integers, Sequences, FiniteSets, SequencesExt, FiniteSetsExt

CONSTANTS
    MaxBlocks,  \* bound: paragraphs of a document a person wrote
    MaxTables,  \* bound: its tables
    MaxParts,   \* bound: sections, questions or answers of one reply
    MaxSource,  \* bound: sections of a source that a model replies to
    MaxSteps    \* bound: tool calls

ASSUME DocumentsAssumption ==
    /\ MaxBlocks \in Nat /\ MaxTables \in Nat /\ MaxParts \in Nat
    /\ MaxSource \in Nat /\ MaxSteps \in Nat

-----------------------------------------------------------------------------
(* JSON values and schemas. *)

Text(x) == [type |-> "string", val |-> x]
Num(n)  == [type |-> "integer", val |-> n]
List(s) == [type |-> "array", val |-> s]
Dict(r) == [type |-> "object", val |-> r]
Half(n) == [type |-> "number", val |-> n]         \* n and a half
True    == [type |-> "boolean", val |-> TRUE]
Null    == [type |-> "null", val |-> 0]
Absent  == [type |-> "absent", val |-> 0]         \* of a reply: the key is left out

Blank == <<>>   \* the text ""
Space == "space"

Strip(text) == IF text # Blank /\ text[1] = Space THEN Tail(text) ELSE text     \* str.strip()
Bare(text)  == text # Blank /\ Strip(text) = text

Digits(n) == <<"digits", n>>   \* the text of a number
IsDigits(v) == v.type = "string" /\ v.val # Blank /\ v.val[1] = "digits"

Get(v, key) == IF key \in DOMAIN v.val THEN v.val[key] ELSE Null    \* dict.get()
GetOr(v, key, default) == IF key \in DOMAIN v.val THEN v.val[key] ELSE default

Empty(v) == v.type = "null" \/ (v.type = "string" /\ v.val = Blank) \/ (v.type = "integer" /\ v.val = 0)

\* The items of s that stand at the positions in at, in order: what a loop with `continue` collects.
Picked(s, at) ==
    LET upto[n \in 0..Len(s)] ==
            IF n = 0 THEN <<>> ELSE IF n \in at THEN Append(upto[n - 1], s[n]) ELSE upto[n - 1]
    IN  upto[Len(s)]

\* The sequences of ss one after the other.
Joined(ss) ==
    LET upto[n \in 0..Len(ss)] == IF n = 0 THEN <<>> ELSE upto[n - 1] \o ss[n] IN upto[Len(ss)]

\* Schema.validate(), by the kinds of schema: properties that are absent are not looked at, and null
\* is not an object.
Str(v)            == v.type = "string"
AnyInt(v)         == v.type = "integer"
Bounded(low, high, v) == v.type = "integer" /\ v.val \in low..high
Array(Item(_), v) == v.type = "array" /\ \A i \in DOMAIN v.val : Item(v.val[i])
Obj(v, required)  == v.type = "object" /\ required \subseteq DOMAIN v.val
Property(v, key, Fits(_)) == key \in DOMAIN v.val => Fits(v.val[key])

Texts(v)    == Array(Str, v)
RowTexts(v) == Array(Texts, v)

ReadTable(v) == Obj(v, {}) /\ Property(v, "headers", Texts) /\ Property(v, "rows", RowTexts)
ReadSection(v) ==
    /\ Obj(v, {}) /\ Property(v, "heading", Str) /\ Property(v, "level", AnyInt)
    /\ Property(v, "paragraphs", Texts) /\ Property(v, "bullets", Texts) /\ Property(v, "table", ReadTable)
ReadSections(v) == Array(ReadSection, v)
ReadTables(v)   == Array(ReadTable, v)
ReadOutput(v) ==
    /\ Obj(v, {}) /\ Property(v, "title", Str)
    /\ Property(v, "sections", ReadSections) /\ Property(v, "tables", ReadTables)

VisionSections(v) == ReadSections(v)
VisionOutput(v) ==
    Obj(v, {}) /\ Property(v, "title", Str) /\ Property(v, "sections", VisionSections) /\ Property(v, "notes", Str)

AuthoredSection(v) ==
    /\ Obj(v, {}) /\ Property(v, "heading", Str) /\ Property(v, "level", AnyInt)
    /\ Property(v, "paragraphs", Texts) /\ Property(v, "bullets", Texts)
AuthoredSections(v) == Array(AuthoredSection, v)
SourceText(v) == Str(v) \/ AuthoredSections(v)
AuthorInput(v) ==
    Obj(v, {"source_text", "task"}) /\ Property(v, "source_text", SourceText) /\ Property(v, "task", Str)
AuthorOutput(v) ==
    /\ Obj(v, {}) /\ Property(v, "title", Str)
    /\ Property(v, "sections", AuthoredSections) /\ Property(v, "unresolved", Texts)

Answer(v) ==
    /\ Obj(v, {}) /\ Property(v, "question_id", Str) /\ Property(v, "question_text", Str)
    /\ Property(v, "answer_text", Str)
AnswersGiven(v) == Array(Answer, v)
AssignmentOutput(v) ==
    /\ Obj(v, {}) /\ Property(v, "title", Str)
    /\ Property(v, "questions_extracted", AnyInt) /\ Property(v, "questions_answered", AnyInt)
    /\ Property(v, "sections", AuthoredSections) /\ Property(v, "answers", AnswersGiven)

GenerateLevel(v) == Bounded(1, 9, v)
GenerateTable(v) == Obj(v, {"headers"}) /\ Property(v, "headers", Texts) /\ Property(v, "rows", RowTexts)
GenerateSection(v) ==
    /\ Obj(v, {}) /\ Property(v, "heading", Str) /\ Property(v, "level", GenerateLevel)
    /\ Property(v, "paragraphs", Texts) /\ Property(v, "bullets", Texts) /\ Property(v, "table", GenerateTable)
GenerateSections(v) == Array(GenerateSection, v)
GenerateInput(v) ==
    /\ Obj(v, {"title"}) /\ Property(v, "title", Str) /\ Property(v, "subtitle", Str)
    /\ Property(v, "author", Str) /\ Property(v, "sections", GenerateSections)

-----------------------------------------------------------------------------
VARIABLES
    file,   \* the document the next tool opens; bound: none is looked at twice by a model
    value,  \* the data of the last successful call, which references resolve to
    tool,   \* the last tool called in this plan
    result, \* "ok" or the error code
    reply,  \* history: what the language model replied to the last call
    steps   \* calls so far

vars == <<file, value, tool, result, reply, steps>>

Section(heading, level, paragraphs, bullets) ==
    [heading |-> heading, level |-> Num(level), paragraphs |-> List(paragraphs), bullets |-> List(bullets)]

WithTable(section, table) == [key \in DOMAIN section \cup {"table"} |-> IF key = "table" THEN table ELSE section[key]]

Block(style, level, text) == [style |-> style, level |-> level, text |-> text]

NoFile == [format |-> "none", blocks |-> <<>>, tables |-> <<>>, made |-> <<>>]

Nothing == Dict([sections |-> List(<<>>)])

-----------------------------------------------------------------------------
(* document_read. *)

TitleAt(blocks) ==
    LET titles == {i \in DOMAIN blocks : blocks[i].style = "Title"}
    IN  IF titles = {} THEN 0 ELSE Min(titles)

\* Fault: a heading takes the place of a section that has no text yet.
PlaceOver(sections, block) ==
    IF block.style = "Heading"
    THEN IF sections # <<>> /\ Last(sections).paragraphs.val = <<>> /\ Last(sections).bullets.val = <<>>
         THEN Append(Front(sections), Section(Text(block.text), block.level, <<>>, <<>>))
         ELSE Append(sections, Section(Text(block.text), block.level, <<>>, <<>>))
    ELSE LET open == IF sections = <<>> THEN <<Section(Null, 1, <<>>, <<>>)>> ELSE sections
             list == IF block.style = "List Bullet" THEN "bullets" ELSE "paragraphs"
         IN  [open EXCEPT ![Len(open)][list] = List(Append(@.val, Text(block.text)))]

\* A paragraph goes to the section of the heading before it, or to one without a heading.
Place(sections, block) ==
    IF block.style = "Heading" THEN Append(sections, Section(Text(block.text), block.level, <<>>, <<>>))
    ELSE LET open == IF sections = <<>> THEN <<Section(Null, 1, <<>>, <<>>)>> ELSE sections
             list == IF block.style = "List Bullet" THEN "bullets" ELSE "paragraphs"
         IN  [open EXCEPT ![Len(open)][list] = List(Append(@.val, Text(block.text)))]

\* Each table is given to the last section, in place of the one before, wherever it stands.
Attach(sections, table) ==
    IF sections = <<>> THEN <<WithTable(Section(Text(<<"Tables">>), 1, <<>>, <<>>), table)>>
    ELSE Append(Front(sections), WithTable(Last(sections), table))

\* The sections after each block of the body.
Placed(body) ==
    LET after[n \in 0..Len(body)] == IF n = 0 THEN <<>> ELSE Place(after[n - 1], body[n]) IN after[Len(body)]

Trimmed(block) == Block(block.style, block.level, Strip(block.text))

\* The blocks that are neither the title nor blank, without the white space around them.
Body(blocks) ==
    LET trimmed == [i \in DOMAIN blocks |-> Trimmed(blocks[i])]
    IN  Picked(trimmed, {i \in DOMAIN blocks : i # TitleAt(blocks) /\ trimmed[i].text # Blank})

\* The last table stays.
Attached(sections, tables) == IF tables = <<>> THEN sections ELSE Attach(sections, Last(tables))

Each(op(_), parts) == List([i \in DOMAIN parts |-> op(parts[i])])

StripText(v) == Text(Strip(v.val))
StripRow(row) == Each(StripText, row.val)
TableRead(t) == Dict([headers |-> StripRow(Get(t, "headers")), rows |-> Each(StripRow, Get(t, "rows").val)])
TablesRead(tables) == [k \in DOMAIN tables |-> TableRead(tables[k].cells)]

ReadDocx(f) ==
    LET tables == TablesRead(f.tables)
        sections == Attached(Placed(Body(f.blocks)), tables) IN
    Dict([title |-> Text(IF TitleAt(f.blocks) = 0 THEN Blank ELSE Strip(f.blocks[TitleAt(f.blocks)].text)),
          sections |-> List([i \in DOMAIN sections |-> Dict(sections[i])]),
          tables |-> List(tables)])

-----------------------------------------------------------------------------
(* The provider of vision. *)

\* _optional_str() and the like: a text, unless it is empty or something else.
TextOr(v, default) == IF v.type = "string" /\ v.val # Blank THEN v ELSE default

TextsOrNone(v) == IF Texts(v) THEN v ELSE List(<<>>)

RowsOf(raw) ==
    LET rows == Get(raw, "rows")
    IN  IF rows.type = "array" THEN List(Picked(rows.val, {i \in DOMAIN rows.val : Texts(rows.val[i])})) ELSE List(<<>>)

\* Fault: headers that are no texts are left out, not empty.
ParseTableLoosely(raw) ==
    IF Texts(Get(raw, "headers")) THEN Dict([headers |-> Get(raw, "headers"), rows |-> RowsOf(raw)])
    ELSE Dict([rows |-> RowsOf(raw)])

\* _parse_structure_table(), for a table that is an object.
ParseTable(raw) == Dict([headers |-> TextsOrNone(Get(raw, "headers")), rows |-> RowsOf(raw)])

\* A bool is an int to isinstance(): true passes as it is.
ParseLevel(v) == IF (v.type = "integer" /\ v.val > 0) \/ v = True THEN v ELSE Num(1)

ParseSection(raw) ==
    LET section == [heading |-> TextOr(Get(raw, "heading"), Text(Blank)), level |-> ParseLevel(Get(raw, "level")),
                    paragraphs |-> TextsOrNone(Get(raw, "paragraphs")), bullets |-> TextsOrNone(Get(raw, "bullets"))]
    IN  Dict(IF Get(raw, "table").type = "object" THEN WithTable(section, ParseTable(Get(raw, "table"))) ELSE section)

\* Fault: the parts after a malformed one are lost with it.
ObjectsBefore(v) ==
    IF v.type # "array" THEN <<>>
    ELSE LET bad == {i \in DOMAIN v.val : v.val[i].type # "object"}
         IN  SubSeq(v.val, 1, IF bad = {} THEN Len(v.val) ELSE Min(bad) - 1)

Objects(v) ==
    IF v.type = "array" THEN Picked(v.val, {i \in DOMAIN v.val : v.val[i].type = "object"}) ELSE <<>>

\* parse_structure_json() and _structure_data(); without JSON there is nothing but a note.
Structure(raw) ==
    IF raw.type = "null" THEN Dict([title |-> Text(Blank), sections |-> List(<<>>), notes |-> Text(<<"note">>)])
    ELSE Dict([title |-> TextOr(Get(raw, "title"), Text(Blank)),
               sections |-> Each(ParseSection, Objects(Get(raw, "sections"))), notes |-> Text(<<"note">>)])

\* One row of a statement: a direction that is neither debit nor credit is none.
ParseRow(raw) ==
    LET direction == TextOr(Get(raw, "direction"), Null) IN
    Dict([date |-> TextOr(Get(raw, "date"), Null), amount |-> TextOr(Get(raw, "amount"), Null),
          direction |-> IF direction \in {Text(<<"debit">>), Text(<<"credit">>)} THEN direction ELSE Null])

ParseStatement(raw) ==
    IF raw.type = "null" THEN Dict([transactions |-> List(<<>>)])
    ELSE Dict([transactions |-> Each(ParseRow, Objects(Get(raw, "transactions")))])

ParseItem(raw) ==
    LET amount == Get(raw, "amount")
    IN  Dict([description |-> Get(raw, "description"), amount |-> IF amount.type = "string" THEN amount ELSE Null])

Described(items) == Picked(items, {i \in DOMAIN items : Get(items[i], "description").type = "string"})

\* A receipt: what has no description is no item.
ParseReceipt(raw) ==
    IF raw.type = "null" THEN Dict([line_items |-> List(<<>>)])
    ELSE Dict([total_amount |-> TextOr(Get(raw, "total_amount"), Null),
               line_items |-> Each(ParseItem, Described(Objects(Get(raw, "line_items"))))])

-----------------------------------------------------------------------------
(* The authors. *)

\* list(): a text becomes its characters; null and numbers raise.
Listed(v) == IF v.type = "string" THEN List(<<Text(<<"c">>), Text(<<"h">>)>>) ELSE v

\* int() of a level: of a number or its text, and of true.
IntOf(v) == IF v.type = "number" THEN Num(v.val) ELSE IF v = True THEN Num(1)
            ELSE IF IsDigits(v) THEN Num(v.val[2]) ELSE v

Authored(raw) ==
    Dict([heading |-> IF Empty(Get(raw, "heading")) THEN Text(Blank) ELSE Get(raw, "heading"),
          level |-> IF Empty(Get(raw, "level")) THEN Num(1) ELSE IntOf(Get(raw, "level")),
          paragraphs |-> Listed(GetOr(raw, "paragraphs", List(<<>>))), bullets |-> Listed(GetOr(raw, "bullets", List(<<>>)))])

\* What makes int() or list() raise, which fails the whole reply; an absent list is an empty one.
AuthorRaises(raw) ==
    LET sent == GetOr(raw, "sections", List(<<>>)) IN
    \/ raw.type = "null" \/ sent.type \notin {"array", "string"}
    \/ \E i \in DOMAIN Objects(sent) :
        LET level == Get(Objects(sent)[i], "level") IN
        \/ level.type = "string" /\ ~Empty(level) /\ ~IsDigits(level)
        \/ \E key \in {"paragraphs", "bullets"} : GetOr(Objects(sent)[i], key, List(<<>>)).type \notin {"array", "string"}

\* _parse_response() and _to_result_dict().
AuthorResult(raw) ==
    Dict([title |-> IF Empty(Get(raw, "title")) THEN Text(<<"Untitled">>) ELSE Get(raw, "title"),
          sections |-> Each(Authored, Objects(Get(raw, "sections"))), unresolved |-> List(<<>>)])

\* extract_questions(): the ones with a text, numbered where the model gives no id.
Questions(raw) ==
    LET given == Objects(Get(raw, "questions"))
        asked == Picked(given, {i \in DOMAIN given : ~Empty(Get(given[i], "text"))}) IN
    [i \in DOMAIN asked |-> [id |-> IF "id" \in DOMAIN asked[i].val THEN asked[i].val.id.val ELSE <<"Q", i>>,
                             text |-> Get(asked[i], "text").val]]

\* Fault: the answers are taken to come in the order of the questions.
QuestionInTurn(questions, i, id) == IF i <= Len(questions) THEN questions[i].text ELSE Blank

\* The text of the first question with this id.
QuestionOf(questions, i, id) ==
    LET at == {k \in DOMAIN questions : questions[k].id = id}
    IN  IF at = {} THEN Blank ELSE questions[Min(at)].text

\* answer_questions().
Answers(questions, raw) ==
    LET given == Objects(Get(raw, "answers")) IN
    IF questions = <<>> THEN <<>>
    ELSE [i \in DOMAIN given |->
            LET id == Get(given[i], "question_id").val
            IN  [question_id |-> Text(id), question_text |-> Text(QuestionOf(questions, i, id)),
                 answer_text |-> Get(given[i], "answer_text")]]

\* solve_assignment() and the result of assignment_solve: a section for each answer.
SolveResult(asked, answered) ==
    LET questions == Questions(asked)
        answers == Answers(questions, answered) IN
    Dict([title |-> Get(asked, "title"),
          questions_extracted |-> Num(Len(questions)), questions_answered |-> Num(Len(answers)),
          sections |-> List([i \in DOMAIN answers |->
                Dict(Section(Text(answers[i].question_id.val \o <<": ">> \o answers[i].question_text.val), 1,
                             IF Empty(answers[i].answer_text) THEN <<>> ELSE <<answers[i].answer_text>>, <<>>))]),
          answers |-> List([i \in DOMAIN answers |-> Dict(answers[i])])])

\* _coerce_source_text() and strip(): headings and bullets have a mark of their own, paragraphs have
\* not; tables are left behind.
SourceIsEmpty(sections) ==
    \A i \in DOMAIN sections.val :
        LET s == sections.val[i] IN
        /\ Empty(Get(s, "heading")) /\ Get(s, "bullets").val = <<>>
        /\ \A p \in DOMAIN Get(s, "paragraphs").val : Strip(Get(s, "paragraphs").val[p].val) = Blank

-----------------------------------------------------------------------------
(* document_generate_*: what each format makes of a section. *)

SectionsOf(v) == Get(v, "sections").val

Styled(style, texts) == [i \in DOMAIN texts.val |-> Block(style, 1, texts.val[i].val)]

Heading(section, deepest) ==
    IF Get(section, "heading").val = Blank THEN <<>>
    ELSE <<Block("Heading", Min({Get(section, "level").val, deepest}), Get(section, "heading").val)>>

\* Fault: bullets are written as plain paragraphs.
DocxBlocksPlain(s) ==
    Heading(s, 9) \o Styled("Body", Get(s, "paragraphs")) \o Styled("Body", Get(s, "bullets"))

DocxBlocks(s) ==
    Heading(s, 9) \o Styled("Body", Get(s, "paragraphs")) \o Styled("List Bullet", Get(s, "bullets"))

PdfBlocks(s) == Heading(s, 6) \o Styled("Body", Get(s, "paragraphs")) \o Styled("Body", Get(s, "bullets"))

\* A slide shows the bullets if there are any, and the paragraphs otherwise.
PptxBlocks(s) ==
    Heading(s, 1) \o Styled("Body", IF Get(s, "bullets").val # <<>> THEN Get(s, "bullets") ELSE Get(s, "paragraphs"))

\* A table with headers, its rows cut or filled to their number.
Grid(s) ==
    LET table == Get(s, "table")
        width == Len(Get(table, "headers").val)
        Row(r) == List([i \in 1..width |-> IF i <= Len(r.val) THEN r.val[i] ELSE Text(Blank)])
    IN  IF table.type = "null" \/ width = 0 THEN <<>>
        ELSE <<Dict([headers |-> Get(table, "headers"), rows |-> Each(Row, Get(table, "rows").val)])>>

\* A line of its own, if there is anything to write.
Line(v) == IF v.val = Blank THEN <<>> ELSE <<Block("Body", 1, v.val)>>

\* The table of section i and the number of headings before it.
Standing(sections, i) ==
    [k \in DOMAIN Grid(sections[i]) |->
        [under |-> Cardinality({j \in 1..i : Get(sections[j], "heading").val # Blank}), cells |-> Grid(sections[i])[k]]]

\* Title, subtitle and author, then the sections, in the order of the call.
Render(format, args) ==
    LET front == <<Block("Title", 0, Get(args, "title").val)>>
                 \o Line(Get(args, "subtitle")) \o Line(Get(args, "author"))
        Blocks(s) == CASE format = "docx" -> DocxBlocks(s) [] format = "pdf" -> PdfBlocks(s) [] format = "pptx" -> PptxBlocks(s)
        sections == SectionsOf(args)
    IN  [format |-> format, made |-> <<args>>,
         blocks |-> front \o Joined([i \in DOMAIN sections |-> Blocks(sections[i])]),
         tables |-> Joined([i \in DOMAIN sections |-> Standing(sections, i)])]

-----------------------------------------------------------------------------
(* What the model may reply: parts as they were asked for, with at most one malformed. *)

Name(kind, k) == <<kind, k>>

GoodTable(k) == Dict([headers |-> List(<<Text(<<"column">>)>>), rows |-> List(<<List(<<Text(Name("cell", k))>>)>>)])

GoodSection(k) ==
    [heading |-> Text(Name("heading", k)), level |-> Num(k), paragraphs |-> List(<<Text(Name("paragraph", k))>>),
     bullets |-> List(<<Text(Name("bullet", k))>>), table |-> GoodTable(k)]

\* A field and what is wrong with it.
Defects ==
    <<<<"heading", Null>>, <<"heading", Num(7)>>, <<"heading", Text(Blank)>>,
      <<"level", Null>>, <<"level", Text(<<"two">>)>>, <<"level", Num(0)>>, <<"level", Num(12)>>,
      <<"level", True>>, <<"level", Half(2)>>, <<"level", Text(Digits(2))>>,
      <<"paragraphs", Null>>, <<"paragraphs", Absent>>, <<"paragraphs", Text(<<"prose">>)>>, <<"paragraphs", List(<<Num(7)>>)>>,
      <<"paragraphs", List(<<Text(<<Space>>)>>)>>, <<"bullets", Null>>, <<"bullets", Absent>>, <<"bullets", List(<<>>)>>,
      <<"bullets", List(<<Text(<<Space, "indented">>)>>)>>, <<"table", Null>>, <<"table", Text(<<"cells">>)>>,
      <<"table", Dict([headers |-> Null, rows |-> List(<<List(<<Text(<<"1">>)>>)>>)])>>,
      <<"table", Dict([headers |-> List(<<Text(<<"a">>), Text(<<"b">>)>>), rows |-> List(<<Null, List(<<Text(<<"1">>)>>)>>)])>>,
      <<"table", Dict([headers |-> List(<<Text(<<Space, "a">>)>>), rows |-> Null])>> >>

\* The section with another value of a field, or without it.
Spoilt(section, field, wrong) ==
    IF wrong.type = "absent" THEN [key \in DOMAIN section \ {field} |-> section[key]] ELSE [section EXCEPT ![field] = wrong]

\* Part k of a reply: whole (0), no object (1), or with the defect before d.
SectionForm(k, d) ==
    CASE d = 0 -> Dict(GoodSection(k))
      [] d = 1 -> Null
      [] d > 1 -> Dict(Spoilt(GoodSection(k), Defects[d - 1][1], Defects[d - 1][2]))

RowForm(k, d) ==
    LET row == [date |-> Text(Name("date", k)), amount |-> Text(Name("amount", k)), direction |-> Text(<<"debit">>),
                description |-> Text(Name("item", k))] IN
    CASE d = 0 -> Dict(row)
      [] d = 1 -> Null
      [] d = 2 -> Dict([row EXCEPT !.direction = Text(<<"sideways">>)])
      [] d = 3 -> Dict([row EXCEPT !.amount = Num(7)])
      [] d = 4 -> Dict([row EXCEPT !.description = Null])

QuestionForm(k, d) ==
    LET text == Text(Name("question", k)) IN
    CASE d = 0 -> Dict([id |-> Text(<<"Q", k>>), text |-> text])
      [] d = 1 -> Null
      [] d = 2 -> Dict([text |-> text])
      [] d = 3 -> Dict([id |-> Text(<<"Q", 1>>), text |-> text])
      [] d = 4 -> Dict([id |-> Text(<<"Q", 2>>), text |-> Null])

\* An answer to the question with this id, or an empty one.
AnswerForm(id, said) ==
    Dict([question_id |-> Text(id), answer_text |-> Text(IF said THEN <<"answer to">> \o id ELSE Blank)])

\* Which of n parts is malformed, and how; or none of them.
Flaws(n, forms) == {<<0, 0>>} \cup ((1..n) \X (1..forms))

PartsWith(form(_, _), n, flaw) == List([k \in 1..n |-> form(k, IF k = flaw[1] THEN flaw[2] ELSE 0)])

-----------------------------------------------------------------------------
(* Calls. *)

Calls(name) ==
    /\ result \in {"none", "ok"} /\ steps < MaxSteps
    /\ tool' = name /\ steps' = steps + 1

Fails(code) == result' = code /\ value' = Nothing

\* The registry checks what a tool returns against its output schema.
Returns(data, Schema(_)) ==
    IF Schema(data) THEN result' = "ok" /\ value' = data ELSE Fails("invalid_output")

DocumentRead ==
    /\ Calls("document_read") /\ reply' = Null /\ UNCHANGED file
    /\ \/ file.format = "none" /\ Fails("not_found")
       \/ file.format \notin {"none", "docx"} /\ Fails("unsupported_format")
       \/ file.format = "docx" /\ (Fails("document_generation_unavailable") \/ Fails("read_failed"))
       \/ file.format = "docx" /\ Returns(ReadDocx(file), ReadOutput)

\* Any reply to a request for sections: the JSON asked for, or none that can be parsed.
SectionReply(use(_)) ==
    \/ use(Null)
    \/ use(Dict([title |-> Text(<<"title">>)]))
    \/ use(Dict([title |-> Text(<<"title">>), sections |-> Text(<<"none">>)]))
    \/ \E title \in 1..3 : use(Dict([title |-> <<Null, Num(7), Text(<<"title">>)>>[title], sections |-> Null]))
    \/ \E n \in 0..MaxParts : \E flaw \in Flaws(n, Len(Defects) + 1) :
        use(Dict([title |-> Text(<<"title">>), sections |-> PartsWith(SectionForm, n, flaw)]))

\* A document that a vision model can look at.
Visible == file.format \in {"pdf", "scan"}

\* There may be no provider, or its call may fail.
VisionFails(failed) ==
    /\ reply' = Null
    /\ \/ file.format = "none" /\ Fails("not_found")
       \/ file.format \in {"docx", "pptx"} /\ Fails("unsupported_file_type")
       \/ Visible /\ (Fails("vision_unavailable") \/ Fails(failed))

ExtractStructure ==
    /\ Calls("vision_extract_structure") /\ file' = NoFile
    /\ \/ VisionFails("structure_extraction_failed")
       \/ Visible /\ SectionReply(LAMBDA raw : reply' = raw /\ Returns(Structure(raw), VisionOutput))

\* Two more requests to the same provider, for the imports of the ledger.
Extract ==
    /\ Calls("extract") /\ file' = NoFile
    /\ \/ VisionFails("extraction_failed")
       \/ /\ Visible /\ result' = "ok"
          /\ \/ reply' = Null /\ value' \in {ParseStatement(Null), ParseReceipt(Null)}
             \/ \E n \in 0..MaxParts : \E flaw \in Flaws(n, 4) :
                LET rows == PartsWith(RowForm, n, flaw) IN
                \/ reply' = Dict([transactions |-> rows]) /\ value' = ParseStatement(reply')
                \/ reply' = Dict([line_items |-> rows, total_amount |-> Num(7)]) /\ value' = ParseReceipt(reply')

\* The refusals of both authors. The source is a reference to an earlier result; the file it
\* came from is not opened again (a bound, as for vision).
AuthorFails(failed) ==
    LET args == Dict([source_text |-> Get(value, "sections"), task |-> Text(<<"task">>)]) IN
    /\ reply' = Null
    /\ \/ ~AuthorInput(args) /\ Fails("invalid_input")
       \/ AuthorInput(args) /\ SourceIsEmpty(args.val.source_text) /\ Fails("empty_source")
       \/ AuthorInput(args) /\ (Fails("llm_unavailable") \/ Fails(failed))

HasSource ==
    LET sections == Get(value, "sections")
    IN  /\ AuthoredSections(sections) /\ ~SourceIsEmpty(sections)
        /\ Len(sections.val) <= MaxSource

AuthorContent ==
    /\ Calls("author_content") /\ file' = NoFile
    /\ \/ AuthorFails("authoring_failed")
       \/ HasSource /\ SectionReply(LAMBDA raw :
            /\ reply' = raw
            /\ IF AuthorRaises(raw) THEN Fails("authoring_failed") ELSE Returns(AuthorResult(raw), AuthorOutput))

\* Two requests, for the questions and for the answers; the model may give the answers in any
\* order, twice, not at all, or to questions that were not asked.
AssignmentSolve ==
    /\ Calls("assignment_solve") /\ file' = NoFile
    /\ \/ AuthorFails("assignment_failed")
       \/ /\ HasSource
          /\ \E n \in 0..MaxParts, given \in BoundedSeq({<<"Q", 1>>, <<"Q", 2>>, <<"Q", 9>>} \X BOOLEAN, 2) : \E flaw \in Flaws(n, 4) :
             \E title \in {Text(<<"title">>)} \cup (IF n = 0 THEN {Null} ELSE {}) :
                LET asked == Dict([title |-> title, questions |-> PartsWith(QuestionForm, n, flaw)])
                    answered == Dict([answers |-> List([i \in DOMAIN given |-> AnswerForm(given[i][1], given[i][2])])])
                IN  /\ reply' = Dict([questions |-> asked, answers |-> answered])
                    /\ Returns(SolveResult(asked, answered), AssignmentOutput)

\* The renderer's package may be missing; reportlab may refuse a table of uneven rows.
Generate ==
    /\ Calls("document_generate") /\ reply' = Null
    /\ \E format \in {"docx", "pptx", "pdf"}, author \in {Blank, <<"author">>} :
        LET args == Dict([title |-> Text(<<"report">>), subtitle |-> Text(Blank), author |-> Text(author),
                          sections |-> Get(value, "sections")]) IN
        \/ ~GenerateInput(args) /\ Fails("invalid_input") /\ UNCHANGED file
        \/ /\ GenerateInput(args) /\ UNCHANGED file
           /\ Fails("document_generation_unavailable") \/ (format = "pdf" /\ Fails("execution_error"))
        \/ /\ GenerateInput(args)
           /\ file' = Render(format, args) /\ result' = "ok" /\ value' = Nothing

\* The next plan begins with what is on the disk.
NewPlan ==
    /\ result # "none" /\ steps < MaxSteps
    /\ result' = "none" /\ tool' = "none" /\ value' = Nothing /\ reply' = Null
    /\ UNCHANGED <<file, steps>>

-----------------------------------------------------------------------------
\* What a person may have written: blocks in any order, some of them blank.
Written ==
    LET kinds == {<<"Title", 0>>, <<"Heading", 1>>, <<"Heading", 2>>, <<"List Bullet", 1>>, <<"Body", 1>>}
    IN  {b \in BoundedSeq(kinds \X BOOLEAN, MaxBlocks) : \A i \in DOMAIN b : b[i][2] => b[i][1][1] \in {"Body", "Title"}}

\* Where its tables stand: after how many of its headings.
Placings(b) ==
    {at \in BoundedSeq(0..Cardinality({i \in DOMAIN b : b[i][1][1] = "Heading"}), MaxTables) :
        \A k \in DOMAIN at : k > 1 => at[k - 1] <= at[k]}

WrittenTable(k) ==
    Dict([headers |-> List(<<Text(<<Space, "column">>)>>), rows |-> List(<<List(<<Text(Name("cell", k))>>)>>)])

\* A bound: it is the second block that has white space around it.
WrittenText(i, blank) == IF blank THEN <<Space>> ELSE IF i = 2 THEN <<Space>> \o Name("text", i) ELSE Name("text", i)

Init ==
    /\ \/ file = [NoFile EXCEPT !.format = "scan"]
       \/ \E b \in Written : \E at \in Placings(b) :
            file = [format |-> "docx", made |-> <<>>,
                    tables |-> [k \in DOMAIN at |-> [under |-> at[k], cells |-> WrittenTable(k)]],
                    blocks |-> [i \in DOMAIN b |-> Block(b[i][1][1], b[i][1][2], WrittenText(i, b[i][2]))]]
    /\ value = Nothing /\ tool = "none" /\ result = "none" /\ reply = Null /\ steps = 0

Next ==
    \/ DocumentRead \/ ExtractStructure \/ Extract \/ AuthorContent \/ AssignmentSolve \/ Generate \/ NewPlan

Spec == Init /\ [][Next]_vars

-----------------------------------------------------------------------------
(* Properties. *)

\* list is what stands in `of` at the positions in at, in the same order.
InOrder(list, of, at) ==
    /\ Len(list) = Cardinality(at)
    /\ \A i \in at : list[Cardinality({j \in at : j <= i})] = of[i]

Values(v) == [i \in DOMAIN v.val |-> v.val[i].val]

\* What document_read hands on has every paragraph and bullet of the document once, in order and
\* under the heading it stands under (reader.py:66-114), and every table once, in order. Of the
\* sections only the last has a table, which is the last of the document, whatever heading it stands
\* under (reader.py:116-119).
TextIsKept ==
    tool = "document_read" /\ result = "ok" =>
        LET body == Body(file.blocks)
            text == [i \in DOMAIN body |-> body[i].text]
            headings == {i \in DOMAIN body : body[i].style = "Heading"}
            Under(i) == {j \in DOMAIN body : i < j /\ \A h \in headings : h <= i \/ j < h}
            sections == SectionsOf(value)
            tables == Get(value, "tables").val
        IN  /\ Len(tables) = Len(file.tables)
            /\ \A k \in DOMAIN file.tables : tables[k] = TableRead(file.tables[k].cells)
            /\ \A i \in DOMAIN sections :
                /\ "table" \in DOMAIN sections[i].val <=> i = Len(sections) /\ tables # <<>>
                /\ "table" \in DOMAIN sections[i].val => Get(sections[i], "table") = tables[Len(tables)]
            /\ body # <<>> => Len(sections) = Cardinality(headings)
            /\ \A i \in headings :
                LET s == sections[Cardinality({j \in headings : j <= i})] IN
                /\ Get(s, "heading").val = body[i].text
                /\ InOrder(Values(Get(s, "paragraphs")), text, {j \in Under(i) : body[j].style \in {"Body", "Title"}})
                /\ InOrder(Values(Get(s, "bullets")), text, {j \in Under(i) : body[j].style = "List Bullet"})

\* A document that document_generate_docx wrote without a byline, with a heading to each section,
\* texts that are not blank and have no white space around them, and no table but one under the last
\* heading, is read back as it was given, levels included: the table with its rows cut or filled to
\* the number of its headers (docx_writer.py:46-49), and unchanged if they have that many cells.
ReadBack ==
    tool = "document_read" /\ file.made # <<>> /\ result \in {"ok", "invalid_output"} =>
        LET args == file.made[1]
            given == SectionsOf(args)
            got == SectionsOf(value)
            plain == /\ Get(args, "author").val = Blank
                     /\ \A i \in DOMAIN given :
                          /\ Bare(Get(given[i], "heading").val)
                          /\ \A key \in {"paragraphs", "bullets"} : \A j \in DOMAIN Get(given[i], key).val :
                                Bare(Get(given[i], key).val[j].val)
                     /\ \A k \in DOMAIN file.tables :
                          file.tables[k].under = Len(given) /\ TableRead(file.tables[k].cells) = file.tables[k].cells
        IN  plain =>
            /\ result = "ok" /\ Get(value, "title") = Get(args, "title")
            /\ Len(got) = Len(given)
            /\ \A i \in DOMAIN given :
                LET table == Get(given[i], "table")
                    back == Get(got[i], "table")
                    width == Len(Get(table, "headers").val)
                    Even(rows) == \A r \in DOMAIN rows.val : Len(rows.val[r].val) = width
                IN  /\ \A key \in {"heading", "level", "paragraphs", "bullets"} : Get(got[i], key) = Get(given[i], key)
                    /\ back = IF Grid(given[i]) = <<>> THEN Null ELSE Grid(given[i])[1]
                    /\ Grid(given[i]) # <<>> /\ Even(Get(table, "rows")) =>
                        \A key \in {"headers", "rows"} : Get(back, key) = Get(table, key)

\* A part of a list that is not malformed: an item of a receipt must have a description.
Whole(list, part) == part.type = "object" /\ (list = "line_items" => Get(part, "description").type = "string")

\* A malformed part of a model's reply costs only itself: every other section, row or item is taken,
\* in the order of the reply (anthropic_document.py:175, 200, 275). A section whose level is true is
\* the exception: it alone can make the call fail by its output (anthropic_document.py:305, schema.py:71).
BadPartsOnly ==
    /\ tool = "vision_extract_structure" /\ result = "invalid_output" =>
        \E i \in DOMAIN Get(reply, "sections").val :
            LET part == Get(reply, "sections").val[i] IN part.type = "object" /\ Get(part, "level") = True
    /\ tool \in {"vision_extract_structure", "extract"} /\ result = "ok" /\ reply.type = "object" =>
        \A key \in {<<"sections", "heading">>, <<"transactions", "date">>, <<"line_items", "description">>} :
            key[1] \in DOMAIN reply.val /\ Get(reply, key[1]).type = "array" =>
                LET sent == Get(reply, key[1]).val
                    sound == {i \in DOMAIN sent : Whole(key[1], sent[i])}
                    taken == Get(value, key[1]).val
                IN  /\ Len(taken) = Cardinality(sound)
                    /\ \A i \in sound :
                        LET part == taken[Cardinality({j \in sound : j <= i})]
                        IN  Get(sent[i], key[2]).type = "string" /\ Get(sent[i], key[2]).val # Blank =>
                                Get(part, key[2]) = Get(sent[i], key[2])

\* What one tool hands on, the next accepts: the authors take it, and the renderers refuse
\* nothing of it but a level that no document has (tools/authoring/tools.py:66).
HandedOnFits ==
    result = "ok" /\ tool \in {"document_read", "vision_extract_structure", "author_content", "assignment_solve"} =>
        LET sections == Get(value, "sections") IN
        /\ AuthoredSections(sections)
        /\ (\A i \in DOMAIN sections.val : Get(sections.val[i], "level").val \in 1..9) =>
                GenerateSections(sections)

\* An answer is shown with a question that has the id it answers, in whatever order the model
\* answers, and with none if it answers none (assignment.py:150-155); its section has the answer for
\* its text, and no text if there is no answer.
AnswersMatch ==
    tool = "assignment_solve" /\ result = "ok" =>
        LET asked == Questions(Get(reply, "questions"))
        IN  \A i \in DOMAIN Get(value, "answers").val :
            LET answer == Get(value, "answers").val[i]
                text == Get(answer, "question_text").val
                said == Get(answer, "answer_text")
            IN  /\ said.val # Blank /\ text # Blank =>
                    \E k \in DOMAIN asked : asked[k].text = text /\ said.val = <<"answer to">> \o asked[k].id
                /\ said.val # Blank /\ text = Blank => \A k \in DOMAIN asked : said.val # <<"answer to">> \o asked[k].id
                /\ Get(SectionsOf(value)[i], "paragraphs").val = IF said.val = Blank THEN <<>> ELSE <<said>>
=============================================================================
