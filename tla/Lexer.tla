-------------------------------- MODULE Lexer --------------------------------
(***************************************************************************)
(* From text to tokens in siko_parser/lexer.rs: the tokens of a file are   *)
(* scanned, comments are skipped, the layout pass marks where items,       *)
(* blocks and modules end, and numbers are put together.                   *)
(*                                                                         *)
(* A text is a sequence of pieces [c, name, w].  A piece is a single       *)
(* character c, or a whole word (c is "word") with its name and its width. *)
(* Blanks may be one wide piece.  Between two words there is another       *)
(* piece, as a word is as long as it can be.                               *)
(*                                                                         *)
(* A token is a record [kind, name, column]: kind is the TokenKind, for    *)
(* keywords, operators and punctuation their text.  The lines of locations *)
(* are left out: the layout pass compares columns only.                    *)
(***************************************************************************)
EXTENDS Integers, Sequences, SequencesExt

CONSTANTS
    Texts,          \* the texts that are considered
    Capitalised,    \* the words that begin with a capital letter
    Numerals        \* the words that are decimal numbers

Keywords ==
    {"where", "data", "module", "import", "if", "then", "else", "do", "as", "extern", "hiding",
     "case", "of", "class", "instance", "protocol", "actor", "deriving"}

OperatorChars == {"|", ">", "<", "&", "*", "+", "-", "/", "=", "!", "\\", ":", "."}

Operators ==
    {"+", "-", "*", "/", "|>", "&&", "||", "=", "==", "!=", "<", "<=", ">", ">=", "|", "\\", "!",
     "<-", "->", "::", ".", "..", ":", "=>"}

Punctuation == {",", "{", "}", "(", ")", "[", "]", ";", "%"}
Blanks == {" ", "\t", "\n", "\r"}
Escapes == {"n", "t"}   \* the letters that may follow a backslash

Chars == OperatorChars \cup Punctuation \cup Blanks \cup {"word", "\"", "?"}
Piece == [c : Chars, name : STRING, w : Nat]

ASSUME TextsAssumption == \A t \in Texts : t \in Seq(Piece)

ItemEnd == "end of item"
BlockEnd == "end of block"
ModuleEnd == "end of module"
Ends == {ItemEnd, BlockEnd, ModuleEnd}
Openers == {"where", "do", "of"}
Literals == {"Var", "Type", "Wildcard", "String", "Int", "Float"}
Kinds == Literals \cup Keywords \cup Operators \cup Punctuation

VARIABLES
    text,       \* the text, which does not change
    index,      \* the next piece
    column,     \* line_offset
    comment,    \* the block comments the next piece is in, the innermost last
    tokens,     \* the tokens scanned so far
    unsupported,\* whether an unsupported character was met
    lexing,     \* "scanning", "layout", "merging", "lexed", "failed" or "panicked"
    next,       \* the layout pass: the next token
    blocks,     \* the calls of process_block and process_item, the innermost last
    result,     \* the tokens and ends handed out so far
    lexed       \* what process returns

scanVars == <<text, index, column, comment, tokens, unsupported>>
layoutVars == <<next, blocks, result>>
lexVars == <<scanVars, lexing, layoutVars, lexed>>

LexInit ==
    /\ text \in Texts
    /\ index = 1 /\ column = 0 /\ comment = <<>> /\ tokens = <<>> /\ unsupported = FALSE
    /\ lexing = "scanning"
    /\ next = 1 /\ blocks = <<>> /\ result = <<>>
    /\ lexed = <<>>

-----------------------------------------------------------------------------
(* Scanning: the loop of Lexer::process, one of its rounds a step. *)

At(i) == text[i].c
Has(i) == i <= Len(text)

\* The two characters from i on.
Two(i, a, b) == Has(i + 1) /\ At(i) = a /\ At(i + 1) = b

Scanning == lexing = "scanning" /\ comment = <<>> /\ Has(index)

Advance(col, piece) == IF piece.c = "\n" THEN 0 ELSE col + piece.w

\* The pieces before position i are taken.
AdvanceTo(i) ==
    /\ index' = i
    /\ column' = LET col[j \in index..i] == IF j = index THEN column ELSE Advance(col[j - 1], text[j - 1])
                 IN  col[i]

LexError == lexing' = "failed" /\ UNCHANGED <<scanVars, layoutVars, lexed>>

AddToken(kind, name) ==
    /\ tokens' = Append(tokens, [kind |-> kind, name |-> name, column |-> column])
    /\ UNCHANGED <<text, comment, unsupported, lexing, layoutVars, lexed>>

Skip == UNCHANGED <<text, comment, tokens, unsupported, lexing, layoutVars, lexed>>

\* The first position from i on that is one of stops, or the end of the text.
EndOfRun(i, stops) == CHOOSE j \in i..(Len(text) + 1) :
    /\ \A k \in i..(j - 1) : k \notin stops
    /\ Has(j) => j \in stops

CommentStarts == Two(index, "/", "/") \/ Two(index, "-", "-") \/ Two(index, "/", "*")

CollectIdentifier ==
    /\ Scanning /\ At(index) = "word"
    /\ LET name == text[index].name
       IN  CASE name \in Keywords -> AddToken(name, "")
             [] name = "_" -> AddToken("Wildcard", "")
             [] name \notin Keywords \cup {"_"} ->
                    AddToken(IF name \in Capitalised THEN "Type" ELSE "Var", name)
    /\ AdvanceTo(index + 1)

CollectOperator ==
    /\ Scanning /\ At(index) \in OperatorChars /\ ~CommentStarts
    /\ LET end == EndOfRun(index, {i \in DOMAIN text : At(i) \notin OperatorChars})
           operator == FoldLeft(LAMBDA s, piece : s \o piece.c, "", SubSeq(text, index, end - 1))
       IN  IF operator \in Operators THEN AddToken(operator, "") /\ AdvanceTo(end) ELSE LexError

LineComment ==
    /\ Scanning
    /\ Two(index, "/", "/") \/ Two(index, "-", "-")
    /\ AdvanceTo(EndOfRun(index, {i \in DOMAIN text : At(i) = "\n"}))
    /\ Skip

\* Mutant: the first end closes the comment whatever is nested in it.
NestedUncounted(prev, i) == FALSE

\* process_block_comment calls itself at the start of a comment.  {- is no
\* comment outside of another one, as { is not an operator.
NestedStarts(prev, i) ==
    (prev = "/" /\ At(i) = "*") \/ (prev = "{" /\ At(i) = "-")

\* prev = self.advance()?: the character that is read before the loop goes on,
\* when a comment starts and after a nested one.
ReadFirst(i, frames) ==
    IF Has(i)
    THEN /\ AdvanceTo(i + 1)
         /\ comment' = [frames EXCEPT ![Len(frames)].prev = At(i)]
         /\ UNCHANGED <<text, tokens, unsupported, lexing, layoutVars, lexed>>
    ELSE LexError

Stars == <<"*", "/">>
Dashes == <<"-", "}">>
Comment(end) == [end |-> end, prev |-> ""]

StartBlockComment ==
    /\ Scanning /\ Two(index, "/", "*")
    /\ ReadFirst(index + 2, <<Comment(Stars)>>)

\* One round of the loop of process_block_comment; at the end of the text the
\* comment is unterminated.
CommentStep ==
    /\ lexing = "scanning" /\ comment # <<>>
    /\ LET inner == comment[Len(comment)]
           outer == SubSeq(comment, 1, Len(comment) - 1)
       IN  IF ~Has(index) THEN LexError
           ELSE IF <<inner.prev, At(index)>> = inner.end
           THEN IF outer = <<>>
                THEN /\ AdvanceTo(index + 1)
                     /\ comment' = <<>>
                     /\ UNCHANGED <<text, tokens, unsupported, lexing, layoutVars, lexed>>
                ELSE ReadFirst(index + 1, outer)
           ELSE IF NestedStarts(inner.prev, index)
           THEN ReadFirst(index + 1, Append(comment, Comment(IF At(index) = "*" THEN Stars ELSE Dashes)))
           ELSE ReadFirst(index, comment)

\* From the quote to the next one that no backslash escapes; the line must not
\* end before.  A literal is known by its first word.
StringLiteral ==
    /\ Scanning /\ At(index) = "\""
    /\ LET escaped[i \in index..Len(text)] == i > index /\ At(i - 1) = "\\" /\ ~escaped[i - 1]
           stops == {i \in (index + 1)..Len(text) :
                        IF escaped[i] THEN text[i].name \notin Escapes /\ At(i) \notin {"\"", "\\"}
                                      ELSE At(i) \in {"\"", "\n"}}
           end == EndOfRun(index, stops)
       IN  IF Has(end) /\ At(end) = "\"" /\ ~escaped[end]
           THEN AddToken("String", text[index + 1].name) /\ AdvanceTo(end + 1)
           ELSE LexError

Symbol ==
    /\ Scanning /\ At(index) \in Punctuation
    /\ AddToken(At(index), "")
    /\ AdvanceTo(index + 1)

SkipBlank ==
    /\ Scanning /\ At(index) \in Blanks
    /\ AdvanceTo(index + 1)
    /\ Skip

\* The error is kept and scanning goes on.
UnsupportedCharacter ==
    /\ Scanning /\ At(index) = "?"
    /\ AdvanceTo(index + 1)
    /\ unsupported' = TRUE
    /\ UNCHANGED <<text, comment, tokens, lexing, layoutVars, lexed>>

EndOfText ==
    /\ lexing = "scanning" /\ comment = <<>> /\ ~Has(index)
    /\ lexing' = "layout"
    /\ UNCHANGED <<scanVars, layoutVars, lexed>>

Scan ==
    \/ CollectIdentifier
    \/ CollectOperator
    \/ LineComment
    \/ StartBlockComment
    \/ CommentStep
    \/ StringLiteral
    \/ Symbol
    \/ SkipBlank
    \/ UnsupportedCharacter
    \/ EndOfText

-----------------------------------------------------------------------------
(* The layout pass: process_program, process_block and process_item.       *)
(* A block that is open is a record [module, start, first, parens]:        *)
(* whether it is the body of a module, the column of its first token,      *)
(* whether its current item is still empty, and the parentheses open in    *)
(* the item.                                                               *)

Rest == next <= Len(tokens)
Token == tokens[next]
Innermost == blocks[Len(blocks)]
Outer == SubSeq(blocks, 1, Len(blocks) - 1)

\* An entry of the result: src is the token whose location it has.
Kept(i) == [kind |-> tokens[i].kind, name |-> tokens[i].name, src |-> i]

\* add_end: an end has the location of the token before it.
End(kind, src) == [kind |-> kind, name |-> "", src |-> src]
LastSrc == result[Len(result)].src

OpenedAt(i, module) == [module |-> module, start |-> tokens[i].column, first |-> TRUE, parens |-> 0]

LayOut == lexing = "layout"
InBlock == LayOut /\ blocks # <<>>

\* A file that ends with the keyword has no block for it.
StartModule ==
    /\ LayOut /\ blocks = <<>> /\ Rest
    /\ IF Token.kind = "module"
       THEN /\ result' = Append(result, Kept(next))
            /\ next' = next + 1
            /\ blocks' = IF next < Len(tokens) THEN <<OpenedAt(next + 1, TRUE)>> ELSE <<>>
            /\ UNCHANGED <<scanVars, lexing, lexed>>
       ELSE LexError

\* The end that belongs to the last module; without any token add_end has no
\* location to take and panics.
EndProgram ==
    /\ LayOut /\ blocks = <<>> /\ ~Rest
    /\ IF result = <<>>
       THEN lexing' = "panicked" /\ UNCHANGED result
       ELSE lexing' = "merging" /\ result' = Append(result, End(ModuleEnd, LastSrc))
    /\ UNCHANGED <<scanVars, next, blocks, lexed>>

\* Mutant: an item goes on in the column of its block.
ItemEndsLeftOnly == ~Innermost.first /\ Token.column < Innermost.start

\* The first token of an item may be anywhere, the others are to the right of
\* the column of the block.
ItemEnds == ~Innermost.first /\ Token.column <= Innermost.start

\* The conditions that end an item and its block, in the order of the code.
ClosedByModule == Rest /\ ~ItemEnds /\ Token.kind = "module"
BlockEnds ==
    Rest => \/ ItemEnds /\ Token.column < Innermost.start
            \/ Token.kind = "module"
            \/ Token.kind = ")" /\ Innermost.parens = 0

\* Mutant: the token that begins the next item is taken and not kept.
ItemSwallows ==
    /\ InBlock /\ Rest /\ ItemEnds /\ Token.column = Innermost.start
    /\ result' = IF Innermost.module THEN result ELSE Append(result, End(ItemEnd, LastSrc))
    /\ next' = next + 1
    /\ blocks' = [blocks EXCEPT ![Len(blocks)].first = TRUE, ![Len(blocks)].parens = 0]
    /\ UNCHANGED <<scanVars, lexing, lexed>>

NextItem ==
    /\ InBlock /\ Rest /\ ItemEnds /\ Token.column = Innermost.start
    /\ result' = IF Innermost.module THEN result ELSE Append(result, End(ItemEnd, LastSrc))
    /\ blocks' = [blocks EXCEPT ![Len(blocks)].first = TRUE, ![Len(blocks)].parens = 0]
    /\ UNCHANGED <<scanVars, lexing, next, lexed>>

\* The keyword module ends a block without ending its item.
EndBlock ==
    /\ InBlock /\ BlockEnds
    /\ ~(Rest /\ ItemEnds /\ Token.column = Innermost.start)
    /\ result' =
        IF Innermost.module THEN Append(result, End(ModuleEnd, LastSrc))
        ELSE result \o (IF ClosedByModule THEN <<>> ELSE <<End(ItemEnd, LastSrc)>>)
                    \o <<End(BlockEnd, LastSrc)>>
    /\ blocks' = Outer
    /\ UNCHANGED <<scanVars, lexing, next, lexed>>

ParensAfter ==
    CASE Token.kind = "(" -> Innermost.parens + 1
      [] Token.kind = ")" -> Innermost.parens - 1
      [] Token.kind \notin {"(", ")"} -> Innermost.parens

WithToken == [blocks EXCEPT ![Len(blocks)].first = FALSE, ![Len(blocks)].parens = ParensAfter]

TakeToken ==
    /\ InBlock /\ Rest /\ ~ItemEnds /\ ~BlockEnds
    /\ Token.kind \notin Openers
    /\ result' = Append(result, Kept(next))
    /\ next' = next + 1
    /\ blocks' = WithToken
    /\ UNCHANGED <<scanVars, lexing, lexed>>

\* The token after where, do and of opens a block in its column.
OpenBlock ==
    /\ InBlock /\ Rest /\ ~ItemEnds /\ ~BlockEnds
    /\ Token.kind \in Openers
    /\ IF next = Len(tokens) THEN LexError
       ELSE /\ result' = Append(result, Kept(next))
            /\ next' = next + 1
            /\ blocks' = Append(WithToken, OpenedAt(next + 1, FALSE))
            /\ UNCHANGED <<scanVars, lexing, lexed>>

Layout ==
    \/ StartModule
    \/ EndProgram
    \/ NextItem
    \/ EndBlock
    \/ TakeToken
    \/ OpenBlock

-----------------------------------------------------------------------------
(* Numbers: a word, a dot and a word make a float if they read as one, but *)
(* not after a dot, where they are members of tuples.                      *)

IsNumeral(ts, i) == i \in DOMAIN ts /\ ts[i].kind = "Var" /\ ts[i].name \in Numerals

FloatAt(ts, i) ==
    /\ IsNumeral(ts, i) /\ IsNumeral(ts, i + 2) /\ ts[i + 1].kind = "."
    /\ i > 1 => ts[i - 1].kind # "."

MergedToken(ts, i) ==
    IF FloatAt(ts, i) THEN [kind |-> "Float", name |-> ts[i].name \o "." \o ts[i + 2].name]
    ELSE [kind |-> IF IsNumeral(ts, i) THEN "Int" ELSE ts[i].kind, name |-> ts[i].name]

\* The end of the last module was added twice: one is dropped.
Merged(ts) ==
    LET kept == SelectSeq([i \in DOMAIN ts |-> i],
                          LAMBDA i : ~\E j \in {i - 1, i - 2} : j > 0 /\ FloatAt(ts, j))
    IN  [k \in DOMAIN kept |-> MergedToken(ts, kept[k])]

MergeNumbers ==
    /\ lexing = "merging"
    /\ lexing' = IF unsupported THEN "failed" ELSE "lexed"
    /\ lexed' = Merged(SubSeq(result, 1, Len(result) - 1))
    /\ UNCHANGED <<scanVars, layoutVars>>

LexNext == Scan \/ Layout \/ MergeNumbers

LexSpec == LexInit /\ [][LexNext]_lexVars

-----------------------------------------------------------------------------
(* Properties. *)

\* The layout pass only adds ends: the tokens of the text are handed out in their
\* order, each of them once, and an end belongs to the token before it; none is
\* left when the pass is over.  process_block and process_item move the tokens from
\* one list to the other in five places.
TokensKept ==
    /\ IF result = <<>> THEN next = 1 ELSE result[1] = Kept(1) /\ result[Len(result)].src = next - 1
    /\ \A p \in 2..Len(result) :
        IF result[p].kind \in Ends THEN result[p].src = result[p - 1].src
        ELSE result[p] = Kept(result[p - 1].src + 1)
    /\ lexing \in {"merging", "lexed"} => next = Len(tokens) + 1

\* What the result of the layout pass says by itself.  The blocks in it: a word
\* that opens one, up to its end.
Opens(p) == result[p].kind \in Openers \cup {"module"}
Closes(p) == result[p].kind \in {BlockEnd, ModuleEnd}
DepthBefore(p) == Cardinality({q \in 1..(p - 1) : Opens(q)}) - Cardinality({q \in 1..(p - 1) : Closes(q)})
Positions == 1..(Len(result) - 1)
KeptAt(p) == result[p].kind \notin Ends
ColumnAt(p) == tokens[result[p].src].column
BlockColumn(q) == tokens[result[q].src + 1].column

\* For each position the word that opened its block, 0 if it is in none.  The
\* concatenations make sequences, which are evaluated once.
Openings ==
    LET depth == <<>> \o [p \in Positions |-> DepthBefore(p)]
    IN  <<>> \o [p \in Positions |-> Max({0} \cup {q \in 1..(p - 1) : Opens(q) /\ depth[q] = depth[p] - 1})]

\* The tokens of the block before a position.
Before(opener, p) == {r \in (opener[p] + 1)..(p - 1) : KeptAt(r) /\ opener[r] = opener[p]}

\* The tokens that begin an item of their block.
Beginnings(opener) ==
    {p \in Positions : KeptAt(p) /\ opener[p] # 0 /\
        (Before(opener, p) = {} \/ ColumnAt(p) = BlockColumn(opener[p]))}

\* The parentheses open in the item that a position is in.
OpenParens(opener, begin, p) ==
    LET item == {r \in Before(opener, p) : \A q \in Before(opener, p) \cap begin : q <= r}
    IN  Cardinality({r \in item : result[r].kind = "("}) - Cardinality({r \in item : result[r].kind = ")"})

\* A token stands in a block if it is not to the left of it and closes no
\* parenthesis that the item has not opened.
StandsIn(opener, begin, p) ==
    /\ ColumnAt(p) >= BlockColumn(opener[p])
    /\ result[p].kind # "module"
    /\ result[p].kind = ")" => p \notin begin /\ OpenParens(opener, begin, p) > 0

\* The end of a block is there because of what comes after it.
EndJustified(opener, begin, p) ==
    LET after == result[p].src + 1
    IN  \/ after > Len(tokens)
        \/ tokens[after].column < BlockColumn(opener[p])
        \/ tokens[after].kind = "module"
        \/ /\ tokens[after].kind = ")"
           /\ OpenParens(opener, begin, p) = 0 \/ tokens[after].column = BlockColumn(opener[p])

\* Items are separated where a token is in the column of the block, and the last
\* one is closed with the block unless the file goes on with a module.
ItemsSeparated(opener, p) ==
    /\ KeptAt(p) /\ opener[p] # 0 /\ result[opener[p]].kind # "module" /\ Before(opener, p) # {} =>
        (result[p - 1].kind = ItemEnd) = (ColumnAt(p) = BlockColumn(opener[p]))
    /\ result[p].kind = BlockEnd /\ result[p - 1].kind # ItemEnd =>
        result[p].src < Len(tokens) /\ tokens[result[p].src + 1].kind = "module"

\* Blocks are what their columns and parentheses say: every token is in the
\* innermost block it may stand in, no block ends before it has to, and items are
\* separated by their columns.  process_block and process_item decide it with
\* one column and one counter of parentheses for each block that is open.
LayoutExact ==
    lexing = "merging" =>
        LET opener == Openings
            begin == Beginnings(opener)
        IN  \A p \in Positions :
                /\ KeptAt(p) => IF opener[p] = 0 THEN result[p].kind = "module" ELSE StandsIn(opener, begin, p)
                /\ Closes(p) => opener[p] # 0 /\ EndJustified(opener, begin, p)
                /\ ItemsSeparated(opener, p)

\* Where a comment ends that is read from position i on, 0 if it does not: comments
\* in it are over first, and end with their own sign.
EndFrom(t, ends, i, sign) ==
    LET two == <<t[i].c, t[i + 1].c>>
        after(inner) == LET j == ends[<<i + 2, inner>>] IN IF j = 0 THEN 0 ELSE ends[<<j, sign>>]
    IN  IF i + 1 > Len(t) THEN 0
        ELSE IF two = sign THEN i + 2
        ELSE IF two = <<"/", "*">> THEN after(Stars)
        ELSE IF two = <<"{", "-">> THEN after(Dashes)
        ELSE ends[<<i + 1, sign>>]

CommentEnds(t) == LET ends[x \in Nat \X {Stars, Dashes}] == EndFrom(t, ends, x[1], x[2]) IN ends

\* The first comment of a text, if only words and punctuation come before it.
FirstComment(i) == Two(i, "/", "*") /\ \A k \in 1..(i - 1) : At(k) \notin OperatorChars \cup {"\""}

\* A comment takes the text up to its own end, whatever is nested in it, and one
\* without an end fails.  process_block_comment remembers one character, and takes
\* one more when a nested comment is over.
CommentsSkipped ==
    \A i \in DOMAIN text : FirstComment(i) =>
        LET end == CommentEnds(text)[<<i + 2, Stars>>]
        IN  /\ lexing = "scanning" /\ index > i /\ (end = 0 \/ index <= end) => (comment # <<>>) = (index # end)
            /\ end = 0 => lexing \in {"scanning", "failed"}

=============================================================================
