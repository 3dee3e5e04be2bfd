---------------------------- MODULE Lexer_proofs ----------------------------
(***************************************************************************)
(* For every set of texts, capitalised words and numerals: the layout pass *)
(* loses no token, adds none and keeps their order, comments are skipped   *)
(* up to their own end, and blocks are what their columns and parentheses  *)
(* say.                                                                    *)
(*                                                                         *)
(* TokensKept is not inductive: the step that appends an end needs a last  *)
(* entry, and the one that appends a token needs that a token is no end    *)
(* and that nothing was handed out before the scanner was done.            *)
(*                                                                         *)
(* CommentsSkipped is not inductive either: while comments are open, the   *)
(* end of each of them is found from the end of the one in it, and that of *)
(* the innermost one from the last character on.                           *)
(*                                                                         *)
(* LayoutExact speaks of the finished result: of counts of words that open *)
(* blocks, and of the tokens of a block before a position.  The layout     *)
(* pass keeps one column, one flag and one counter for each open block.    *)
(* The invariant LaidInv says what they are: the block number k is the one *)
(* that the last word at depth k - 1 opened; its counter is the number of  *)
(* parentheses open in the tokens of its last item, unless the next token  *)
(* begins an item, and then it is 0; and every entry so far fits.  An      *)
(* entry more changes the counts of its own block only (OneMore, Ended),   *)
(* so the blocks around the innermost one stay as they are (BlockStays).   *)
(***************************************************************************)
EXTENDS Lexer, SequenceTheorems, FiniteSetTheorems, WellFoundedInduction, TLAPS

NoEnds == \A i \in DOMAIN tokens : tokens[i].kind \notin Ends

LexInv ==
    /\ \E S : tokens \in Seq(S)
    /\ \E S : result \in Seq(S)
    /\ NoEnds
    /\ next \in 1..(Len(tokens) + 1)
    /\ blocks # <<>> => result # <<>>
    /\ lexing = "scanning" => result = <<>> /\ next = 1
    /\ TokensKept

\* Ends are no tokens.
LEMMA EndsAreNoKinds == Kinds \cap Ends = {}
BY DEF Kinds, Ends, Literals, Keywords, Operators, Punctuation, ItemEnd, BlockEnd, ModuleEnd

\* A sequence with one entry more is a sequence that begins as before.
LEMMA Appended ==
    ASSUME NEW S, NEW s \in Seq(S), NEW e
    PROVE  /\ \E T : Append(s, e) \in Seq(T)
           /\ Len(Append(s, e)) = Len(s) + 1
           /\ \A i \in 1..Len(s) : Append(s, e)[i] = s[i]
           /\ Append(s, e)[Len(s) + 1] = e
           /\ Append(s, e) # <<>>
<1> DEFINE T == S \cup {e}
<1>1. s \in Seq(T) /\ e \in T
    OBVIOUS
<1>2. Append(s, e) \in Seq(T)
    BY <1>1
<1> QED
    BY <1>1, <1>2

LEMMA LexInitInv == LexInit => LexInv
<1> SUFFICES ASSUME LexInit PROVE LexInv
    OBVIOUS
<1>1. tokens = <<>> /\ result = <<>> /\ next = 1 /\ blocks = <<>> /\ lexing = "scanning"
    BY DEF LexInit
<1>2. tokens \in Seq({}) /\ result \in Seq({}) /\ Len(tokens) = 0
    BY <1>1
<1> QED
    BY <1>1, <1>2 DEF LexInv, NoEnds, TokensKept

-----------------------------------------------------------------------------
(* Scanning. *)

\* Nothing of the layout pass changes, and the tokens stay.
LEMMA TokensStay ==
    ASSUME LexInv, UNCHANGED <<tokens, next, result, blocks>>,
           lexing' = "scanning" => lexing = "scanning",
           lexing' \in {"merging", "lexed"} => next = Len(tokens) + 1
    PROVE  LexInv'
BY DEF LexInv, NoEnds, TokensKept, Kept

\* A token is added while nothing has been handed out.
LEMMA TokenAdded ==
    ASSUME LexInv, lexing = "scanning", NEW kind \in Kinds, NEW name, AddToken(kind, name)
    PROVE  LexInv'
<1> DEFINE token == [kind |-> kind, name |-> name, column |-> column]
<1>1. /\ tokens' = Append(tokens, token)
      /\ UNCHANGED <<next, result, blocks, lexing>>
    BY DEF AddToken, layoutVars
<1>2. PICK S : tokens \in Seq(S)
    BY DEF LexInv
<1>3. /\ \E T : tokens' \in Seq(T)
      /\ Len(tokens') = Len(tokens) + 1
      /\ \A i \in 1..Len(tokens) : tokens'[i] = tokens[i]
      /\ tokens'[Len(tokens) + 1] = token
    <2> HIDE DEF token
    <2>1. tokens' = Append(tokens, token)
        BY <1>1
    <2>2. /\ \E T : Append(tokens, token) \in Seq(T)
          /\ Len(Append(tokens, token)) = Len(tokens) + 1
          /\ \A i \in 1..Len(tokens) : Append(tokens, token)[i] = tokens[i]
          /\ Append(tokens, token)[Len(tokens) + 1] = token
        BY ONLY <1>2, Appended
    <2> QED
        BY ONLY <2>1, <2>2
<1>4. NoEnds'
    <2>1. token.kind \notin Ends
        BY EndsAreNoKinds
    <2>2. DOMAIN tokens = 1..Len(tokens) /\ DOMAIN tokens' = 1..(Len(tokens) + 1) /\ Len(tokens) \in Nat
        BY <1>2, <1>3
    <2> QED
        BY <1>3, <2>1, <2>2 DEF NoEnds, LexInv
<1> QED
    BY <1>1, <1>2, <1>3, <1>4 DEF LexInv, TokensKept

\* What the scanner does to the tokens is to add one, or nothing.
LEMMA ScanInv ==
    ASSUME LexInv, Scan
    PROVE  LexInv'
<1> USE DEF scanVars, layoutVars
<1>1. CASE CollectIdentifier
    <2>1. lexing = "scanning"
        BY <1>1 DEF CollectIdentifier, Scanning
    <2>2. \E kind \in Kinds : \E name : AddToken(kind, name)
        BY <1>1 DEF CollectIdentifier, Kinds, Literals
    <2> QED
        BY <2>1, <2>2, TokenAdded
<1>2. CASE CollectOperator
    <2>1. lexing = "scanning"
        BY <1>2 DEF CollectOperator, Scanning
    <2>2. (\E kind \in Operators : AddToken(kind, "")) \/ LexError
        BY <1>2 DEF CollectOperator
    <2>3. CASE LexError
        BY <2>1, <2>3, TokensStay DEF LexError
    <2> QED
        BY <2>1, <2>2, <2>3, TokenAdded DEF Kinds
<1>3. CASE LineComment \/ SkipBlank
    BY <1>3, TokensStay DEF LineComment, SkipBlank, Scanning, Skip
<1>4. CASE StartBlockComment \/ CommentStep
    <2>1. lexing = "scanning" /\ UNCHANGED <<tokens, next, result, blocks>> /\ lexing' \in {"scanning", "failed"}
        BY <1>4 DEF StartBlockComment, CommentStep, Scanning, ReadFirst, LexError
    <2> QED
        BY <2>1, TokensStay
<1>5. CASE StringLiteral
    <2>1. lexing = "scanning"
        BY <1>5 DEF StringLiteral, Scanning
    <2>2. AddToken("String", text[index + 1].name) \/ LexError
        BY <1>5 DEF StringLiteral
    <2>3. CASE LexError
        BY <2>1, <2>3, TokensStay DEF LexError
    <2> QED
        BY <2>1, <2>2, <2>3, TokenAdded DEF Kinds, Literals
<1>6. CASE Symbol
    <2>1. lexing = "scanning" /\ At(index) \in Kinds /\ AddToken(At(index), "")
        BY <1>6 DEF Symbol, Scanning, Kinds
    <2> QED
        BY <2>1, TokenAdded
<1>7. CASE UnsupportedCharacter
    BY <1>7, TokensStay DEF UnsupportedCharacter, Scanning
<1>8. CASE EndOfText
    BY <1>8, TokensStay DEF EndOfText
<1> QED
    BY <1>1, <1>2, <1>3, <1>4, <1>5, <1>6, <1>7, <1>8 DEF Scan

-----------------------------------------------------------------------------
(* The layout pass. *)

\* What stays true if the result gets one entry more: an end with the location of
\* the entry before it, or the next token.
LEMMA EndAdded ==
    ASSUME LexInv, result # <<>>, lexing # "scanning", NEW kind \in Ends,
           result' = Append(result, End(kind, LastSrc)),
           UNCHANGED <<tokens, next>>,
           lexing' # "scanning",
           lexing' \in {"merging", "lexed"} => next = Len(tokens) + 1
    PROVE  LexInv'
<1> DEFINE end == End(kind, LastSrc)
<1>1. PICK S : result \in Seq(S)
    BY DEF LexInv
<1>2. /\ \E T : result' \in Seq(T)
      /\ Len(result') = Len(result) + 1
      /\ \A i \in 1..Len(result) : result'[i] = result[i]
      /\ result'[Len(result) + 1] = end
      /\ result' # <<>>
    BY <1>1, Appended
<1>3. end.kind \in Ends /\ end.src = result[Len(result)].src
    BY DEF End, LastSrc
<1>4. Len(result) \in Nat /\ Len(result) > 0
    BY <1>1 DEF LexInv
<1>5. TokensKept'
    <2>1. result'[1] = Kept(1) /\ result'[Len(result')].src = next' - 1
        BY <1>2, <1>3, <1>4 DEF LexInv, TokensKept, Kept
    <2>2. ASSUME NEW p \in 2..Len(result')
          PROVE  IF result'[p].kind \in Ends THEN result'[p].src = result'[p - 1].src
                 ELSE result'[p] = Kept(result'[p - 1].src + 1)
        <3>1. CASE p = Len(result) + 1
            BY <1>2, <1>3, <1>4, <3>1
        <3>2. CASE p # Len(result) + 1
            <4>1. p \in 2..Len(result) /\ p - 1 \in 1..Len(result) /\ p \in 1..Len(result)
                BY <1>2, <1>4, <3>2
            <4> QED
                BY <1>2, <4>1 DEF LexInv, TokensKept, Kept
        <3> QED
            BY <3>1, <3>2
    <2> QED
        BY <1>2, <2>1, <2>2 DEF TokensKept, Kept
<1> QED
    BY <1>2, <1>5 DEF LexInv, NoEnds

\* The end of an item and that of its block.
LEMMA TwoEndsAdded ==
    ASSUME LexInv, result # <<>>, lexing = "layout",
           result' = result \o <<End(ItemEnd, LastSrc)>> \o <<End(BlockEnd, LastSrc)>>,
           UNCHANGED <<tokens, next, lexing>>
    PROVE  LexInv'
<1> DEFINE n == Len(result)
           item == End(ItemEnd, LastSrc)
           block == End(BlockEnd, LastSrc)
<1>1. PICK S : result \in Seq(S)
    BY DEF LexInv
<1>2. /\ \E T : result' \in Seq(T)
      /\ Len(result') = n + 2
      /\ \A i \in 1..n : result'[i] = result[i]
      /\ result'[n + 1] = item /\ result'[n + 2] = block
      /\ result' # <<>>
    <2> DEFINE T == S \cup {item, block}
    <2>1. result \in Seq(T) /\ item \in T /\ block \in T
        BY <1>1
    <2>2. <<item>> \in Seq(T) /\ <<block>> \in Seq(T)
        BY <2>1
    <2>3. /\ result \o <<item>> \in Seq(T)
          /\ Len(result \o <<item>>) = n + 1
          /\ \A i \in 1..n : (result \o <<item>>)[i] = result[i]
          /\ (result \o <<item>>)[n + 1] = item
        BY <2>1, <2>2
    <2> QED
        BY <2>2, <2>3
<1>3. /\ item.kind \in Ends /\ item.src = result[n].src
      /\ block.kind \in Ends /\ block.src = result[n].src
    BY DEF End, LastSrc, Ends
<1>4. n \in Nat /\ n > 0
    BY <1>1
<1>5. TokensKept'
    <2>1. result'[1] = Kept(1) /\ result'[Len(result')].src = next' - 1
        BY <1>2, <1>3, <1>4 DEF LexInv, TokensKept, Kept
    <2>2. ASSUME NEW p \in 2..Len(result')
          PROVE  IF result'[p].kind \in Ends THEN result'[p].src = result'[p - 1].src
                 ELSE result'[p] = Kept(result'[p - 1].src + 1)
        <3>1. CASE p \in {n + 1, n + 2}
            BY <1>2, <1>3, <1>4, <3>1
        <3>2. CASE p \notin {n + 1, n + 2}
            <4>1. p \in 2..n /\ p - 1 \in 1..n /\ p \in 1..n
                BY <1>2, <1>4, <3>2
            <4> QED
                BY <1>2, <4>1 DEF LexInv, TokensKept, Kept
        <3> QED
            BY <3>1, <3>2
    <2> QED
        BY <1>2, <2>1, <2>2 DEF TokensKept, Kept
<1> QED
    BY <1>2, <1>5 DEF LexInv, NoEnds

\* The next token is handed out.
LEMMA TokenTaken ==
    ASSUME LexInv, Rest, lexing # "scanning",
           result # <<>> \/ next = 1,
           result' = Append(result, Kept(next)), next' = next + 1,
           UNCHANGED <<tokens, lexing>>, lexing = "layout"
    PROVE  LexInv'
<1> DEFINE token == Kept(next)
<1>1. result' = Append(result, token)
    OBVIOUS
<1> HIDE DEF token
<1>2. PICK S : result \in Seq(S)
    BY DEF LexInv
<1>3. /\ \E T : result' \in Seq(T)
      /\ Len(result') = Len(result) + 1
      /\ \A i \in 1..Len(result) : result'[i] = result[i]
      /\ result'[Len(result) + 1] = token
      /\ result' # <<>>
    <2>1. /\ \E T : Append(result, token) \in Seq(T)
          /\ Len(Append(result, token)) = Len(result) + 1
          /\ \A i \in 1..Len(result) : Append(result, token)[i] = result[i]
          /\ Append(result, token)[Len(result) + 1] = token
          /\ Append(result, token) # <<>>
        BY <1>2, Appended
    <2> QED
        BY <1>1, <2>1
<1> USE DEF token
<1>4. PICK K : tokens \in Seq(K)
    BY DEF LexInv
<1>5. next \in 1..Len(tokens) /\ Len(tokens) \in Nat /\ Len(result) \in Nat
    BY <1>2, <1>4 DEF LexInv, Rest
<1>6. Kept(next).kind \notin Ends /\ Kept(next).src = next
    BY <1>4, <1>5 DEF LexInv, NoEnds, Kept
<1>7. result = <<>> <=> Len(result) = 0
    BY <1>2
<1>8. TokensKept'
    <2>1. result'[1] = Kept(1) /\ result'[Len(result')].src = next' - 1
        BY <1>3, <1>5, <1>6, <1>7 DEF LexInv, TokensKept, Kept
    <2>2. ASSUME NEW p \in 2..Len(result')
          PROVE  IF result'[p].kind \in Ends THEN result'[p].src = result'[p - 1].src
                 ELSE result'[p] = Kept(result'[p - 1].src + 1)
        <3>1. CASE p = Len(result) + 1
            <4>1. result # <<>> /\ p - 1 = Len(result) /\ p - 1 \in 1..Len(result)
                BY <1>3, <1>5, <1>7, <3>1
            <4>2. result'[p - 1].src = next - 1
                BY <1>3, <4>1 DEF LexInv, TokensKept
            <4> QED
                BY <1>3, <1>5, <1>6, <3>1, <4>2 DEF Kept
        <3>2. CASE p # Len(result) + 1
            <4>1. p \in 2..Len(result) /\ p - 1 \in 1..Len(result) /\ p \in 1..Len(result)
                BY <1>3, <1>5, <3>2
            <4> QED
                BY <1>3, <4>1 DEF LexInv, TokensKept, Kept
        <3> QED
            BY <3>1, <3>2
    <2> QED
        BY <1>3, <2>1, <2>2 DEF TokensKept, Kept
<1> QED
    BY <1>3, <1>5, <1>8 DEF LexInv, NoEnds

\* Only the blocks change.
LEMMA BlocksChange ==
    ASSUME LexInv, UNCHANGED <<tokens, next, result, lexing>>, blocks' # <<>> => result # <<>>
    PROVE  LexInv'
BY DEF LexInv, NoEnds, TokensKept, Kept

LEMMA LayoutInv ==
    ASSUME LexInv, Layout
    PROVE  LexInv'
<1> USE DEF scanVars, LayOut, InBlock
<1>1. CASE StartModule
    <2>1. CASE Token.kind = "module"
        <3>1. /\ result' = Append(result, Kept(next)) /\ next' = next + 1
              /\ UNCHANGED <<tokens, lexing>> /\ lexing = "layout" /\ Rest
            BY <1>1, <2>1 DEF StartModule
        <3>2. result # <<>> \/ next = 1
            BY DEF LexInv, TokensKept
        <3> QED
            BY <3>1, <3>2, TokenTaken
    <2>2. CASE LexError
        <3>1. lexing' = "failed" /\ UNCHANGED <<tokens, next, result, blocks>>
            BY <2>2 DEF LexError, layoutVars
        <3> QED
            BY <3>1, TokensStay
    <2> QED
        BY <1>1, <2>1, <2>2 DEF StartModule
<1>2. CASE EndProgram
    <2>1. lexing = "layout" /\ ~Rest /\ UNCHANGED <<tokens, next, blocks>>
        BY <1>2 DEF EndProgram
    <2>2. CASE result = <<>>
        <3>1. lexing' = "panicked" /\ UNCHANGED result
            BY <1>2, <2>2 DEF EndProgram
        <3> QED
            BY <2>1, <3>1, TokensStay
    <2>3. CASE result # <<>>
        <3>1. lexing' = "merging" /\ result' = Append(result, End(ModuleEnd, LastSrc))
            BY <1>2, <2>3 DEF EndProgram
        <3>2. next = Len(tokens) + 1
            <4>1. PICK S : tokens \in Seq(S)
                BY DEF LexInv
            <4> QED
                BY <2>1, <4>1 DEF LexInv, Rest
        <3> QED
            BY <2>1, <2>3, <3>1, <3>2, EndAdded DEF Ends
    <2> QED
        BY <2>2, <2>3
<1>3. CASE NextItem
    <2>1. result # <<>> /\ lexing = "layout" /\ UNCHANGED <<tokens, next, lexing>>
        BY <1>3 DEF NextItem, LexInv
    <2>2. CASE Innermost.module
        BY <1>3, <2>1, <2>2, BlocksChange DEF NextItem
    <2>3. CASE ~Innermost.module
        BY <1>3, <2>1, <2>3, EndAdded DEF NextItem, Ends
    <2> QED
        BY <2>2, <2>3
<1>4. CASE TakeToken \/ OpenBlock
    <2>1. CASE LexError
        <3>1. lexing' = "failed" /\ UNCHANGED <<tokens, next, result, blocks>>
            BY <2>1 DEF LexError, layoutVars
        <3> QED
            BY <3>1, TokensStay
    <2>2. CASE ~LexError
        <3>1. /\ result' = Append(result, Kept(next)) /\ next' = next + 1
              /\ UNCHANGED <<tokens, lexing>> /\ lexing = "layout" /\ Rest /\ blocks # <<>>
            BY <1>4, <2>2 DEF TakeToken, OpenBlock
        <3> QED
            BY <3>1, TokenTaken DEF LexInv
    <2> QED
        BY <2>1, <2>2
<1>5. CASE EndBlock
    <2>1. result # <<>> /\ lexing = "layout" /\ UNCHANGED <<tokens, next, lexing>> /\ blocks' = Outer
        BY <1>5 DEF EndBlock, LexInv
    <2>2. CASE Innermost.module
        BY <1>5, <2>1, <2>2, EndAdded DEF EndBlock, Ends
    <2>3. CASE ~Innermost.module /\ ClosedByModule
        <3>1. result' = Append(result, End(BlockEnd, LastSrc))
            BY <1>5, <2>1, <2>3 DEF EndBlock, LexInv
        <3> QED
            BY <2>1, <3>1, EndAdded DEF Ends
    <2>4. CASE ~Innermost.module /\ ~ClosedByModule
        <3>1. result' = result \o <<End(ItemEnd, LastSrc)>> \o <<End(BlockEnd, LastSrc)>>
            BY <1>5, <2>4 DEF EndBlock
        <3> QED
            BY <2>1, <3>1, TwoEndsAdded
    <2> QED
        BY <2>2, <2>3, <2>4
<1> QED
    BY <1>1, <1>2, <1>3, <1>4, <1>5 DEF Layout

\* One step, and all of them.
LEMMA LexNextInv ==
    ASSUME LexInv, [LexNext]_lexVars
    PROVE  LexInv'
<1>1. CASE MergeNumbers
    <2>1. UNCHANGED <<tokens, next, result, blocks>> /\ lexing = "merging" /\ lexing' # "scanning"
        BY <1>1 DEF MergeNumbers, scanVars, layoutVars
    <2>2. next = Len(tokens) + 1
        BY <2>1 DEF LexInv, TokensKept
    <2> QED
        BY <2>1, <2>2, TokensStay
<1>2. CASE UNCHANGED lexVars
    <2>1. UNCHANGED <<tokens, next, result, blocks, lexing>>
        BY <1>2 DEF lexVars, scanVars, layoutVars
    <2> QED
        BY <2>1, BlocksChange DEF LexInv
<1> QED
    BY <1>1, <1>2, ScanInv, LayoutInv DEF LexNext

\* In every reachable state the tokens handed out are the first ones that were
\* scanned, each once and in their order, an end has the location of the token
\* before it, and no token is left when process_program returns.
THEOREM TokensAlwaysKept == LexSpec => []TokensKept
<1>1. LexInit => LexInv
    BY LexInitInv
<1>2. LexInv /\ [LexNext]_lexVars => LexInv'
    BY LexNextInv
<1>3. LexInv => TokensKept
    BY DEF LexInv
<1> QED
    BY <1>1, <1>2, <1>3, PTL DEF LexSpec

-----------------------------------------------------------------------------
(* Where comments end.  CommentEnds is defined by recursion from the end   *)
(* of the text; that there is such a function, and that an end comes after *)
(* its comment, is by induction on the number of pieces that are left.     *)

LEMMA LeastNatural ==
    ASSUME NEW S \in SUBSET Nat, S # {}
    PROVE  \E x \in S : \A y \in S : x <= y
<1> DEFINE R == OpToRel(<, Nat)
<1>1. R = {ss \in Nat \X Nat : ss[1] < ss[2]}
    BY Zenon DEF OpToRel
<1>2. PICK x \in S : \A y \in S : <<y, x>> \notin R
    BY NatLessThanWellFounded, WFMin, Zenon
<1> HIDE DEF R
<1>3. ASSUME NEW y \in S
      PROVE  x <= y
    <2>1. y \in Nat /\ x \in Nat /\ <<y, x>> \notin R
        BY <1>2
    <2>2. ~(y < x)
        BY <1>1, <2>1
    <2> QED
        BY <2>1, <2>2
<1> QED
    BY <1>3

\* Induction over the natural numbers, with a set in place of an operator.
LEMMA NatSetInduction ==
    ASSUME NEW S, 0 \in S, \A n \in Nat : n \in S => n + 1 \in S
    PROVE  Nat \subseteq S
<1> SUFFICES ASSUME Nat \ S # {}
             PROVE  FALSE
    OBVIOUS
<1>1. PICK x \in Nat \ S : \A y \in Nat \ S : x <= y
    BY LeastNatural
<1>2. x - 1 \in Nat /\ x - 1 \in S
    BY <1>1
<1> QED
    BY <1>1, <1>2

Signs == {Stars, Dashes}
InBound(i, j) == j \in Nat /\ (j = 0 \/ j >= i + 2)

\* An end depends on what is found further on only.
LEMMA EndBounded ==
    ASSUME NEW t, NEW ends, NEW i \in Nat, NEW sign \in Signs,
           \A j \in Nat : \A s \in Signs : j > i => InBound(j, ends[<<j, s>>])
    PROVE  InBound(i, EndFrom(t, ends, i, sign))
<1> DEFINE after(inner) == LET j == ends[<<i + 2, inner>>] IN IF j = 0 THEN 0 ELSE ends[<<j, sign>>]
<1>1. ASSUME NEW inner \in Signs
      PROVE  InBound(i, after(inner))
    <2>1. InBound(i + 2, ends[<<i + 2, inner>>])
        BY <1>1
    <2>2. ASSUME ends[<<i + 2, inner>>] # 0
          PROVE  InBound(ends[<<i + 2, inner>>], ends[<<ends[<<i + 2, inner>>], sign>>])
        BY <2>1, <2>2 DEF InBound
    <2> QED
        BY <2>1, <2>2 DEF InBound
<1>2. InBound(i, after(Stars)) /\ InBound(i, after(Dashes))
    BY <1>1 DEF Signs
<1>3. InBound(i, ends[<<i + 1, sign>>]) /\ InBound(i, 0) /\ InBound(i, i + 2)
    <2>1. InBound(i + 1, ends[<<i + 1, sign>>])
        OBVIOUS
    <2> QED
        BY <2>1 DEF InBound
<1> QED
    BY <1>2, <1>3 DEF EndFrom

LEMMA EndLocal ==
    ASSUME NEW t, NEW f, NEW g, NEW i \in Nat, NEW sign \in Signs,
           \A j \in Nat : \A s \in Signs : j > i => f[<<j, s>>] = g[<<j, s>>] /\ InBound(j, f[<<j, s>>])
    PROVE  EndFrom(t, f, i, sign) = EndFrom(t, g, i, sign)
<1>1. \A inner \in Signs :
        /\ f[<<i + 2, inner>>] = g[<<i + 2, inner>>]
        /\ f[<<i + 2, inner>>] # 0 =>
            f[<<f[<<i + 2, inner>>], sign>>] = g[<<f[<<i + 2, inner>>], sign>>]
    <2> TAKE inner \in Signs
    <2>1. f[<<i + 2, inner>>] = g[<<i + 2, inner>>] /\ InBound(i + 2, f[<<i + 2, inner>>])
        OBVIOUS
    <2> QED
        BY <2>1 DEF InBound
<1>2. f[<<i + 1, sign>>] = g[<<i + 1, sign>>]
    OBVIOUS
<1>3. Stars \in Signs /\ Dashes \in Signs
    BY DEF Signs
<1> QED
    BY <1>1, <1>2, <1>3 DEF EndFrom

LEMMA EndOutside ==
    ASSUME NEW t, Len(t) \in Nat, NEW ends, NEW i \in Nat, i >= Len(t), NEW sign
    PROVE  EndFrom(t, ends, i, sign) = 0
<1>1. i + 1 > Len(t)
    OBVIOUS
<1> QED
    BY <1>1 DEF EndFrom

\* A function that finds the ends from a position on.
FindsFrom(t, f, n) ==
    \A i \in Nat : \A sign \in Signs :
        i >= n => f[<<i, sign>>] = EndFrom(t, f, i, sign) /\ InBound(i, f[<<i, sign>>])

LEMMA FindsOneMore ==
    ASSUME NEW t, NEW n \in Nat, NEW f \in [Nat \X Signs -> Nat], FindsFrom(t, f, n + 1)
    PROVE  \E g \in [Nat \X Signs -> Nat] : FindsFrom(t, g, n)
<1> DEFINE g == [x \in Nat \X Signs |-> IF x[1] = n THEN EndFrom(t, f, n, x[2]) ELSE f[x]]
<1>1. \A j \in Nat : \A s \in Signs : j > n => InBound(j, f[<<j, s>>])
    BY DEF FindsFrom
<1>2. \A s \in Signs : InBound(n, EndFrom(t, f, n, s))
    BY <1>1, EndBounded
<1>3. \A j \in Nat : \A s \in Signs : g[<<j, s>>] = IF j = n THEN EndFrom(t, f, n, s) ELSE f[<<j, s>>]
    OBVIOUS
<1>4. g \in [Nat \X Signs -> Nat]
    BY <1>2 DEF InBound
<1> HIDE DEF g
<1>5. FindsFrom(t, g, n)
    <2> SUFFICES ASSUME NEW i \in Nat, NEW s \in Signs, i >= n
                 PROVE  g[<<i, s>>] = EndFrom(t, g, i, s) /\ InBound(i, g[<<i, s>>])
        BY DEF FindsFrom
    <2>1. \A j \in Nat : \A r \in Signs : j > i => f[<<j, r>>] = g[<<j, r>>] /\ InBound(j, f[<<j, r>>])
        BY <1>1, <1>3
    <2>2. EndFrom(t, f, i, s) = EndFrom(t, g, i, s)
        BY <2>1, EndLocal
    <2>3. g[<<i, s>>] = EndFrom(t, f, i, s) /\ InBound(i, g[<<i, s>>])
        BY <1>2, <1>3 DEF FindsFrom
    <2> QED
        BY <2>2, <2>3
<1> QED
    BY <1>4, <1>5

LEMMA CommentEndsFind ==
    ASSUME NEW t, Len(t) \in Nat
    PROVE  FindsFrom(t, CommentEnds(t), 0)
<1> DEFINE Fs == [Nat \X Signs -> Nat]
           Found == {k \in Nat : \E f \in Fs : FindsFrom(t, f, IF k <= Len(t) THEN Len(t) - k ELSE 0)}
<1>1. 0 \in Found
    <2> DEFINE f == [x \in Nat \X Signs |-> 0]
    <2>1. f \in Fs /\ \A i \in Nat : \A s \in Signs : f[<<i, s>>] = 0
        OBVIOUS
    <2> HIDE DEF f
    <2>2. FindsFrom(t, f, Len(t))
        BY <2>1, EndOutside DEF FindsFrom, InBound
    <2> QED
        BY <2>1, <2>2
<1>2. ASSUME NEW k \in Nat, k \in Found
      PROVE  k + 1 \in Found
    <2>1. PICK f \in Fs : FindsFrom(t, f, IF k <= Len(t) THEN Len(t) - k ELSE 0)
        BY <1>2
    <2>2. CASE k < Len(t)
        <3> DEFINE n == Len(t) - (k + 1)
        <3>1. n \in Nat /\ n + 1 = Len(t) - k
            BY <2>2
        <3>2. FindsFrom(t, f, n + 1)
            BY <2>1, <2>2, <3>1
        <3>3. \E g \in Fs : FindsFrom(t, g, n)
            BY <3>1, <3>2, FindsOneMore
        <3> QED
            BY <2>2, <3>3
    <2>3. CASE k >= Len(t)
        <3>1. FindsFrom(t, f, 0)
            BY <2>1, <2>3
        <3> QED
            BY <2>3, <3>1
    <2> QED
        BY <2>2, <2>3
<1>3. Len(t) \in Found
    <2> HIDE DEF Found
    <2> QED
        BY <1>1, <1>2, NatSetInduction
<1>4. PICK f \in Fs : FindsFrom(t, f, 0)
    <2>1. \E f \in Fs : FindsFrom(t, f, IF Len(t) <= Len(t) THEN Len(t) - Len(t) ELSE 0)
        BY <1>3
    <2>2. (IF Len(t) <= Len(t) THEN Len(t) - Len(t) ELSE 0) = 0
        OBVIOUS
    <2> QED
        BY <2>1, <2>2
<1> DEFINE g == CommentEnds(t)
<1>5. f = [x \in Nat \X Signs |-> EndFrom(t, f, x[1], x[2])]
    BY <1>4 DEF FindsFrom
<1>6. g = [x \in Nat \X Signs |-> EndFrom(t, g, x[1], x[2])]
    BY <1>5 DEF CommentEnds, Signs
<1>7. \A i \in Nat : \A s \in Signs : g[<<i, s>>] = EndFrom(t, g, i, s)
    BY <1>6
<1> HIDE DEF g
<1> DEFINE Bounded == {k \in Nat : \A i \in Nat : \A s \in Signs : i + k >= Len(t) => InBound(i, g[<<i, s>>])}
<1>8. 0 \in Bounded
    BY <1>7, EndOutside DEF InBound
<1>9. ASSUME NEW k \in Nat, k \in Bounded
      PROVE  k + 1 \in Bounded
    <2> SUFFICES ASSUME NEW i \in Nat, NEW s \in Signs, i + (k + 1) >= Len(t)
                 PROVE  InBound(i, g[<<i, s>>])
        OBVIOUS
    <2>1. \A j \in Nat : \A r \in Signs : j > i => InBound(j, g[<<j, r>>])
        BY <1>9
    <2> QED
        BY <1>7, <2>1, EndBounded
<1>10. Len(t) \in Bounded
    <2> HIDE DEF Bounded
    <2> QED
        BY <1>8, <1>9, NatSetInduction
<1> QED
    BY <1>7, <1>10 DEF FindsFrom, g

-----------------------------------------------------------------------------
(* Comments. *)

TextInv == text \in Seq(Piece) /\ index \in 1..(Len(text) + 1)

\* Comments that are open; a character is a member of P.
Open(P) == Seq([end : Signs, prev : P])

\* The innermost comment remembers the character that was read last.
Frames ==
    /\ \E P : comment \in Open(P)
    /\ comment # <<>> => index > 1 /\ comment[Len(comment)].prev = At(index - 1)

\* The ends of the comments that are open: that of the innermost one is found from
\* the last character on, that of another one from the end of the one in it.
EndsAt(c, ends) ==
    /\ c \in [1..Len(comment) -> Nat]
    /\ c[Len(comment)] = ends[<<index - 1, comment[Len(comment)].end>>]
    /\ \A k \in 1..(Len(comment) - 1) :
        c[k] = IF c[k + 1] = 0 THEN 0 ELSE ends[<<c[k + 1], comment[k].end>>]
    /\ \A j, k \in 1..Len(comment) : j < k => c[j] = 0 \/ (c[k] # 0 /\ c[j] > c[k])

\* The first comment is still to come, open, without an end or over.
CommentAt(i, ends) ==
    \/ lexing = "scanning" /\ comment = <<>> /\ index <= i
    \/ /\ lexing = "scanning" /\ comment # <<>> /\ index > i
       /\ \E c : EndsAt(c, ends) /\ c[1] = ends[<<i + 2, Stars>>]
    \/ lexing = "failed"
    \/ /\ ends[<<i + 2, Stars>>] # 0 /\ index >= ends[<<i + 2, Stars>>]
       /\ index = ends[<<i + 2, Stars>>] => comment = <<>>

CommentInv ==
    /\ TextInv /\ Frames
    /\ \A i \in DOMAIN text : FirstComment(i) => CommentAt(i, CommentEnds(text))

LEMMA TextParts ==
    ASSUME TextInv
    PROVE  /\ Len(text) \in Nat /\ DOMAIN text = 1..Len(text)
           /\ \A i \in 1..Len(text) : At(i) \in Chars
<1>1. Len(text) \in Nat /\ DOMAIN text = 1..Len(text) /\ \A i \in 1..Len(text) : text[i] \in Piece
    BY LenProperties, ElementOfSeq DEF TextInv
<1> QED
    BY <1>1 DEF Piece, At

\* EndOfRun finds a position that is not before the first one.
LEMMA RunAhead ==
    ASSUME TextInv, NEW i \in 1..(Len(text) + 1), NEW stops
    PROVE  EndOfRun(i, stops) \in i..(Len(text) + 1)
<1> DEFINE S == {j \in i..(Len(text) + 1) : Has(j) => j \in stops}
<1>1. Len(text) \in Nat
    BY TextParts
<1>2. S \in SUBSET Nat /\ Len(text) + 1 \in S
    BY <1>1 DEF Has
<1>3. PICK j \in S : \A k \in S : j <= k
    BY <1>2, LeastNatural
<1>4. \A k \in i..(j - 1) : k \notin stops
    BY <1>1, <1>3 DEF Has
<1> QED
    BY <1>3, <1>4 DEF EndOfRun

\* The characters that do not come before the first comment.
Special == OperatorChars \cup {"\""}

\* What is scanned outside of comments leaves them alone.
LEMMA OutsideComments ==
    ASSUME TextInv, Scan, ~StartBlockComment, ~CommentStep
    PROVE  /\ text' = text /\ index' \in index..(Len(text) + 1)
           /\ comment = <<>> /\ comment' = <<>>
           /\ lexing = "scanning" /\ lexing' \in {"scanning", "layout", "failed"}
           /\ lexing' = "layout" => ~Has(index)
           /\ lexing' = "scanning" => Has(index)
           /\ lexing' = "scanning" /\ At(index) \notin Special => index' = index + 1
<1> USE DEF Scanning, Has, scanVars, layoutVars
<1>1. Len(text) \in Nat /\ index \in Nat /\ index >= 1 /\ index <= Len(text) + 1
    BY TextParts DEF TextInv
<1>2. CASE CollectIdentifier
    <2>1. \E kind, name : AddToken(kind, name)
        BY <1>2 DEF CollectIdentifier
    <2>2. index' = index + 1 /\ Has(index) /\ lexing = "scanning" /\ comment = <<>>
        BY <1>2 DEF CollectIdentifier, AdvanceTo
    <2> QED
        BY <1>1, <2>1, <2>2 DEF AddToken
<1>3. CASE LexError /\ lexing = "scanning" /\ comment = <<>>
    BY <1>1, <1>3 DEF LexError
<1>4. CASE CollectOperator
    <2> DEFINE end == EndOfRun(index, {i \in DOMAIN text : At(i) \notin OperatorChars})
    <2>1. \/ LexError
          \/ (\E kind, name : AddToken(kind, name)) /\ AdvanceTo(end)
        BY <1>4 DEF CollectOperator
    <2>2. end \in index..(Len(text) + 1)
        BY <1>1, RunAhead
    <2>3. At(index) \in Special /\ Has(index) /\ lexing = "scanning" /\ comment = <<>>
        BY <1>4 DEF CollectOperator, Special
    <2> HIDE DEF end
    <2> QED
        BY <1>1, <1>3, <2>1, <2>2, <2>3 DEF AddToken, AdvanceTo
<1>5. CASE LineComment
    <2> DEFINE end == EndOfRun(index, {i \in DOMAIN text : At(i) = "\n"})
    <2>1. Skip /\ AdvanceTo(end)
        BY <1>5 DEF LineComment
    <2>2. end \in index..(Len(text) + 1)
        BY <1>1, RunAhead
    <2>3. At(index) \in Special /\ Has(index) /\ lexing = "scanning" /\ comment = <<>>
        BY <1>5 DEF LineComment, Two, OperatorChars, Special
    <2> HIDE DEF end
    <2> QED
        BY <1>1, <2>1, <2>2, <2>3 DEF Skip, AdvanceTo
<1>6. CASE StringLiteral
    <2>1. LexError \/ \E stops : \E kind, name : AddToken(kind, name) /\ Has(EndOfRun(index, stops)) /\
                                                 AdvanceTo(EndOfRun(index, stops) + 1)
        BY <1>6 DEF StringLiteral
    <2>2. \A stops : EndOfRun(index, stops) \in index..(Len(text) + 1)
        BY <1>1, RunAhead
    <2>3. At(index) \in Special /\ Has(index) /\ lexing = "scanning" /\ comment = <<>>
        BY <1>6 DEF StringLiteral, Special
    <2>4. CASE LexError
        BY <1>3, <2>3, <2>4
    <2>5. CASE ~LexError
        <3>1. PICK stops : \E kind, name : AddToken(kind, name) /\ Has(EndOfRun(index, stops)) /\
                                           AdvanceTo(EndOfRun(index, stops) + 1)
            BY <2>1, <2>5
        <3> DEFINE end == EndOfRun(index, stops)
        <3>2. end \in index..(Len(text) + 1) /\ Has(end)
            BY <2>2, <3>1
        <3>3. index' = end + 1 /\ UNCHANGED <<text, comment, lexing>>
            BY <3>1 DEF AddToken, AdvanceTo
        <3> HIDE DEF end
        <3>4. /\ text' = text /\ index' \in index..(Len(text) + 1)
              /\ comment = <<>> /\ comment' = <<>>
              /\ lexing = "scanning" /\ lexing' = "scanning"
            BY <1>1, <2>3, <3>2, <3>3
        <3> QED
            BY <2>3, <3>4
    <2> QED
        BY <2>4, <2>5
<1>7. CASE Symbol
    <2>1. \E kind, name : AddToken(kind, name)
        BY <1>7 DEF Symbol
    <2>2. index' = index + 1 /\ Has(index) /\ lexing = "scanning" /\ comment = <<>>
        BY <1>7 DEF Symbol, AdvanceTo
    <2> QED
        BY <1>1, <2>1, <2>2 DEF AddToken
<1>8. CASE SkipBlank \/ UnsupportedCharacter
    <2>1. index' = index + 1 /\ Has(index) /\ UNCHANGED <<text, comment, lexing>>
        BY <1>8 DEF SkipBlank, UnsupportedCharacter, AdvanceTo, Skip
    <2>2. lexing = "scanning" /\ comment = <<>>
        BY <1>8 DEF SkipBlank, UnsupportedCharacter
    <2> QED
        BY <1>1, <2>1, <2>2
<1>9. CASE EndOfText
    BY <1>1, <1>9 DEF EndOfText
<1> QED
    BY <1>2, <1>4, <1>5, <1>6, <1>7, <1>8, <1>9 DEF Scan

\* A sequence of frames and what is known of one of them.
LEMMA FrameParts ==
    ASSUME NEW P, NEW frames \in Open(P)
    PROVE  /\ Len(frames) \in Nat /\ frames = <<>> <=> Len(frames) = 0
           /\ \A k \in 1..Len(frames) : frames[k] \in [end : Signs, prev : P] /\ frames[k].end \in Signs
<1> DEFINE Frame == [end : Signs, prev : P]
<1>1. frames \in Seq(Frame) /\ \A f \in Frame : f.end \in Signs
    BY DEF Open
<1> HIDE DEF Frame
<1>2. Len(frames) \in Nat /\ \A k \in 1..Len(frames) : frames[k] \in Frame
    BY <1>1, LenProperties, ElementOfSeq
<1>3. frames = <<>> <=> Len(frames) = 0
    BY <1>1, EmptySeq
<1> QED
    BY <1>1, <1>2, <1>3 DEF Frame

LEMMA ReadFirstReads ==
    ASSUME NEW P, NEW frames \in Open(P), frames # <<>>,
           NEW i \in Nat, ReadFirst(i, frames)
    PROVE  \/ LexError
           \/ /\ Has(i) /\ index' = i + 1 /\ text' = text /\ lexing' = lexing
              /\ Len(comment') = Len(frames) /\ comment' # <<>>
              /\ \E R : comment' \in Open(R)
              /\ \A k \in 1..Len(frames) : comment'[k].end = frames[k].end
              /\ comment'[Len(frames)].prev = At(i)
<1> SUFFICES ASSUME ~LexError
             PROVE  /\ Has(i) /\ index' = i + 1 /\ text' = text /\ lexing' = lexing
                    /\ Len(comment') = Len(frames) /\ comment' # <<>>
                    /\ \E R : comment' \in Open(R)
                    /\ \A k \in 1..Len(frames) : comment'[k].end = frames[k].end
                    /\ comment'[Len(frames)].prev = At(i)
    OBVIOUS
<1> DEFINE n == Len(frames)
           R == P \cup {At(i)}
           Frame == [end : Signs, prev : R]
           last == [frames[n] EXCEPT !.prev = At(i)]
<1>1. /\ Has(i) /\ index' = i + 1 /\ text' = text /\ lexing' = lexing
      /\ comment' = [frames EXCEPT ![n] = last]
    BY DEF ReadFirst, AdvanceTo
<1>2. n \in 1..n /\ frames[n] \in [end : Signs, prev : P]
    BY FrameParts
<1>3. last \in Frame /\ last.end = frames[n].end /\ last.prev = At(i)
    BY <1>2
<1>4. frames \in Seq(Frame)
    <2>1. [end : Signs, prev : P] \subseteq Frame
        OBVIOUS
    <2> HIDE DEF Frame
    <2> QED
        BY <2>1, SeqMonotonic DEF Open
<1>5. /\ comment' \in Seq(Frame) /\ Len(comment') = n
      /\ \A k \in 1..n : comment'[k] = IF k = n THEN last ELSE frames[k]
    <2> HIDE DEF Frame, last
    <2> QED
        BY <1>1, <1>2, <1>3, <1>4, ExceptSeq
<1>6. comment' # <<>>
    <2> HIDE DEF Frame
    <2> QED
        BY <1>2, <1>5, EmptySeq
<1>7. comment' \in Open(R) /\ \A k \in 1..n : comment'[k].end = frames[k].end
    BY <1>3, <1>5 DEF Open
<1>8. comment'[n].prev = At(i)
    BY <1>2, <1>3, <1>5
<1> QED
    BY <1>1, <1>5, <1>6, <1>7, <1>8

\* The comments around the innermost one, and the ones with one more in it.
LEMMA OuterFrames ==
    ASSUME NEW P, NEW frames \in Open(P), NEW n, n = Len(frames), n > 0
    PROVE  /\ SubSeq(frames, 1, n - 1) \in Open(P)
           /\ Len(SubSeq(frames, 1, n - 1)) = n - 1
           /\ \A k \in 1..(n - 1) : SubSeq(frames, 1, n - 1)[k] = frames[k]
           /\ SubSeq(frames, 1, n - 1) = <<>> <=> n = 1
<1> DEFINE Frame == [end : Signs, prev : P]
           m == n - 1
<1>1. n \in Nat /\ m \in Nat /\ 1 \in Int /\ m \in Int
    BY FrameParts
<1>2. \A k \in 1..m : frames[k] \in Frame
    BY FrameParts
<1> HIDE DEF Frame, m
<1>3. /\ SubSeq(frames, 1, m) \in Seq(Frame)
      /\ Len(SubSeq(frames, 1, m)) = IF 1 <= m THEN m - 1 + 1 ELSE 0
      /\ \A k \in 1..(m - 1 + 1) : SubSeq(frames, 1, m)[k] = frames[1 + k - 1]
    BY <1>1, <1>2, SubSeqProperties
<1>4. Len(SubSeq(frames, 1, m)) = m /\ \A k \in 1..m : SubSeq(frames, 1, m)[k] = frames[k]
    BY <1>1, <1>3
<1>5. SubSeq(frames, 1, m) = <<>> <=> m = 0
    BY <1>3, <1>4, EmptySeq
<1> QED
    BY <1>1, <1>3, <1>4, <1>5 DEF Frame, m, Open

LEMMA InnerFrames ==
    ASSUME NEW P, NEW frames \in Open(P), NEW n, n = Len(frames), NEW sign \in Signs
    PROVE  \E Q : /\ Append(frames, Comment(sign)) \in Open(Q)
                  /\ Append(frames, Comment(sign)) # <<>>
                  /\ Len(Append(frames, Comment(sign))) = n + 1
                  /\ \A k \in 1..n : Append(frames, Comment(sign))[k] = frames[k]
                  /\ Append(frames, Comment(sign))[n + 1].end = sign
<1> DEFINE f == Comment(sign)
           Q == P \cup {f.prev}
           Frame == [end : Signs, prev : Q]
<1>1. f \in Frame /\ f.end = sign
    BY DEF Comment
<1>2. [end : Signs, prev : P] \subseteq Frame
    OBVIOUS
<1> HIDE DEF Frame, f
<1>3. frames \in Seq(Frame)
    BY <1>2, SeqMonotonic DEF Open
<1>4. /\ Append(frames, f) \in Seq(Frame) /\ Append(frames, f) # <<>>
      /\ Len(Append(frames, f)) = n + 1
      /\ \A k \in 1..n : Append(frames, f)[k] = frames[k]
      /\ Append(frames, f)[n + 1] = f
    BY <1>1, <1>3, AppendProperties
<1>5. Append(frames, f) \in Open(Q) /\ Append(frames, f)[n + 1].end = sign
    BY <1>1, <1>4 DEF Frame, Open
<1> QED
    BY <1>4, <1>5 DEF f

\* What a round of process_block_comment can do: end a comment, begin one in it, or
\* read a character.
Turn(two, e) ==
    IF two = e THEN "over"
    ELSE IF two = <<"/", "*">> THEN "stars"
    ELSE IF two = <<"{", "-">> THEN "dashes"
    ELSE "on"

SignOf(turn) == IF turn = "stars" THEN Stars ELSE Dashes

LEMMA Turns ==
    ASSUME NEW two, NEW e
    PROVE  /\ Turn(two, e) \in {"over", "stars", "dashes", "on"}
           /\ Turn(two, e) = "over" <=> two = e
           /\ Turn(two, e) \in {"stars", "dashes"} <=> two # e /\ two \in {<<"/", "*">>, <<"{", "-">>}
           /\ Turn(two, e) \in {"stars", "dashes"} => (Turn(two, e) = "stars" <=> two = <<"/", "*">>)
<1> DEFINE stars == <<"/", "*">>
           dashes == <<"{", "-">>
<1>1. stars # dashes
    OBVIOUS
<1>2. Turn(two, e) = IF two = e THEN "over" ELSE IF two = stars THEN "stars"
                     ELSE IF two = dashes THEN "dashes" ELSE "on"
    BY DEF Turn
<1> HIDE DEF stars, dashes
<1>3. /\ Turn(two, e) \in {"over", "stars", "dashes", "on"}
      /\ Turn(two, e) = "over" <=> two = e
      /\ Turn(two, e) \in {"stars", "dashes"} <=> two # e /\ two \in {stars, dashes}
      /\ Turn(two, e) \in {"stars", "dashes"} => (Turn(two, e) = "stars" <=> two = stars)
    BY <1>1, <1>2
<1> QED
    BY <1>3 DEF stars, dashes

LEMMA EndTurns ==
    ASSUME NEW t, NEW ends, NEW i \in Nat, i + 1 <= Len(t), Len(t) \in Nat, NEW sign,
           NEW turn, turn = Turn(<<t[i].c, t[i + 1].c>>, sign)
    PROVE  EndFrom(t, ends, i, sign) =
               IF turn = "over" THEN i + 2
               ELSE IF turn = "on" THEN ends[<<i + 1, sign>>]
               ELSE IF ends[<<i + 2, SignOf(turn)>>] = 0 THEN 0
               ELSE ends[<<ends[<<i + 2, SignOf(turn)>>], sign>>]
<1> DEFINE two == <<t[i].c, t[i + 1].c>>
           stars == <<"/", "*">>
           dashes == <<"{", "-">>
           after(inner) == LET j == ends[<<i + 2, inner>>] IN IF j = 0 THEN 0 ELSE ends[<<j, sign>>]
<1>1. EndFrom(t, ends, i, sign) =
        IF two = sign THEN i + 2
        ELSE IF two = stars THEN after(Stars)
        ELSE IF two = dashes THEN after(Dashes)
        ELSE ends[<<i + 1, sign>>]
    <2>1. ~(i + 1 > Len(t))
        OBVIOUS
    <2> QED
        BY <2>1, Zenon DEF EndFrom
<1>2. turn = IF two = sign THEN "over" ELSE IF two = stars THEN "stars"
             ELSE IF two = dashes THEN "dashes" ELSE "on"
    BY DEF Turn
<1> HIDE DEF two, stars, dashes
<1> QED
    BY <1>1, <1>2 DEF SignOf

Round(n, turn) ==
    /\ Has(index) /\ text' = text /\ lexing' = lexing /\ Frames' /\ index' <= Len(text) + 1
    /\ \A k \in 1..n : k <= Len(comment') => comment'[k].end = comment[k].end
    /\ \/ turn = "over" /\ n = 1 /\ index' = index + 1 /\ comment' = <<>>
       \/ turn = "over" /\ n > 1 /\ index' = index + 2 /\ Len(comment') = n - 1
       \/ /\ turn \in {"stars", "dashes"} /\ index' = index + 2 /\ Len(comment') = n + 1
          /\ comment'[n + 1].end = SignOf(turn)
       \/ turn = "on" /\ index' = index + 1 /\ Len(comment') = n

LEMMA CommentStepRounds ==
    ASSUME TextInv, Frames, CommentStep,
           NEW n, n = Len(comment), NEW e, e = comment[n].end,
           NEW turn, turn = Turn(<<At(index - 1), At(index)>>, e)
    PROVE  /\ lexing = "scanning" /\ n \in Nat \ {0} /\ e \in Signs
           /\ LexError \/ Round(n, turn)
<1>1. PICK P : comment \in Open(P)
    BY DEF Frames
<1>2. /\ lexing = "scanning" /\ comment # <<>> /\ n \in Nat /\ n > 0 /\ e \in Signs
      /\ comment[n].prev = At(index - 1) /\ index \in Nat /\ index > 1
    BY <1>1, FrameParts, TextParts DEF CommentStep, Frames, TextInv
<1> SUFFICES ASSUME ~LexError
             PROVE  Round(n, turn)
    BY <1>2
<1>3. /\ SubSeq(comment, 1, n - 1) \in Open(P)
       /\ Len(SubSeq(comment, 1, n - 1)) = n - 1
       /\ \A k \in 1..(n - 1) : SubSeq(comment, 1, n - 1)[k] = comment[k]
       /\ SubSeq(comment, 1, n - 1) = <<>> <=> n = 1
    BY <1>1, <1>2, OuterFrames
<1> DEFINE outer == SubSeq(comment, 1, n - 1)
           sign == IF At(index) = "*" THEN Stars ELSE Dashes
           inner == Append(comment, Comment(sign))
<1>4. /\ Has(index)
      /\ turn = "over" /\ n = 1 => text' = text /\ lexing' = lexing /\ index' = index + 1 /\ comment' = <<>>
      /\ turn = "over" /\ n # 1 => ReadFirst(index + 1, outer)
      /\ turn \in {"stars", "dashes"} => ReadFirst(index + 1, inner)
      /\ turn = "on" => ReadFirst(index, comment)
    <2>1. outer = <<>> <=> n = 1
        BY <1>3
    <2>2. turn \in {"stars", "dashes"} <=> turn # "over" /\ NestedStarts(At(index - 1), index)
        BY Turns DEF NestedStarts
    <2>3. turn = "over" <=> <<comment[n].prev, At(index)>> = comment[n].end
        <3>1. turn = "over" <=> <<At(index - 1), At(index)>> = e
            BY Turns
        <3>2. comment[n].prev = At(index - 1) /\ comment[n].end = e
            BY <1>2
        <3> QED
            BY <3>1, <3>2, Zenon
    <2> HIDE DEF outer, inner
    <2>4. Has(index)
        BY DEF CommentStep
    <2>5. CASE turn = "over"
        BY <1>2, <2>1, <2>3, <2>4, <2>5 DEF CommentStep, AdvanceTo, outer
    <2>6. CASE turn # "over"
        BY <1>2, <2>2, <2>3, <2>4, <2>6 DEF CommentStep, inner
    <2> QED
        BY <2>4, <2>5, <2>6
<1> HIDE DEF outer, inner
<1>5. ASSUME NEW Q, NEW frames \in Open(Q), frames # <<>>,
             NEW i \in Nat, i > 0, ReadFirst(i, frames)
      PROVE  /\ Has(i) /\ text' = text /\ lexing' = lexing /\ index' = i + 1 /\ Frames'
             /\ Len(comment') = Len(frames)
             /\ \A k \in 1..Len(frames) : comment'[k].end = frames[k].end
    <2>1. Has(i)
        BY <1>5, ReadFirstReads
    <2>2. /\ index' = i + 1 /\ text' = text /\ lexing' = lexing
          /\ Len(comment') = Len(frames) /\ comment' # <<>>
          /\ \E R : comment' \in Open(R)
          /\ \A k \in 1..Len(frames) : comment'[k].end = frames[k].end
          /\ comment'[Len(frames)].prev = At(i)
        BY <1>5, ReadFirstReads
    <2>3. At(i)' = At(i) /\ index' > 1 /\ index' - 1 = i
        BY <1>5, <2>2 DEF At
    <2> QED
        BY <2>1, <2>2, <2>3 DEF Frames
<1>6. CASE turn = "over" /\ n = 1
    <2>1. text' = text /\ lexing' = lexing /\ index' = index + 1 /\ comment' = <<>>
        BY <1>4, <1>6
    <2>2. Frames' /\ Len(comment') = 0
        <3>1. <<>> \in Open({}) /\ Len(<<>>) = 0
            BY EmptySeq DEF Open
        <3> QED
            BY <2>1, <3>1 DEF Frames
    <2>3. index' <= Len(text) + 1
        BY <1>2, <1>4, <2>1, TextParts DEF Has
    <2> QED
        BY <1>4, <1>6, <2>1, <2>2, <2>3 DEF Round
<1>7. CASE turn = "over" /\ n > 1
    <2>1. ReadFirst(index + 1, outer)
        BY <1>2, <1>4, <1>7
    <2>2. outer \in Open(P) /\ outer # <<>> /\ Len(outer) = n - 1
        BY <1>3, <1>7 DEF outer
    <2>3. /\ text' = text /\ lexing' = lexing /\ index' = index + 1 + 1 /\ Frames' /\ Len(comment') = n - 1
          /\ \A k \in 1..Len(outer) : comment'[k].end = outer[k].end
          /\ Has(index + 1)
        BY <1>2, <1>5, <2>1, <2>2
    <2>4. \A k \in 1..n : k <= n - 1 => comment'[k].end = comment[k].end
        BY <1>2, <1>3, <2>2, <2>3 DEF outer
    <2>5. Has(index) /\ index' = index + 2 /\ index' <= Len(text) + 1
        BY <1>2, <1>4, <2>3, TextParts DEF Has
    <2> HIDE DEF outer
    <2> QED
        BY <1>7, <2>3, <2>4, <2>5 DEF Round
<1>8. CASE turn \in {"stars", "dashes"}
    <2>1. ReadFirst(index + 1, inner)
        BY <1>4, <1>8
    <2>2. sign \in Signs /\ sign = SignOf(turn)
        <3>1. At(index) = "*" <=> turn = "stars"
            BY <1>8, Turns
        <3> QED
            BY <3>1 DEF Signs, SignOf
    <2> HIDE DEF sign
    <2>3. PICK Q : /\ inner \in Open(Q) /\ inner # <<>> /\ Len(inner) = n + 1
                   /\ \A k \in 1..n : inner[k] = comment[k]
                   /\ inner[n + 1].end = sign
        BY <1>1, <2>2, InnerFrames DEF inner
    <2>4. /\ text' = text /\ lexing' = lexing /\ index' = index + 1 + 1 /\ Frames' /\ Len(comment') = n + 1
          /\ \A k \in 1..Len(inner) : comment'[k].end = inner[k].end
          /\ Has(index + 1)
        BY <1>2, <1>5, <2>1, <2>3
    <2>5. /\ \A k \in 1..n : comment'[k].end = comment[k].end
          /\ comment'[n + 1].end = sign
        BY <1>2, <2>3, <2>4
    <2>6. Has(index) /\ index' = index + 2 /\ index' <= Len(text) + 1
        BY <1>2, <1>4, <2>4, TextParts DEF Has
    <2>7. comment'[n + 1].end = SignOf(turn)
        BY <2>2, <2>5
    <2> HIDE DEF inner
    <2> QED
        BY <1>8, <2>4, <2>5, <2>6, <2>7 DEF Round
<1>9. CASE turn = "on"
    <2>1. ReadFirst(index, comment)
        BY <1>4, <1>9
    <2>2. /\ text' = text /\ lexing' = lexing /\ index' = index + 1 /\ Frames' /\ Len(comment') = n
          /\ Has(index)
          /\ \A k \in 1..n : comment'[k].end = comment[k].end
        BY <1>1, <1>2, <1>5, <2>1
    <2>3. index' <= Len(text) + 1
        BY <1>2, <2>2, TextParts DEF Has
    <2> QED
        BY <1>2, <1>4, <1>9, <2>2, <2>3 DEF Round
<1>10. turn \in {"over", "stars", "dashes", "on"}
    BY Turns
<1> QED
    BY <1>2, <1>6, <1>7, <1>8, <1>9, <1>10

\* A round of an open comment, seen from the ends of the comments that are open.
LEMMA RoundEnds ==
    ASSUME TextInv, Frames, Frames', comment # <<>>, NEW ends, FindsFrom(text, ends, 0),
           NEW n, n = Len(comment), NEW e, e = comment[n].end, NEW turn,
           turn = Turn(<<At(index - 1), At(index)>>, e), Round(n, turn), NEW c, EndsAt(c, ends)
    PROVE  \/ comment' = <<>> /\ index' = c[1]
           \/ comment' # <<>> /\ \E d : EndsAt(d, ends)' /\ d[1] = c[1]
<1>1. /\ n \in Nat /\ n > 0 /\ index \in Nat /\ index > 1 /\ Len(text) \in Nat
      /\ \A k \in 1..n : comment[k].end \in Signs
    BY FrameParts, TextParts DEF Frames, TextInv
<1>2. /\ Has(index) /\ text' = text
      /\ \A k \in 1..n : k <= Len(comment') => comment'[k].end = comment[k].end
    BY DEF Round
<1>3. /\ Len(comment') \in Nat /\ comment' = <<>> <=> Len(comment') = 0
    BY FrameParts DEF Frames
<1>4. /\ c \in [1..n -> Nat] /\ c[n] = ends[<<index - 1, e>>]
      /\ \A k \in 1..(n - 1) : c[k] = IF c[k + 1] = 0 THEN 0 ELSE ends[<<c[k + 1], comment[k].end>>]
      /\ \A j, k \in 1..n : j < k => c[j] = 0 \/ (c[k] # 0 /\ c[j] > c[k])
    BY DEF EndsAt
<1>5. c[n] = IF turn = "over" THEN index + 1
             ELSE IF turn = "on" THEN ends[<<index, e>>]
             ELSE IF ends[<<index + 1, SignOf(turn)>>] = 0 THEN 0
             ELSE ends[<<ends[<<index + 1, SignOf(turn)>>], e>>]
    <2> DEFINE i == index - 1
    <2>1. i \in Nat /\ e \in Signs /\ i + 1 = index /\ i + 2 = index + 1 /\ i + 1 <= Len(text)
        BY <1>1, <1>2 DEF Has
    <2>2. c[n] = ends[<<i, e>>] /\ turn = Turn(<<text[i].c, text[index].c>>, e)
        BY <1>4 DEF At
    <2> HIDE DEF i
    <2>3. turn = Turn(<<text[i].c, text[i + 1].c>>, e)
        BY <2>1, <2>2
    <2>4. ends[<<i, e>>] = EndFrom(text, ends, i, e)
        BY <2>1 DEF FindsFrom
    <2>5. EndFrom(text, ends, i, e) =
               IF turn = "over" THEN i + 2
               ELSE IF turn = "on" THEN ends[<<i + 1, e>>]
               ELSE IF ends[<<i + 2, SignOf(turn)>>] = 0 THEN 0
               ELSE ends[<<ends[<<i + 2, SignOf(turn)>>], e>>]
        BY <1>1, <2>1, <2>3, EndTurns
    <2> QED
        BY <2>1, <2>2, <2>4, <2>5
<1>6. CASE turn = "over" /\ n = 1
    <2>1. index' = index + 1 /\ comment' = <<>>
        BY <1>6 DEF Round
    <2> QED
        BY <1>5, <1>6, <2>1
<1>7. CASE turn = "over" /\ n > 1
    <2> DEFINE m == n - 1
               d == [k \in 1..m |-> c[k]]
    <2>1. index' = index + 2 /\ Len(comment') = m
        BY <1>1, <1>7 DEF Round
    <2>2. m \in Nat /\ m > 0 /\ m + 1 = n /\ comment' # <<>> /\ m \in 1..n /\ index' - 1 = index + 1
        BY <1>1, <1>3, <1>7, <2>1
    <2>3. \A k \in 1..m : comment'[k].end = comment[k].end
        BY <1>2, <2>1, <2>2
    <2> HIDE DEF m
    <2>4. d \in [1..m -> Nat] /\ \A k \in 1..m : d[k] = c[k]
        <3>1. \A k \in 1..m : k \in 1..n
            BY <2>2
        <3>2. \A k \in 1..m : c[k] \in Nat
            BY <1>4, <3>1
        <3> QED
            BY <3>2
    <2> HIDE DEF d
    <2>5. c[m] = ends[<<index + 1, comment[m].end>>]
        BY <1>1, <1>4, <1>5, <1>7, <2>2 DEF m
    <2>6. EndsAt(d, ends)'
        <3>1. d[m] = ends[<<index' - 1, comment'[m].end>>]
            <4>1. m \in 1..m
                BY <2>2
            <4>2. d[m] = c[m] /\ comment'[m].end = comment[m].end
                BY <2>3, <2>4, <4>1
            <4> QED
                BY <2>2, <2>5, <4>2
        <3>2. \A k \in 1..(m - 1) :
                d[k] = IF d[k + 1] = 0 THEN 0 ELSE ends[<<d[k + 1], comment'[k].end>>]
            BY <1>4, <2>2, <2>3, <2>4
        <3>3. \A j, k \in 1..m : j < k => d[j] = 0 \/ (d[k] # 0 /\ d[j] > d[k])
            BY <1>4, <2>2, <2>4
        <3> QED
            BY <2>1, <2>4, <3>1, <3>2, <3>3 DEF EndsAt
    <2> QED
        BY <2>2, <2>4, <2>6
<1>8. CASE turn \in {"stars", "dashes"}
    <2> DEFINE m == n + 1
               sign == SignOf(turn)
    <2> PICK j0 : j0 = ends[<<index + 1, sign>>]
        OBVIOUS
    <2> DEFINE d == [k \in 1..m |-> IF k = m THEN j0 ELSE c[k]]
    <2>1. index' = index + 2 /\ Len(comment') = m /\ comment'[m].end = sign
        BY <1>1, <1>8 DEF Round
    <2>2. m \in Nat /\ m > 0 /\ comment' # <<>> /\ index' - 1 = index + 1 /\ m - 1 = n
        BY <1>1, <1>3, <2>1
    <2>3. sign \in Signs
        BY DEF Signs, SignOf
    <2>4. \A k \in 1..n : comment'[k].end = comment[k].end
        BY <1>1, <1>2, <2>1
    <2> HIDE DEF sign
    <2>5. j0 \in Nat /\ c[n] = IF j0 = 0 THEN 0 ELSE ends[<<j0, e>>]
        <3>1. c[n] = IF j0 = 0 THEN 0 ELSE ends[<<j0, e>>]
            BY <1>5, <1>8 DEF sign
        <3> QED
            BY <1>1, <2>3, <3>1 DEF FindsFrom, InBound
    <2>6. c[n] = 0 \/ (j0 # 0 /\ c[n] > j0)
        BY <1>1, <2>5 DEF FindsFrom, InBound
    <2> HIDE DEF m
    <2>7. /\ d \in [1..m -> Nat] /\ d[m] = j0
          /\ \A k \in 1..n : d[k] = c[k]
        BY <1>4, <2>2, <2>5
    <2> HIDE DEF d
    <2>8. EndsAt(d, ends)'
        <3>1. d[m] = ends[<<index' - 1, comment'[m].end>>]
            BY <2>1, <2>2, <2>7
        <3>2. \A k \in 1..(m - 1) :
                d[k] = IF d[k + 1] = 0 THEN 0 ELSE ends[<<d[k + 1], comment'[k].end>>]
            <4> SUFFICES ASSUME NEW k \in 1..n
                         PROVE  d[k] = IF d[k + 1] = 0 THEN 0 ELSE ends[<<d[k + 1], comment'[k].end>>]
                BY <2>2
            <4>1. CASE k = n
                <5>1. k + 1 = m
                    BY <2>2, <4>1
                <5>2. d[k] = c[n] /\ d[k + 1] = j0 /\ comment'[k].end = e
                    BY <2>4, <2>7, <4>1, <5>1
                <5>3. ends[<<d[k + 1], comment'[k].end>>] = ends[<<j0, e>>]
                    BY <5>2
                <5> QED
                    BY <2>5, <5>2, <5>3
            <4>2. CASE k # n
                <5>1. k \in 1..(n - 1) /\ k + 1 \in 1..n
                    BY <1>1, <4>2
                <5>2. d[k] = c[k] /\ d[k + 1] = c[k + 1] /\ comment'[k].end = comment[k].end
                    BY <2>4, <2>7, <5>1
                <5> QED
                    BY <1>4, <5>1, <5>2
            <4> QED
                BY <4>1, <4>2
        <3>3. \A j, k \in 1..m : j < k => d[j] = 0 \/ (d[k] # 0 /\ d[j] > d[k])
            <4> SUFFICES ASSUME NEW j \in 1..m, NEW k \in 1..m, j < k
                         PROVE  d[j] = 0 \/ (d[k] # 0 /\ d[j] > d[k])
                OBVIOUS
            <4>1. j \in 1..n /\ (k \in 1..n \/ k = m) /\ n \in 1..n
                BY <1>1, <2>2
            <4>2. d[j] = c[j] /\ c[j] \in Nat /\ c[n] \in Nat
                BY <1>4, <2>7, <4>1
            <4>3. CASE k = m
                BY <1>4, <2>5, <2>6, <2>7, <4>1, <4>2, <4>3
            <4>4. CASE k \in 1..n
                BY <1>4, <2>7, <4>1, <4>2, <4>4
            <4> QED
                BY <4>1, <4>3, <4>4
        <3> QED
            BY <2>1, <2>7, <3>1, <3>2, <3>3 DEF EndsAt
    <2>9. d[1] = c[1]
        <3>1. 1 \in 1..n
            BY <1>1
        <3> QED
            BY <2>7, <3>1
    <2> QED
        BY <2>2, <2>8, <2>9
<1>9. CASE turn = "on"
    <2>1. index' = index + 1 /\ Len(comment') = n
        BY <1>1, <1>9 DEF Round
    <2>2. comment' # <<>> /\ index' - 1 = index /\ c[n] = ends[<<index, e>>]
        BY <1>1, <1>3, <1>5, <1>9, <2>1
    <2>3. \A k \in 1..n : comment'[k].end = comment[k].end
        BY <1>2, <2>1, <1>1
    <2>4. EndsAt(c, ends)'
        <3>1. c[n] = ends[<<index' - 1, comment'[n].end>>]
            <4>1. comment'[n].end = e
                BY <1>1, <2>3
            <4> QED
                BY <2>2, <4>1
        <3>2. \A k \in 1..(n - 1) :
                c[k] = IF c[k + 1] = 0 THEN 0 ELSE ends[<<c[k + 1], comment'[k].end>>]
            BY <1>1, <1>4, <2>3
        <3> QED
            BY <1>4, <2>1, <3>1, <3>2 DEF EndsAt
    <2> QED
        BY <2>2, <2>4
<1>10. turn \in {"over", "stars", "dashes", "on"}
    BY Turns
<1> QED
    BY <1>1, <1>6, <1>7, <1>8, <1>9, <1>10

\* Where a comment begins, nothing else is scanned.
LEMMA CommentBegins ==
    ASSUME TextInv, Scan, Two(index, "/", "*"), comment = <<>>
    PROVE  StartBlockComment
<1> USE DEF Two, Scanning
<1>1. ~CollectIdentifier /\ ~CollectOperator
    BY DEF CollectIdentifier, CollectOperator, CommentStarts
<1>2. ~LineComment /\ ~CommentStep
    BY DEF LineComment, CommentStep
<1>3. ~Symbol /\ ~SkipBlank /\ ~UnsupportedCharacter
    BY DEF Symbol, SkipBlank, UnsupportedCharacter, Punctuation, Blanks
<1>4. ~EndOfText
    BY TextParts DEF EndOfText, Has, TextInv
<1>5. ~StringLiteral
    <2> DEFINE quote == "\""
    <2>1. "/" # quote
        OBVIOUS
    <2>2. StringLiteral => At(index) = quote
        BY DEF StringLiteral
    <2> HIDE DEF quote
    <2> QED
        BY <2>1, <2>2
<1> QED
    BY <1>1, <1>2, <1>3, <1>4, <1>5 DEF Scan

\* Every step of the scanner brings the first comment to where it ends.
LEMMA ScanComment ==
    ASSUME TextInv, Frames, Frames', Scan, NEW ends, FindsFrom(text, ends, 0),
           NEW i \in DOMAIN text, FirstComment(i), CommentAt(i, ends)
    PROVE  CommentAt(i, ends)'
<1> DEFINE end == ends[<<i + 2, Stars>>]
<1>1. /\ index \in Nat /\ index > 0 /\ Len(text) \in Nat /\ i \in 1..Len(text) /\ i \in Nat
    BY TextParts DEF TextInv
<1>2. end \in Nat
    <2>1. Stars \in Signs /\ i + 2 \in Nat /\ i + 2 >= 0
        BY <1>1 DEF Signs
    <2> QED
        BY <2>1 DEF FindsFrom, InBound
<1> HIDE DEF end
<1>3. \/ lexing = "scanning" /\ comment = <<>> /\ index <= i
      \/ /\ lexing = "scanning" /\ comment # <<>> /\ index > i
         /\ \E c : EndsAt(c, ends) /\ c[1] = end
      \/ lexing = "failed"
      \/ end # 0 /\ index >= end /\ (index = end => comment = <<>>)
    BY DEF CommentAt, end
<1>4. /\ lexing' = "scanning" /\ comment' = <<>> /\ index' <= i => CommentAt(i, ends)'
      /\ lexing' = "scanning" /\ comment' # <<>> /\ index' > i =>
            \A c : EndsAt(c, ends)' /\ c[1] = end => CommentAt(i, ends)'
      /\ lexing' = "failed" => CommentAt(i, ends)'
      /\ end # 0 /\ index' >= end /\ (index' = end => comment' = <<>>) => CommentAt(i, ends)'
    BY DEF CommentAt, end
<1>5. CASE ~StartBlockComment /\ ~CommentStep
    <2>1. /\ index' \in index..(Len(text) + 1) /\ comment = <<>> /\ comment' = <<>> /\ lexing = "scanning"
          /\ lexing' \in {"scanning", "layout", "failed"}
          /\ lexing' = "layout" => ~Has(index)
          /\ lexing' = "scanning" /\ At(index) \notin Special => index' = index + 1
        BY <1>5, OutsideComments
    <2>2. CASE index < i
        <3>1. Has(index) /\ index \in 1..(i - 1)
            BY <1>1, <2>2 DEF Has
        <3>2. At(index) \notin Special
            BY <3>1, Zenon DEF FirstComment, Special
        <3> QED
            BY <1>1, <1>4, <2>1, <2>2, <3>1, <3>2
    <2>3. CASE index = i
        BY <1>5, <2>1, <2>3, CommentBegins DEF FirstComment
    <2>4. CASE index > i
        BY <1>1, <1>2, <1>3, <1>4, <2>1, <2>4
    <2> QED
        BY <1>1, <2>2, <2>3, <2>4
<1>6. CASE StartBlockComment
    <2> DEFINE frames == <<Comment(Stars)>>
    <2>1. /\ lexing = "scanning" /\ comment = <<>> /\ Two(index, "/", "*") /\ ReadFirst(index + 2, frames)
        BY <1>6 DEF StartBlockComment, Scanning
    <2>2. frames \in Open({Comment(Stars).prev}) /\ Len(frames) = 1 /\ frames # <<>> /\ frames[1].end = Stars
        <3> DEFINE f == Comment(Stars)
        <3>1. f \in [end : Signs, prev : {f.prev}] /\ f.end = Stars
            BY DEF Comment, Signs
        <3> HIDE DEF f
        <3>2. frames = <<f>>
            BY DEF f
        <3> HIDE DEF frames
        <3>3. frames \in Open({f.prev}) /\ Len(frames) = 1 /\ frames # <<>> /\ frames[1].end = Stars
            BY <3>1, <3>2 DEF Open
        <3> QED
            BY <3>3 DEF f
    <2> HIDE DEF frames
    <2>3. \/ lexing' = "failed"
          \/ /\ index' = index + 3 /\ lexing' = "scanning" /\ comment' # <<>> /\ Len(comment') = 1
             /\ comment'[1].end = Stars
        <3>1. \/ LexError
              \/ /\ index' = index + 2 + 1 /\ lexing' = lexing
                 /\ Len(comment') = Len(frames) /\ comment' # <<>>
                 /\ \A k \in 1..Len(frames) : comment'[k].end = frames[k].end
            BY <1>1, <2>1, <2>2, ReadFirstReads
        <3>2. CASE LexError
            BY <3>2 DEF LexError
        <3>3. CASE ~LexError
            BY <1>1, <2>1, <2>2, <3>1, <3>3
        <3> QED
            BY <3>2, <3>3
    <2>4. CASE lexing' = "failed"
        BY <1>4, <2>4
    <2>5. CASE index >= i /\ lexing' # "failed" /\ index # i
        BY <1>1, <1>2, <1>3, <1>4, <2>1, <2>3, <2>5
    <2>6. CASE index = i /\ lexing' # "failed"
        <3> DEFINE c == [k \in 1..1 |-> end]
        <3>1. c \in [1..1 -> Nat] /\ c[1] = end
            BY <1>2
        <3> HIDE DEF c
        <3>2. index' - 1 = i + 2 /\ Len(comment') = 1 /\ comment'[1].end = Stars
            BY <1>1, <2>3, <2>6
        <3>3. EndsAt(c, ends)'
            <4>1. c[1] = ends[<<index' - 1, comment'[1].end>>]
                BY <3>1, <3>2 DEF end
            <4> QED
                BY <3>1, <3>2, <4>1 DEF EndsAt
        <3> QED
            BY <1>1, <1>4, <2>3, <2>6, <3>1, <3>3
    <2>7. CASE index < i
        <3>1. At(index) \in OperatorChars /\ index \in 1..(i - 1)
            BY <1>1, <2>1, <2>7 DEF Two, OperatorChars
        <3> QED
            BY <3>1 DEF FirstComment
    <2> QED
        BY <1>1, <2>4, <2>5, <2>6, <2>7
<1>7. CASE CommentStep
    <2> PICK n, e, turn : /\ n = Len(comment) /\ e = comment[n].end
                          /\ turn = Turn(<<At(index - 1), At(index)>>, e)
        OBVIOUS
    <2>1. /\ lexing = "scanning" /\ n \in Nat /\ n > 0
          /\ LexError \/ Round(n, turn)
        BY <1>7, CommentStepRounds
    <2>2. comment # <<>>
        BY <1>7 DEF CommentStep
    <2>3. CASE LexError
        BY <1>4, <2>3 DEF LexError
    <2>4. CASE Round(n, turn)
        <3>1. index' \in Nat /\ index' > index /\ lexing' = "scanning"
            BY <1>1, <2>1, <2>4 DEF Round
        <3>2. CASE end # 0 /\ index >= end
            BY <1>1, <1>2, <1>4, <3>1, <3>2
        <3>3. CASE ~(end # 0 /\ index >= end)
            <4>1. index > i
                BY <1>3, <2>1, <2>2, <3>3
            <4>2. PICK c : EndsAt(c, ends) /\ c[1] = end
                BY <1>3, <2>1, <2>2, <3>3
            <4>3. \/ comment' = <<>> /\ index' = c[1]
                  \/ comment' # <<>> /\ \E d : EndsAt(d, ends)' /\ d[1] = c[1]
                BY <2>2, <2>4, <4>2, RoundEnds
            <4>4. CASE comment' = <<>>
                BY <1>1, <1>4, <3>1, <4>2, <4>3, <4>4
            <4>5. CASE comment' # <<>>
                BY <1>1, <1>4, <3>1, <4>1, <4>2, <4>3, <4>5
            <4> QED
                BY <4>4, <4>5
        <3> QED
            BY <3>2, <3>3
    <2> QED
        BY <2>1, <2>3, <2>4
<1> QED
    BY <1>5, <1>6, <1>7

LEMMA LexInitComment == LexInit => CommentInv
<1> SUFFICES ASSUME LexInit
             PROVE  CommentInv
    OBVIOUS
<1>1. text \in Seq(Piece) /\ index = 1 /\ comment = <<>> /\ lexing = "scanning"
    BY TextsAssumption DEF LexInit
<1>2. Len(text) \in Nat /\ DOMAIN text = 1..Len(text)
    BY <1>1, LenProperties
<1>3. TextInv /\ Frames
    <2>1. <<>> \in Open({})
        BY EmptySeq DEF Open
    <2> QED
        BY <1>1, <1>2, <2>1 DEF TextInv, Frames
<1>4. \A i \in DOMAIN text : CommentAt(i, CommentEnds(text))
    BY <1>1, <1>2 DEF CommentAt
<1> QED
    BY <1>3, <1>4 DEF CommentInv

\* Scanning goes on in the text, and knows the last character of a comment.
LEMMA ScanFrames ==
    ASSUME TextInv, Frames, Scan
    PROVE  text' = text /\ TextInv' /\ Frames'
<1>1. Len(text) \in Nat /\ index \in Nat /\ index >= 1 /\ index <= Len(text) + 1
    BY TextParts DEF TextInv
<1>2. ASSUME text' = text, index' \in 1..(Len(text) + 1)
      PROVE  TextInv'
    BY <1>2 DEF TextInv
<1>3. ASSUME LexError
      PROVE  text' = text /\ TextInv' /\ Frames'
    BY <1>3 DEF LexError, scanVars, TextInv, Frames, At
<1>4. CASE ~StartBlockComment /\ ~CommentStep
    <2>1. text' = text /\ index' \in index..(Len(text) + 1) /\ comment' = <<>>
        BY <1>4, OutsideComments
    <2>2. <<>> \in Open({})
        BY EmptySeq DEF Open
    <2>3. Frames'
        BY <2>1, <2>2 DEF Frames
    <2> QED
        BY <1>1, <1>2, <2>1, <2>3
<1>5. CASE StartBlockComment
    <2> DEFINE f == Comment(Stars)
               frames == <<f>>
    <2>1. ReadFirst(index + 2, frames)
        BY <1>5 DEF StartBlockComment
    <2>2. f \in [end : Signs, prev : {f.prev}]
        BY DEF Comment, Signs
    <2> HIDE DEF f
    <2>3. frames \in Open({f.prev}) /\ frames # <<>>
        BY <2>2 DEF Open
    <2> HIDE DEF frames
    <2>4. \/ LexError
          \/ /\ Has(index + 2) /\ index' = index + 2 + 1 /\ text' = text
             /\ comment' # <<>> /\ Len(comment') = Len(frames)
             /\ \E R : comment' \in Open(R)
             /\ comment'[Len(frames)].prev = At(index + 2)
        BY <1>1, <2>1, <2>3, ReadFirstReads
    <2>5. CASE ~LexError
        <3>1. index' - 1 = index + 2 /\ index' > 1 /\ index' \in 1..(Len(text) + 1)
            BY <1>1, <2>4, <2>5 DEF Has
        <3>2. comment'[Len(comment')].prev = text'[index' - 1].c
            BY <2>4, <2>5, <3>1 DEF At
        <3> QED
            BY <1>2, <2>4, <2>5, <3>1, <3>2 DEF Frames, At
    <2> QED
        BY <1>3, <2>5
<1>6. CASE CommentStep
    <2> PICK n, turn : n = Len(comment) /\ turn = Turn(<<At(index - 1), At(index)>>, comment[n].end)
        OBVIOUS
    <2>1. LexError \/ Round(n, turn)
        BY <1>6, CommentStepRounds
    <2>2. CASE Round(n, turn)
        <3>1. text' = text /\ index' <= Len(text) + 1 /\ Frames' /\ (index' = index + 1 \/ index' = index + 2)
            BY <2>2 DEF Round
        <3> QED
            BY <1>1, <1>2, <3>1
    <2> QED
        BY <1>3, <2>1, <2>2
<1> QED
    BY <1>4, <1>5, <1>6

LEMMA NextComment ==
    ASSUME CommentInv, [LexNext]_lexVars
    PROVE  CommentInv'
<1>1. TextInv /\ Frames
    BY DEF CommentInv
<1>2. text' = text /\ TextInv' /\ Frames'
    <2>1. CASE Scan
        BY <1>1, <2>1, ScanFrames
    <2>2. CASE ~Scan
        <3>1. UNCHANGED <<text, index, comment>>
            BY <2>2 DEF LexNext, lexVars, scanVars, layoutVars, LexError, MergeNumbers, Layout, StartModule,
                        EndProgram, NextItem, EndBlock, TakeToken, OpenBlock
        <3> QED
            BY <1>1, <3>1 DEF TextInv, Frames, At
    <2> QED
        BY <2>1, <2>2
<1> SUFFICES ASSUME NEW i \in DOMAIN text, FirstComment(i), NEW ends, ends = CommentEnds(text),
                    CommentAt(i, ends)
             PROVE  CommentAt(i, ends)'
    <2>1. CommentEnds(text)' = CommentEnds(text)
        <3>1. text' = text
            BY <1>2
        <3> QED
            BY ONLY <3>1, ZenonT(60) DEF CommentEnds, EndFrom
    <2>2. \A i \in DOMAIN text : FirstComment(i)' => FirstComment(i)
        BY <1>2 DEF FirstComment, Two, Has, At
    <2> QED
        BY <1>2, <2>1, <2>2 DEF CommentInv
<1>3. CASE Scan
    <2>1. FindsFrom(text, ends, 0)
        BY <1>1, CommentEndsFind, TextParts
    <2> QED
        BY <1>1, <1>2, <1>3, <2>1, ScanComment
<1>4. CASE Layout \/ MergeNumbers
    <2>1. /\ UNCHANGED <<index, comment>> /\ lexing \in {"layout", "merging"}
        BY <1>4 DEF scanVars, layoutVars, LexError, MergeNumbers, Layout, LayOut, InBlock, StartModule,
                    EndProgram, NextItem, EndBlock, TakeToken, OpenBlock
    <2> QED
        BY <2>1 DEF CommentAt
<1>5. CASE UNCHANGED lexVars
    BY <1>2, <1>5 DEF CommentAt, EndsAt, lexVars, scanVars
<1> QED
    BY <1>3, <1>4, <1>5 DEF LexNext

\* A comment that is open ends further on, if it does.
LEMMA CommentInvSkips == CommentInv => CommentsSkipped
<1> SUFFICES ASSUME CommentInv, NEW i \in DOMAIN text, FirstComment(i),
                    NEW ends, ends = CommentEnds(text), NEW end, end = ends[<<i + 2, Stars>>]
             PROVE  /\ lexing = "scanning" /\ index > i /\ (end = 0 \/ index <= end) =>
                            (comment # <<>>) = (index # end)
                    /\ end = 0 => lexing \in {"scanning", "failed"}
    BY DEF CommentsSkipped
<1>1. TextInv /\ Frames /\ CommentAt(i, ends)
    BY DEF CommentInv
<1>2. index \in Nat /\ index > 0 /\ Len(text) \in Nat /\ i \in Nat
    BY <1>1, TextParts DEF TextInv
<1>3. FindsFrom(text, ends, 0)
    BY <1>2, CommentEndsFind
<1>4. end \in Nat
    <2>1. Stars \in Signs /\ i + 2 \in Nat /\ i + 2 >= 0
        BY <1>2 DEF Signs
    <2> QED
        BY <1>3, <2>1 DEF FindsFrom, InBound
<1>5. \/ lexing = "scanning" /\ comment = <<>> /\ index <= i
      \/ /\ lexing = "scanning" /\ comment # <<>> /\ index > i
         /\ \E c : EndsAt(c, ends) /\ c[1] = end
      \/ lexing = "failed"
      \/ end # 0 /\ index >= end /\ (index = end => comment = <<>>)
    BY <1>1 DEF CommentAt
<1>6. ASSUME comment # <<>>, NEW c, EndsAt(c, ends), c[1] = end
      PROVE  end = 0 \/ end > index
    <2> PICK n : n = Len(comment)
        OBVIOUS
    <2>1. n \in Nat /\ n > 0 /\ comment[n].end \in Signs /\ index > 1
        BY <1>1, <1>6, FrameParts DEF Frames
    <2>2. /\ c \in [1..n -> Nat] /\ c[n] = ends[<<index - 1, comment[n].end>>]
          /\ \A j, k \in 1..n : j < k => c[j] = 0 \/ (c[k] # 0 /\ c[j] > c[k])
        BY <1>6 DEF EndsAt
    <2>3. c[n] = 0 \/ c[n] > index
        <3> DEFINE p == index - 1
        <3>1. p \in Nat /\ p >= 0 /\ p + 2 > index
            BY <1>2, <2>1
        <3>2. c[n] = ends[<<p, comment[n].end>>]
            BY <2>2
        <3> HIDE DEF p
        <3>3. InBound(p, c[n])
            BY <1>3, <2>1, <3>1, <3>2 DEF FindsFrom
        <3> QED
            BY <1>2, <3>1, <3>3 DEF InBound
    <2>4. 1 \in 1..n /\ n \in 1..n /\ (n = 1 \/ 1 < n)
        BY <2>1
    <2> QED
        BY <1>2, <1>6, <2>2, <2>3, <2>4
<1>7. CASE lexing = "scanning" /\ comment # <<>>
    BY <1>2, <1>4, <1>5, <1>6, <1>7
<1> QED
    BY <1>2, <1>4, <1>5, <1>7

\* Comments are skipped: the first comment of a text is over exactly where
\* CommentEnds says, with whatever comments are nested in it, and a text whose
\* first comment has no end is not scanned to its end.
THEOREM CommentsAlwaysSkipped == LexSpec => []CommentsSkipped
<1>1. LexInit => CommentInv
    BY LexInitComment
<1>2. CommentInv /\ [LexNext]_lexVars => CommentInv'
    BY NextComment
<1>3. CommentInv => CommentsSkipped
    BY CommentInvSkips
<1> QED
    BY <1>1, <1>2, <1>3, PTL DEF LexSpec

-----------------------------------------------------------------------------
(* Columns are numbers. *)

ColumnStep(t, a, c, f, j) == IF j = a THEN c ELSE Advance(f[j - 1], t[j - 1])

Columns(t, a, i, c) == CHOOSE f : f = [j \in a..i |-> ColumnStep(t, a, c, f, j)]

\* A column that is found piece by piece is a number.
LEMMA ColumnsFound ==
    ASSUME NEW t, NEW a \in Nat, NEW i \in Nat, a <= i, NEW c \in Nat,
           \A j \in a..(i - 1) : t[j].w \in Nat,
           NEW g, g = Columns(t, a, i, c)
    PROVE  g[i] \in Nat
<1> DEFINE Fs == [a..i -> Nat]
           Found == {m \in Nat : \E f \in Fs : \A j \in a..i : j <= a + m => f[j] = ColumnStep(t, a, c, f, j)}
           Number == {m \in Nat : a + m <= i => g[a + m] \in Nat}
<1>1. ASSUME NEW j \in a..i, NEW f, j > a => f[j - 1] \in Nat
      PROVE  ColumnStep(t, a, c, f, j) \in Nat
    <2>1. CASE j = a
        BY <2>1 DEF ColumnStep
    <2>2. CASE j # a
        <3>1. j - 1 \in a..(i - 1) /\ f[j - 1] \in Nat /\ t[j - 1].w \in Nat
            BY <1>1, <2>2
        <3> QED
            BY <2>2, <3>1 DEF ColumnStep, Advance
    <2> QED
        BY <2>1, <2>2
<1>2. ASSUME NEW f, NEW h, NEW j \in a..i, j > a => f[j - 1] = h[j - 1]
      PROVE  ColumnStep(t, a, c, f, j) = ColumnStep(t, a, c, h, j)
    BY <1>2 DEF ColumnStep
<1>3. 0 \in Found
    <2> DEFINE f == [j \in a..i |-> c]
    <2>1. f \in Fs /\ f[a] = c
        OBVIOUS
    <2> HIDE DEF f
    <2>2. \A j \in a..i : j <= a + 0 => f[j] = ColumnStep(t, a, c, f, j)
        BY <2>1 DEF ColumnStep
    <2> QED
        BY <2>1, <2>2
<1>4. ASSUME NEW m \in Nat, m \in Found
      PROVE  m + 1 \in Found
    <2>1. PICK f \in Fs : \A j \in a..i : j <= a + m => f[j] = ColumnStep(t, a, c, f, j)
        BY <1>4
    <2>2. PICK n \in Nat : n = a + (m + 1)
        OBVIOUS
    <2> DEFINE h == [j \in a..i |-> IF j = n THEN ColumnStep(t, a, c, f, j) ELSE f[j]]
    <2>3. \A j \in a..i : ColumnStep(t, a, c, f, j) \in Nat
        <3> SUFFICES ASSUME NEW j \in a..i
                     PROVE  ColumnStep(t, a, c, f, j) \in Nat
            OBVIOUS
        <3>1. j > a => f[j - 1] \in Nat
            OBVIOUS
        <3> QED
            BY <1>1, <3>1
    <2>4. h \in Fs /\ \A j \in a..i : h[j] = IF j = n THEN ColumnStep(t, a, c, f, j) ELSE f[j]
        BY <2>3
    <2> HIDE DEF h
    <2>5. ASSUME NEW j \in a..i, j <= n
          PROVE  h[j] = ColumnStep(t, a, c, h, j)
        <3>1. ColumnStep(t, a, c, f, j) = ColumnStep(t, a, c, h, j)
            <4>1. j > a => f[j - 1] = h[j - 1]
                BY <2>4, <2>5
            <4> QED
                BY <1>2, <4>1
        <3>2. h[j] = ColumnStep(t, a, c, f, j)
            BY <2>1, <2>2, <2>4, <2>5
        <3> QED
            BY <3>1, <3>2
    <2> QED
        BY <2>2, <2>4, <2>5
<1>5. \E f : f = [j \in a..i |-> ColumnStep(t, a, c, f, j)]
    <2>1. Nat \subseteq Found
        <3> HIDE DEF Found
        <3> QED
            BY <1>3, <1>4, NatSetInduction
    <2>2. PICK m \in Nat : m \in Found /\ a + m = i
        <3>1. i - a \in Nat /\ a + (i - a) = i
            OBVIOUS
        <3> HIDE DEF Found
        <3> QED
            BY <2>1, <3>1
    <2>3. PICK f \in Fs : \A j \in a..i : j <= a + m => f[j] = ColumnStep(t, a, c, f, j)
        BY <2>2
    <2>4. f = [j \in a..i |-> f[j]] /\ \A j \in a..i : f[j] = ColumnStep(t, a, c, f, j)
        BY <2>2, <2>3
    <2>5. f = [j \in a..i |-> ColumnStep(t, a, c, f, j)]
        BY <2>4
    <2> QED
        BY <2>5
<1>6. g = [j \in a..i |-> ColumnStep(t, a, c, g, j)]
    BY <1>5 DEF Columns
<1>7. \A j \in a..i : g[j] = ColumnStep(t, a, c, g, j)
    BY <1>6
<1>8. 0 \in Number
    BY <1>1, <1>7
<1>9. ASSUME NEW m \in Nat, m \in Number
      PROVE  m + 1 \in Number
    <2> SUFFICES ASSUME a + (m + 1) <= i
                 PROVE  g[a + (m + 1)] \in Nat
        OBVIOUS
    <2>1. PICK j \in a..i : j = a + (m + 1)
        OBVIOUS
    <2>2. g[j - 1] \in Nat
        BY <1>9, <2>1
    <2> QED
        BY <1>1, <1>7, <2>1, <2>2
<1>10. Nat \subseteq Number
    <2> HIDE DEF Number
    <2> QED
        BY <1>8, <1>9, NatSetInduction
<1> QED
    <2>1. i - a \in Number
        BY <1>10
    <2> QED
        BY <2>1

ColumnInv ==
    /\ TextInv /\ Frames
    /\ column \in Nat
    /\ \A i \in 1..Len(tokens) : tokens[i].column \in Nat

\* The column after the pieces from one position to another are taken.
LEMMA AdvanceColumn ==
    ASSUME TextInv, column \in Nat, NEW i \in 1..(Len(text) + 1), index <= i, AdvanceTo(i)
    PROVE  column' \in Nat
<1>1. Len(text) \in Nat /\ index \in Nat /\ i \in Nat
    BY TextParts DEF TextInv
<1>2. \A j \in index..(i - 1) : text[j].w \in Nat
    <2>1. \A j \in 1..Len(text) : text[j] \in Piece
        BY ElementOfSeq DEF TextInv
    <2>2. \A j \in index..(i - 1) : text[j] \in Piece
        BY <1>1, <2>1 DEF TextInv
    <2> QED
        BY <2>2 DEF Piece
<1> DEFINE g == Columns(text, index, i, column)
<1>3. column' = g[i]
    BY DEF AdvanceTo, Columns, ColumnStep
<1> HIDE DEF g
<1>4. g[i] \in Nat
    BY <1>1, <1>2, ColumnsFound DEF g
<1> QED
    BY <1>3, <1>4

\* What a step of the scanner does to the column and to the tokens.
LEMMA ScanParts ==
    ASSUME Scan
    PROVE  /\ column' = column \/ AdvanceTo(index')
           /\ tokens' = tokens \/ \E kind, name : AddToken(kind, name)
<1> USE DEF scanVars, layoutVars
<1>1. CASE CollectIdentifier
    BY <1>1 DEF CollectIdentifier, AdvanceTo
<1>2. CASE CollectOperator
    <2>1. LexError \/ \E end : (\E kind, name : AddToken(kind, name)) /\ AdvanceTo(end)
        BY <1>2 DEF CollectOperator
    <2> QED
        BY <2>1 DEF LexError, AdvanceTo
<1>3. CASE LineComment
    <2>1. Skip /\ \E end : AdvanceTo(end)
        BY <1>3 DEF LineComment
    <2> QED
        BY <2>1 DEF Skip, AdvanceTo
<1>4. CASE StartBlockComment \/ CommentStep
    <2>1. \/ LexError
          \/ UNCHANGED tokens /\ \E i : AdvanceTo(i)
        BY <1>4 DEF StartBlockComment, CommentStep, ReadFirst
    <2> QED
        BY <2>1 DEF LexError, AdvanceTo
<1>5. CASE StringLiteral
    <2>1. LexError \/ ((\E kind, name : AddToken(kind, name)) /\ \E end : AdvanceTo(end))
        BY <1>5 DEF StringLiteral
    <2> QED
        BY <2>1 DEF LexError, AdvanceTo
<1>6. CASE Symbol
    BY <1>6 DEF Symbol, AdvanceTo
<1>7. CASE SkipBlank \/ UnsupportedCharacter
    BY <1>7 DEF SkipBlank, UnsupportedCharacter, Skip, AdvanceTo
<1>8. CASE EndOfText
    BY <1>8 DEF EndOfText
<1> QED
    BY <1>1, <1>2, <1>3, <1>4, <1>5, <1>6, <1>7, <1>8 DEF Scan

LEMMA ScanForward ==
    ASSUME TextInv, Frames, Scan
    PROVE  index' \in Nat /\ index <= index'
<1>1. Len(text) \in Nat /\ index \in Nat /\ index >= 1 /\ index <= Len(text) + 1
    BY TextParts DEF TextInv
<1>2. index' \in Nat
    <2>1. TextInv' /\ text' = text
        BY ScanFrames
    <2> QED
        BY <1>1, <2>1 DEF TextInv
<1>3. CASE ~StartBlockComment /\ ~CommentStep
    <2>1. index' \in index..(Len(text) + 1)
        BY <1>3, OutsideComments
    <2> QED
        BY <1>1, <2>1
<1>4. CASE StartBlockComment
    BY <1>1, <1>4 DEF StartBlockComment, ReadFirst, AdvanceTo, LexError, scanVars
<1>5. CASE CommentStep
    <2>1. \/ LexError
          \/ \E i : i \in {index, index + 1} /\ AdvanceTo(i + 1)
          \/ AdvanceTo(index + 1)
        BY <1>5 DEF CommentStep, ReadFirst
    <2> QED
        BY <1>1, <2>1 DEF LexError, AdvanceTo, scanVars
<1> QED
    BY <1>2, <1>3, <1>4, <1>5

LEMMA NextColumn ==
    ASSUME ColumnInv, \E S : tokens \in Seq(S), [LexNext]_lexVars
    PROVE  ColumnInv'
<1>1. CASE Scan
    <2>1. TextInv' /\ Frames' /\ text' = text
        BY <1>1, ScanFrames DEF ColumnInv
    <2>2. column' \in Nat
        <3>1. index' \in 1..(Len(text) + 1) /\ index <= index'
            BY <1>1, <2>1, ScanForward DEF ColumnInv, TextInv
        <3>2. CASE AdvanceTo(index')
            BY <3>1, <3>2, AdvanceColumn DEF ColumnInv
        <3> QED
            BY <1>1, <3>2, ScanParts DEF ColumnInv
    <2>3. CASE \E kind, name : AddToken(kind, name)
        <3>1. PICK kind, name : AddToken(kind, name)
            BY <2>3
        <3> DEFINE token == [kind |-> kind, name |-> name, column |-> column]
        <3>2. tokens' = Append(tokens, token) /\ token.column \in Nat
            BY <3>1 DEF AddToken, ColumnInv
        <3> HIDE DEF token
        <3>3. /\ Len(tokens') = Len(tokens) + 1 /\ Len(tokens) \in Nat
              /\ \A i \in 1..Len(tokens) : tokens'[i] = tokens[i]
              /\ tokens'[Len(tokens) + 1] = token
            BY <3>2, Appended, LenProperties
        <3>4. \A i \in 1..Len(tokens') : tokens'[i].column \in Nat
            BY <3>2, <3>3 DEF ColumnInv
        <3> QED
            BY <2>1, <2>2, <3>4 DEF ColumnInv
    <2>4. CASE tokens' = tokens
        BY <2>1, <2>2, <2>4 DEF ColumnInv
    <2> QED
        BY <1>1, <2>3, <2>4, ScanParts
<1>2. CASE ~Scan
    <2>1. UNCHANGED <<text, index, comment, column, tokens>>
        BY <1>2 DEF LexNext, lexVars, scanVars, layoutVars, LexError, MergeNumbers, Layout, StartModule,
                    EndProgram, NextItem, EndBlock, TakeToken, OpenBlock
    <2> QED
        BY <2>1 DEF ColumnInv, TextInv, Frames, At
<1> QED
    BY <1>1, <1>2

-----------------------------------------------------------------------------
(* Blocks in a result. *)

\* The word that opened the block number k of those that are open after m entries.
OpenersTo(m, k) == {0} \cup {q \in 1..m : Opens(q) /\ DepthBefore(q) = k - 1}
Opener(m, k) == Max(OpenersTo(m, k))
OpenerAt(p) == Opener(p - 1, DepthBefore(p))

\* The tokens of the block of q among the first m entries, those of its current
\* item, and the parentheses that are open in it.
TokensIn(q, m) == {r \in (q + 1)..m : KeptAt(r) /\ OpenerAt(r) = q}
Begins(p) == TokensIn(OpenerAt(p), p - 1) = {} \/ ColumnAt(p) = BlockColumn(OpenerAt(p))
ItemIn(q, m) == {r \in TokensIn(q, m) : \A b \in TokensIn(q, m) : Begins(b) => b <= r}
CountIn(q, m, kind) == Cardinality({r \in ItemIn(q, m) : result[r].kind = kind})
ParensIn(q, m) == CountIn(q, m, "(") - CountIn(q, m, ")")

LEMMA OpensOrCloses ==
    ASSUME NEW p
    PROVE  ~(Opens(p) /\ Closes(p)) /\ (Opens(p) => KeptAt(p)) /\ (Closes(p) => ~KeptAt(p))
BY DEF Opens, Closes, KeptAt, Openers, Ends, ItemEnd, BlockEnd, ModuleEnd

\* One entry more is counted or not.
LEMMA CountStep ==
    ASSUME NEW P, NEW m \in Nat
    PROVE  /\ IsFiniteSet(P \cap (1..m)) /\ Cardinality(P \cap (1..m)) \in Nat
           /\ Cardinality(P \cap (1..(m + 1))) = Cardinality(P \cap (1..m)) + IF m + 1 \in P THEN 1 ELSE 0
<1>1. IsFiniteSet(P \cap (1..m))
    <2>1. IsFiniteSet(1..m)
        BY FS_Interval
    <2> QED
        BY <2>1, FS_Subset
<1>2. Cardinality(P \cap (1..m)) \in Nat
    BY <1>1, FS_CardinalityType
<1>3. CASE m + 1 \in P
    <2>1. P \cap (1..(m + 1)) = (P \cap (1..m)) \cup {m + 1}
        BY <1>3
    <2>2. m + 1 \notin P \cap (1..m)
        OBVIOUS
    <2> QED
        BY <1>1, <1>2, <1>3, <2>1, <2>2, FS_AddElement
<1>4. CASE m + 1 \notin P
    <2>1. P \cap (1..(m + 1)) = P \cap (1..m)
        BY <1>4
    <2> QED
        BY <1>1, <1>2, <1>4, <2>1
<1> QED
    BY <1>3, <1>4

LEMMA DepthStart == DepthBefore(1) = 0
<1>1. {q \in 1..(1 - 1) : Opens(q)} = {} /\ {q \in 1..(1 - 1) : Closes(q)} = {}
    OBVIOUS
<1>2. Cardinality({}) = 0
    BY FS_EmptySet
<1> QED
    BY <1>1, <1>2 DEF DepthBefore

LEMMA DepthStep ==
    ASSUME NEW p \in Nat, p > 0
    PROVE  /\ DepthBefore(p) \in Int
           /\ DepthBefore(p + 1) = DepthBefore(p) + IF Opens(p) THEN 1 ELSE IF Closes(p) THEN -1 ELSE 0
<1> DEFINE m == p - 1
           A == {q \in 1..p : Opens(q)}
           B == {q \in 1..p : Closes(q)}
<1>1. m \in Nat /\ m + 1 = p /\ p + 1 - 1 = p
    OBVIOUS
<1>2. /\ {q \in 1..(p - 1) : Opens(q)} = A \cap (1..m) /\ {q \in 1..(p - 1) : Closes(q)} = B \cap (1..m)
      /\ {q \in 1..(p + 1 - 1) : Opens(q)} = A \cap (1..(m + 1))
      /\ {q \in 1..(p + 1 - 1) : Closes(q)} = B \cap (1..(m + 1))
    OBVIOUS
<1>3. (m + 1 \in A <=> Opens(p)) /\ (m + 1 \in B <=> Closes(p))
    OBVIOUS
<1> HIDE DEF m, A, B
<1>4. /\ Cardinality(A \cap (1..m)) \in Nat
      /\ Cardinality(A \cap (1..(m + 1))) = Cardinality(A \cap (1..m)) + IF m + 1 \in A THEN 1 ELSE 0
    BY <1>1, CountStep
<1>5. /\ Cardinality(B \cap (1..m)) \in Nat
      /\ Cardinality(B \cap (1..(m + 1))) = Cardinality(B \cap (1..m)) + IF m + 1 \in B THEN 1 ELSE 0
    BY <1>1, CountStep
<1>6. /\ DepthBefore(p) = Cardinality(A \cap (1..m)) - Cardinality(B \cap (1..m))
      /\ DepthBefore(p + 1) = Cardinality(A \cap (1..(m + 1))) - Cardinality(B \cap (1..(m + 1)))
    <2> DEFINE Before1 == {q \in 1..(p - 1) : Opens(q)}
               Before2 == {q \in 1..(p - 1) : Closes(q)}
               To1 == {q \in 1..(p + 1 - 1) : Opens(q)}
               To2 == {q \in 1..(p + 1 - 1) : Closes(q)}
    <2>1. /\ DepthBefore(p) = Cardinality(Before1) - Cardinality(Before2)
          /\ DepthBefore(p + 1) = Cardinality(To1) - Cardinality(To2)
        BY DEF DepthBefore
    <2>2. Before1 = A \cap (1..m) /\ Before2 = B \cap (1..m) /\ To1 = A \cap (1..(m + 1)) /\ To2 = B \cap (1..(m + 1))
        BY <1>2
    <2> HIDE DEF Before1, Before2, To1, To2
    <2> QED
        BY <2>1, <2>2
<1>7. PICK a, b : a = Cardinality(A \cap (1..m)) /\ b = Cardinality(B \cap (1..m))
    OBVIOUS
<1>8. /\ DepthBefore(p) = a - b /\ a \in Nat /\ b \in Nat
      /\ DepthBefore(p + 1) = (a + IF Opens(p) THEN 1 ELSE 0) - (b + IF Closes(p) THEN 1 ELSE 0)
    BY <1>3, <1>4, <1>5, <1>6, <1>7
<1>9. ~(Opens(p) /\ Closes(p))
    BY OpensOrCloses
<1>10. CASE Opens(p)
    BY <1>8, <1>9, <1>10
<1>11. CASE Closes(p)
    BY <1>8, <1>9, <1>11
<1>12. CASE ~Opens(p) /\ ~Closes(p)
    BY <1>8, <1>12
<1> QED
    BY <1>10, <1>11, <1>12

\* The greatest number of a set that has a bound.
LEMMA MaxOf ==
    ASSUME NEW S, NEW m \in Nat, S \subseteq 0..m, S # {}
    PROVE  Max(S) \in S /\ \A x \in S : x <= Max(S)
<1> DEFINE T == {d \in Nat : m - d \in S}
<1>1. T \in SUBSET Nat /\ T # {}
    <2>1. PICK x \in S : TRUE
        OBVIOUS
    <2>2. m - x \in Nat /\ m - (m - x) = x
        BY <2>1
    <2> QED
        BY <2>1, <2>2
<1>2. PICK d \in T : \A e \in T : d <= e
    BY <1>1, LeastNatural
<1>3. m - d \in S /\ \A x \in S : m - d >= x
    <2>1. ASSUME NEW x \in S
          PROVE  m - d >= x
        <3>1. m - x \in Nat /\ m - (m - x) = x /\ x \in Nat
            BY <2>1
        <3>2. m - x \in T
            BY <2>1, <3>1
        <3>3. d \in Nat
            BY <1>2
        <3> HIDE DEF T
        <3>4. d <= m - x
            BY <1>2, <3>2
        <3> QED
            BY <3>1, <3>3, <3>4
    <2> QED
        BY <2>1
<1>4. \E x \in S : \A y \in S : x >= y
    BY <1>3
<1>5. Max(S) \in S /\ \A y \in S : Max(S) >= y
    BY <1>4 DEF Max
<1> QED
    BY <1>5

LEMMA OpenerIs ==
    ASSUME NEW m \in Nat, NEW k
    PROVE  /\ Opener(m, k) \in 0..m
           /\ Opener(m, k) # 0 => Opens(Opener(m, k)) /\ DepthBefore(Opener(m, k)) = k - 1
<1>1. OpenersTo(m, k) \subseteq 0..m /\ OpenersTo(m, k) # {}
    BY DEF OpenersTo
<1>2. Opener(m, k) \in OpenersTo(m, k)
    BY <1>1, MaxOf DEF Opener
<1> QED
    BY <1>1, <1>2 DEF OpenersTo

LEMMA OpenerStep ==
    ASSUME NEW m \in Nat, NEW k
    PROVE  Opener(m + 1, k) = IF Opens(m + 1) /\ DepthBefore(m + 1) = k - 1 THEN m + 1 ELSE Opener(m, k)
<1>1. CASE Opens(m + 1) /\ DepthBefore(m + 1) = k - 1
    <2>1. m + 1 \in OpenersTo(m + 1, k) /\ OpenersTo(m + 1, k) \subseteq 0..(m + 1)
        BY <1>1 DEF OpenersTo
    <2>2. Opener(m + 1, k) \in OpenersTo(m + 1, k) /\ m + 1 <= Opener(m + 1, k)
        BY <2>1, MaxOf DEF Opener
    <2> QED
        BY <1>1, <2>1, <2>2
<1>2. CASE ~(Opens(m + 1) /\ DepthBefore(m + 1) = k - 1)
    <2>1. OpenersTo(m + 1, k) = OpenersTo(m, k)
        <3>1. \A q : q \in 1..(m + 1) <=> q \in 1..m \/ q = m + 1
            OBVIOUS
        <3> QED
            BY <1>2, <3>1 DEF OpenersTo
    <2> QED
        BY <1>2, <2>1 DEF Opener
<1> QED
    BY <1>1, <1>2

\* What LayoutExact says of one position.
Stands(p) ==
    /\ ColumnAt(p) >= BlockColumn(OpenerAt(p))
    /\ result[p].kind # "module"
    /\ result[p].kind = ")" => ~Begins(p) /\ ParensIn(OpenerAt(p), p - 1) > 0

Justified(p) ==
    LET after == result[p].src + 1
    IN  \/ after > Len(tokens)
        \/ tokens[after].column < BlockColumn(OpenerAt(p))
        \/ tokens[after].kind = "module"
        \/ /\ tokens[after].kind = ")"
           /\ ParensIn(OpenerAt(p), p - 1) = 0 \/ tokens[after].column = BlockColumn(OpenerAt(p))

Separated(p) ==
    /\ KeptAt(p) /\ OpenerAt(p) # 0 /\ result[OpenerAt(p)].kind # "module" /\ TokensIn(OpenerAt(p), p - 1) # {} =>
        (result[p - 1].kind = ItemEnd) = (ColumnAt(p) = BlockColumn(OpenerAt(p)))
    /\ result[p].kind = BlockEnd /\ result[p - 1].kind # ItemEnd =>
        result[p].src < Len(tokens) /\ tokens[result[p].src + 1].kind = "module"

Fits(p) ==
    /\ KeptAt(p) => IF OpenerAt(p) = 0 THEN result[p].kind = "module" ELSE Stands(p)
    /\ Closes(p) => OpenerAt(p) # 0 /\ Justified(p)
    /\ Separated(p)

LEMMA OpenerAtBefore ==
    ASSUME NEW p \in Nat, p > 0
    PROVE  OpenerAt(p) \in 0..(p - 1)
<1>1. p - 1 \in Nat
    OBVIOUS
<1> QED
    BY <1>1, OpenerIs DEF OpenerAt

\* All this depends on the entries up to a position only.
LEMMA PrefixDepths ==
    ASSUME NEW n \in Nat, \A i \in 1..n : result'[i] = result[i]
    PROVE  /\ \A p \in 1..n : Opens(p)' = Opens(p) /\ Closes(p)' = Closes(p) /\ KeptAt(p)' = KeptAt(p)
           /\ \A p \in 1..(n + 1) : DepthBefore(p)' = DepthBefore(p)
           /\ \A m \in 0..n : \A k : Opener(m, k)' = Opener(m, k)
           /\ \A p \in 1..(n + 1) : OpenerAt(p)' = OpenerAt(p)
<1>1. \A p \in 1..n : Opens(p)' = Opens(p) /\ Closes(p)' = Closes(p) /\ KeptAt(p)' = KeptAt(p)
    BY DEF Opens, Closes, KeptAt
<1>2. ASSUME NEW p \in 1..(n + 1)
      PROVE  DepthBefore(p)' = DepthBefore(p)
    <2>1. \A q \in 1..(p - 1) : q \in 1..n
        OBVIOUS
    <2>2. {q \in 1..(p - 1) : Opens(q)}' = {q \in 1..(p - 1) : Opens(q)}
        BY <1>1, <2>1
    <2>3. {q \in 1..(p - 1) : Closes(q)}' = {q \in 1..(p - 1) : Closes(q)}
        BY <1>1, <2>1
    <2> QED
        BY <2>2, <2>3 DEF DepthBefore
<1>3. ASSUME NEW m \in 0..n, NEW k
      PROVE  Opener(m, k)' = Opener(m, k)
    <2>1. \A q \in 1..m : q \in 1..n /\ q \in 1..(n + 1)
        OBVIOUS
    <2>2. OpenersTo(m, k)' = OpenersTo(m, k)
        BY <1>1, <1>2, <2>1 DEF OpenersTo
    <2> QED
        BY <2>2 DEF Opener
<1>4. ASSUME NEW p \in 1..(n + 1)
      PROVE  OpenerAt(p)' = OpenerAt(p)
    <2>1. p - 1 \in 0..n
        OBVIOUS
    <2>2. PICK k : k = DepthBefore(p)
        OBVIOUS
    <2>3. DepthBefore(p)' = k
        BY <1>2, <2>2
    <2>4. OpenerAt(p) = Opener(p - 1, k)
        BY <2>2 DEF OpenerAt
    <2>5. OpenerAt(p)' = Opener(p - 1, k)'
        BY <2>3 DEF OpenerAt
    <2> QED
        BY <1>3, <2>1, <2>4, <2>5
<1> QED
    BY <1>1, <1>2, <1>3, <1>4

LEMMA PrefixItems ==
    ASSUME NEW n \in Nat, \A i \in 1..n : result'[i] = result[i], tokens' = tokens
    PROVE  /\ \A q \in Nat : \A m \in 0..n : TokensIn(q, m)' = TokensIn(q, m)
           /\ \A p \in 1..n : OpenerAt(p) # 0 => Begins(p)' = Begins(p)
           /\ \A q \in 1..n : \A m \in 0..n :
                ItemIn(q, m)' = ItemIn(q, m) /\ ParensIn(q, m)' = ParensIn(q, m)
           /\ \A p \in 1..n : Fits(p)' = Fits(p)
<1>1. /\ \A p \in 1..n : Opens(p)' = Opens(p) /\ Closes(p)' = Closes(p) /\ KeptAt(p)' = KeptAt(p)
      /\ \A p \in 1..(n + 1) : OpenerAt(p)' = OpenerAt(p)
    BY PrefixDepths
<1>2. ASSUME NEW q \in Nat, NEW m \in 0..n
      PROVE  TokensIn(q, m)' = TokensIn(q, m)
    <2>1. \A r \in (q + 1)..m : r \in 1..n /\ r \in 1..(n + 1)
        OBVIOUS
    <2> QED
        BY <1>1, <2>1 DEF TokensIn
<1>3. ASSUME NEW p \in 1..n
      PROVE  /\ OpenerAt(p)' = OpenerAt(p) /\ OpenerAt(p) \in 0..(p - 1) /\ p - 1 \in 0..n
             /\ result'[p] = result[p] /\ ColumnAt(p)' = ColumnAt(p)
             /\ TokensIn(OpenerAt(p), p - 1)' = TokensIn(OpenerAt(p), p - 1)
             /\ OpenerAt(p) # 0 => OpenerAt(p) \in 1..n /\ BlockColumn(OpenerAt(p))' = BlockColumn(OpenerAt(p))
    <2>1. PICK q : q = OpenerAt(p)
        OBVIOUS
    <2>2. OpenerAt(p)' = q /\ q \in 0..(p - 1) /\ p - 1 \in 0..n /\ q \in Nat
        <3>1. p \in Nat /\ p > 0 /\ p \in 1..(n + 1)
            OBVIOUS
        <3> QED
            BY <1>1, <2>1, <3>1, OpenerAtBefore
    <2>3. TokensIn(OpenerAt(p), p - 1)' = TokensIn(q, p - 1)'
        BY <2>2
    <2>4. TokensIn(q, p - 1)' = TokensIn(q, p - 1)
        BY <1>2, <2>2
    <2>5. result'[p] = result[p] /\ ColumnAt(p)' = ColumnAt(p)
        BY DEF ColumnAt
    <2>6. ASSUME q # 0
          PROVE  q \in 1..n /\ BlockColumn(OpenerAt(p))' = BlockColumn(OpenerAt(p))
        <3>1. q \in 1..n
            BY <2>2, <2>6
        <3> QED
            BY <2>1, <2>2, <3>1 DEF BlockColumn
    <2> QED
        BY <2>1, <2>2, <2>3, <2>4, <2>5, <2>6
<1>4. ASSUME NEW p \in 1..n, OpenerAt(p) # 0
      PROVE  Begins(p)' = Begins(p)
    BY <1>3, <1>4 DEF Begins
<1>5. ASSUME NEW q \in 1..n, NEW m \in 0..n
      PROVE  ItemIn(q, m)' = ItemIn(q, m) /\ ParensIn(q, m)' = ParensIn(q, m)
    <2>1. TokensIn(q, m)' = TokensIn(q, m)
        BY <1>2
    <2>2. \A r \in TokensIn(q, m) : r \in 1..n /\ Begins(r)' = Begins(r)
        BY <1>4 DEF TokensIn
    <2>3. ItemIn(q, m)' = ItemIn(q, m)
        BY <2>1, <2>2 DEF ItemIn
    <2>4. \A r \in ItemIn(q, m) : result'[r] = result[r]
        BY <2>2 DEF ItemIn
    <2>5. ASSUME NEW kind
          PROVE  CountIn(q, m, kind)' = CountIn(q, m, kind)
        <3>1. {r \in ItemIn(q, m) : result[r].kind = kind}' = {r \in ItemIn(q, m) : result[r].kind = kind}
            BY <2>3, <2>4
        <3> QED
            BY <3>1 DEF CountIn
    <2> QED
        BY <2>3, <2>5 DEF ParensIn
<1>6. ASSUME NEW p \in 1..n
      PROVE  Fits(p)' = Fits(p)
    <2>1. PICK q : q = OpenerAt(p)
        OBVIOUS
    <2>2. OpenerAt(p)' = q /\ p - 1 \in 0..n
        BY <1>3, <2>1
    <2>3. q # 0 => q \in 1..n /\ Begins(p)' = Begins(p) /\ ParensIn(q, p - 1)' = ParensIn(q, p - 1)
                   /\ BlockColumn(q)' = BlockColumn(q) /\ result'[q] = result[q]
        BY <1>3, <1>4, <1>5, <2>1, <2>2
    <2>4. ASSUME q # 0
          PROVE  Stands(p)' = Stands(p) /\ Justified(p)' = Justified(p)
        BY <1>3, <2>1, <2>2, <2>3, <2>4 DEF Stands, Justified
    <2>5. p > 1 => result'[p - 1] = result[p - 1]
        OBVIOUS
    <2>6. /\ (KeptAt(p)' <=> KeptAt(p)) /\ (Closes(p)' <=> Closes(p))
          /\ ColumnAt(p)' = ColumnAt(p) /\ result'[p] = result[p]
        BY <1>1, <1>3
    <2>7. (KeptAt(p) => IF q = 0 THEN result[p].kind = "module" ELSE Stands(p))'
            <=> (KeptAt(p) => IF q = 0 THEN result[p].kind = "module" ELSE Stands(p))
        BY <2>4, <2>6
    <2>8. (Closes(p) => q # 0 /\ Justified(p))' <=> (Closes(p) => q # 0 /\ Justified(p))
        BY <2>4, <2>6
    <2>9. ASSUME p > 1
          PROVE  Separated(p)' <=> Separated(p)
        <3>1. TokensIn(OpenerAt(p), p - 1)' = TokensIn(q, p - 1) /\ TokensIn(OpenerAt(p), p - 1) = TokensIn(q, p - 1)
            BY <1>3, <2>1
        <3>2. result'[p - 1] = result[p - 1]
            BY <2>5, <2>9
        <3>3. q # 0 => BlockColumn(q)' = BlockColumn(q) /\ result'[q] = result[q]
            BY <2>3
        <3> QED
            BY <2>1, <2>2, <2>6, <3>1, <3>2, <3>3 DEF Separated
    <2>10. ASSUME p = 1
           PROVE  /\ q = 0
                  /\ ~Closes(p) => Separated(p)' /\ Separated(p)
        <3>1. q = 0
            BY <1>3, <2>1, <2>10
        <3>2. ~Closes(p) => result[p].kind # BlockEnd
            BY DEF Closes
        <3> QED
            BY <2>1, <2>2, <2>6, <3>1, <3>2 DEF Separated
    <2>11. CASE p > 1
        BY <2>1, <2>2, <2>7, <2>8, <2>9, <2>11 DEF Fits
    <2>12. CASE p = 1
        BY <2>1, <2>2, <2>6, <2>7, <2>8, <2>10, <2>12 DEF Fits
    <2> QED
        BY <2>11, <2>12
<1> QED
    BY <1>2, <1>4, <1>5, <1>6

-----------------------------------------------------------------------------
(* One entry more. *)

Paren(kind) == IF kind = "(" THEN 1 ELSE IF kind = ")" THEN -1 ELSE 0

TakenAt(p, q) == KeptAt(p) /\ OpenerAt(p) = q

LEMMA CountOf ==
    ASSUME NEW q \in Nat, NEW m \in Nat, NEW kind
    PROVE  /\ CountIn(q, m, kind) \in Nat
           /\ {r \in ItemIn(q, m) : result[r].kind = kind} \subseteq 1..m
<1> DEFINE P == {r \in ItemIn(q, m) : result[r].kind = kind}
<1>1. P \subseteq 1..m
    BY DEF ItemIn, TokensIn
<1>2. P \cap (1..m) = P
    BY <1>1
<1> HIDE DEF P
<1>3. Cardinality(P) \in Nat
    BY <1>2, CountStep
<1>4. CountIn(q, m, kind) = Cardinality(P)
    BY DEF CountIn, P
<1> QED
    BY <1>1, <1>3, <1>4 DEF P

LEMMA ItemStep ==
    ASSUME NEW m \in Nat, NEW q \in 1..m
    PROVE  /\ TokensIn(q, m + 1) = IF TakenAt(m + 1, q) THEN TokensIn(q, m) \cup {m + 1} ELSE TokensIn(q, m)
           /\ ItemIn(q, m + 1) =
                IF TakenAt(m + 1, q) THEN (IF Begins(m + 1) THEN {m + 1} ELSE ItemIn(q, m) \cup {m + 1})
                ELSE ItemIn(q, m)
<1>1. \A r : r \in (q + 1)..(m + 1) <=> r \in (q + 1)..m \/ r = m + 1
    OBVIOUS
<1>2. TokensIn(q, m + 1) = IF TakenAt(m + 1, q) THEN TokensIn(q, m) \cup {m + 1} ELSE TokensIn(q, m)
    BY <1>1 DEF TokensIn, TakenAt
<1>3. \A r \in TokensIn(q, m) : r \in Nat /\ r <= m
    BY DEF TokensIn
<1>4. CASE ~TakenAt(m + 1, q)
    BY <1>2, <1>4 DEF ItemIn
<1>5. CASE TakenAt(m + 1, q) /\ Begins(m + 1)
    <2>1. ItemIn(q, m + 1) = {m + 1}
        BY <1>2, <1>3, <1>5 DEF ItemIn
    <2> QED
        BY <1>2, <1>5, <2>1
<1>6. CASE TakenAt(m + 1, q) /\ ~Begins(m + 1)
    <2>1. ItemIn(q, m + 1) = ItemIn(q, m) \cup {m + 1}
        BY <1>2, <1>3, <1>6 DEF ItemIn
    <2> QED
        BY <1>2, <1>6, <2>1
<1> QED
    BY <1>4, <1>5, <1>6

LEMMA CountInStep ==
    ASSUME NEW m \in Nat, NEW q \in 1..m, NEW kind
    PROVE  CountIn(q, m + 1, kind) =
             IF TakenAt(m + 1, q)
             THEN (IF Begins(m + 1) THEN 0 ELSE CountIn(q, m, kind)) + IF result[m + 1].kind = kind THEN 1 ELSE 0
             ELSE CountIn(q, m, kind)
<1> DEFINE P == {r \in ItemIn(q, m + 1) : result[r].kind = kind}
           Q == {r \in ItemIn(q, m) : result[r].kind = kind}
<1>1. CountIn(q, m + 1, kind) = Cardinality(P) /\ CountIn(q, m, kind) = Cardinality(Q)
    BY DEF CountIn
<1>2. P \subseteq 1..(m + 1) /\ Q \subseteq 1..m
    BY CountOf
<1>3. P \cap (1..(m + 1)) = P
    BY <1>2
<1>4. CASE ~TakenAt(m + 1, q)
    BY <1>4, <1>1, ItemStep
<1>5. CASE TakenAt(m + 1, q)
    <2>1. m + 1 \in P <=> result[m + 1].kind = kind
        BY <1>5, ItemStep
    <2>2. P \cap (1..m) = IF Begins(m + 1) THEN {} ELSE Q
        <3>1. m + 1 \notin 1..m
            OBVIOUS
        <3> QED
            BY <1>2, <1>5, <3>1, ItemStep
    <2>3. Cardinality(P \cap (1..m)) = IF Begins(m + 1) THEN 0 ELSE Cardinality(Q)
        <3>1. Cardinality({}) = 0
            BY FS_EmptySet
        <3> HIDE DEF P, Q
        <3> QED
            BY <2>2, <3>1
    <2> HIDE DEF P, Q
    <2>4. Cardinality(P \cap (1..(m + 1))) = Cardinality(P \cap (1..m)) + IF m + 1 \in P THEN 1 ELSE 0
        BY CountStep
    <2> QED
        BY <1>1, <1>3, <1>5, <2>1, <2>3, <2>4
<1> QED
    BY <1>4, <1>5

LEMMA ParensStep ==
    ASSUME NEW m \in Nat, NEW q \in 1..m
    PROVE  /\ ParensIn(q, m) \in Int
           /\ ParensIn(q, m + 1) =
                IF TakenAt(m + 1, q)
                THEN (IF Begins(m + 1) THEN 0 ELSE ParensIn(q, m)) + Paren(result[m + 1].kind)
                ELSE ParensIn(q, m)
<1>1. PICK a, b : a = CountIn(q, m, "(") /\ b = CountIn(q, m, ")")
    OBVIOUS
<1>2. a \in Nat /\ b \in Nat /\ ParensIn(q, m) = a - b
    BY <1>1, CountOf DEF ParensIn
<1>3. PICK c, d : c = CountIn(q, m + 1, "(") /\ d = CountIn(q, m + 1, ")")
    OBVIOUS
<1>4. ParensIn(q, m + 1) = c - d
    BY <1>3 DEF ParensIn
<1>5. CASE ~TakenAt(m + 1, q)
    BY <1>1, <1>2, <1>3, <1>4, <1>5, CountInStep
<1>6. CASE TakenAt(m + 1, q)
    <2>1. /\ c = (IF Begins(m + 1) THEN 0 ELSE a) + IF result[m + 1].kind = "(" THEN 1 ELSE 0
          /\ d = (IF Begins(m + 1) THEN 0 ELSE b) + IF result[m + 1].kind = ")" THEN 1 ELSE 0
        BY <1>1, <1>3, <1>6, CountInStep
    <2> QED
        BY <1>2, <1>4, <1>6, <2>1 DEF Paren
<1> QED
    BY <1>5, <1>6

\* What one entry more changes, in one formula.
BlockFacts ==
    /\ \A p : ~(Opens(p) /\ Closes(p)) /\ (Opens(p) => KeptAt(p)) /\ (Closes(p) => ~KeptAt(p))
    /\ \A p \in Nat \ {0} :
        /\ DepthBefore(p) \in Int
        /\ DepthBefore(p + 1) = DepthBefore(p) + IF Opens(p) THEN 1 ELSE IF Closes(p) THEN -1 ELSE 0
        /\ OpenerAt(p) = Opener(p - 1, DepthBefore(p)) /\ OpenerAt(p) \in 0..(p - 1)
    /\ \A m \in Nat : \A k :
        /\ Opener(m, k) \in 0..m
        /\ Opener(m, k) # 0 => Opens(Opener(m, k)) /\ DepthBefore(Opener(m, k)) = k - 1
        /\ Opener(m + 1, k) = IF Opens(m + 1) /\ DepthBefore(m + 1) = k - 1 THEN m + 1 ELSE Opener(m, k)
    /\ \A m \in Nat : \A q \in 1..m :
        /\ TokensIn(q, m + 1) = IF TakenAt(m + 1, q) THEN TokensIn(q, m) \cup {m + 1} ELSE TokensIn(q, m)
        /\ ParensIn(q, m) \in Int
        /\ ParensIn(q, m + 1) =
             IF TakenAt(m + 1, q) THEN (IF Begins(m + 1) THEN 0 ELSE ParensIn(q, m)) + Paren(result[m + 1].kind)
             ELSE ParensIn(q, m)

LEMMA BlockFactsHold == BlockFacts
<1>1. ASSUME NEW p \in Nat \ {0}
      PROVE  /\ DepthBefore(p) \in Int
             /\ DepthBefore(p + 1) = DepthBefore(p) + IF Opens(p) THEN 1 ELSE IF Closes(p) THEN -1 ELSE 0
             /\ OpenerAt(p) = Opener(p - 1, DepthBefore(p)) /\ OpenerAt(p) \in 0..(p - 1)
    <2>1. p \in Nat /\ p > 0
        OBVIOUS
    <2> QED
        BY <2>1, DepthStep, OpenerAtBefore DEF OpenerAt
<1>2. ASSUME NEW m \in Nat, NEW k
      PROVE  /\ Opener(m, k) \in 0..m
             /\ Opener(m, k) # 0 => Opens(Opener(m, k)) /\ DepthBefore(Opener(m, k)) = k - 1
             /\ Opener(m + 1, k) = IF Opens(m + 1) /\ DepthBefore(m + 1) = k - 1 THEN m + 1 ELSE Opener(m, k)
    BY OpenerIs, OpenerStep
<1>3. ASSUME NEW m \in Nat, NEW q \in 1..m
      PROVE  /\ TokensIn(q, m + 1) = IF TakenAt(m + 1, q) THEN TokensIn(q, m) \cup {m + 1} ELSE TokensIn(q, m)
             /\ ParensIn(q, m) \in Int
             /\ ParensIn(q, m + 1) =
                  IF TakenAt(m + 1, q)
                  THEN (IF Begins(m + 1) THEN 0 ELSE ParensIn(q, m)) + Paren(result[m + 1].kind)
                  ELSE ParensIn(q, m)
    BY ItemStep, ParensStep
<1> QED
    BY <1>1, <1>2, <1>3, OpensOrCloses DEF BlockFacts

LEMMA BlockFactsHoldNext == BlockFacts'
BY BlockFactsHold, PTL

\* The opener of the blocks at a position, and at the one after it.
OpenersFollow ==
    \A m \in Nat : \A k :
        Opener(m + 1, k) = IF Opens(m + 1) /\ DepthBefore(m + 1) = k - 1 THEN m + 1 ELSE Opener(m, k)

LEMMA OpenersFollowNext == OpenersFollow'
<1>1. OpenersFollow
    BY OpenerStep DEF OpenersFollow
<1> QED
    BY <1>1, PTL

-----------------------------------------------------------------------------
(* The invariant. *)

\* The word that opened the block number k of those that are open.
OpenerOf(k) == Opener(Len(result), k)

\* A block whose next token begins an item.
ItemAhead(k) ==
    /\ k = Len(blocks) /\ Rest /\ Token.column = blocks[k].start /\ blocks[k].parens = 0
    /\ TokensIn(OpenerOf(k), Len(result)) # {} /\ ~blocks[k].module => result[Len(result)].kind = ItemEnd

\* A block in the middle of an item.
InItem(k) ==
    /\ TokensIn(OpenerOf(k), Len(result)) # {}
    /\ blocks[k].parens = ParensIn(OpenerOf(k), Len(result))
    /\ k = Len(blocks) => result[Len(result)].kind # ItemEnd

BlockInv(k) ==
    /\ OpenerOf(k) # 0
    /\ blocks[k].start = BlockColumn(OpenerOf(k))
    /\ blocks[k].module = (result[OpenerOf(k)].kind = "module")
    /\ IF blocks[k].first THEN ItemAhead(k) ELSE InItem(k)

BlockRecord == [module : BOOLEAN, start : Nat, first : BOOLEAN, parens : Nat]

\* While the layout pass runs.
Laying ==
    /\ \A p \in 1..(Len(result) + 1) : DepthBefore(p) >= 0
    /\ Rest \/ blocks # <<>> => DepthBefore(Len(result) + 1) = Len(blocks)
    /\ \A k \in 1..Len(blocks) : BlockInv(k)
    /\ \A p \in 1..Len(result) : Fits(p)

LaidInv ==
    /\ LexInv /\ ColumnInv
    /\ blocks \in Seq(BlockRecord)
    /\ lexing = "layout" => Laying
    /\ lexing = "merging" => \A p \in Positions : Fits(p)

-----------------------------------------------------------------------------
(* A step that adds entries. *)

PrefixKept(n) == n \in Nat /\ (\A i \in 1..n : result'[i] = result[i]) /\ tokens' = tokens

\* The entry after the first n ones is an end, a word or another token.
LEMMA OneMore ==
    ASSUME NEW n, PrefixKept(n)
    PROVE  /\ DepthBefore(n + 1) \in Int /\ DepthBefore(n + 1)' = DepthBefore(n + 1)
           /\ OpenerAt(n + 1) \in 0..n /\ OpenerAt(n + 1)' = OpenerAt(n + 1)
           /\ OpenerAt(n + 1) = Opener(n, DepthBefore(n + 1))
           /\ DepthBefore(n + 2)' =
                DepthBefore(n + 1) + IF Opens(n + 1)' THEN 1 ELSE IF Closes(n + 1)' THEN -1 ELSE 0
           /\ \A k : Opener(n + 1, k)' =
                IF Opens(n + 1)' /\ DepthBefore(n + 1) = k - 1 THEN n + 1 ELSE Opener(n, k)
           /\ \A q \in 1..n :
                /\ TokensIn(q, n + 1)' =
                     IF KeptAt(n + 1)' /\ OpenerAt(n + 1) = q THEN TokensIn(q, n) \cup {n + 1} ELSE TokensIn(q, n)
                /\ ParensIn(q, n) \in Int
                /\ KeptAt(n + 1)' /\ OpenerAt(n + 1) = q =>
                     ParensIn(q, n + 1)' =
                        (IF TokensIn(q, n) = {} \/ tokens[result'[n + 1].src].column = BlockColumn(q)
                         THEN 0 ELSE ParensIn(q, n)) + Paren(result'[n + 1].kind)
                /\ ~(KeptAt(n + 1)' /\ OpenerAt(n + 1) = q) => ParensIn(q, n + 1)' = ParensIn(q, n)
<1>1. n \in Nat /\ (\A i \in 1..n : result'[i] = result[i]) /\ tokens' = tokens
    BY DEF PrefixKept
<1>2. n + 1 \in Nat \ {0} /\ n + 1 \in 1..(n + 1) /\ n \in 0..n /\ n + 1 - 1 = n /\ n + 1 + 1 = n + 2
    BY <1>1
<1>3. /\ DepthBefore(n + 1)' = DepthBefore(n + 1) /\ OpenerAt(n + 1)' = OpenerAt(n + 1)
      /\ \A k : Opener(n, k)' = Opener(n, k)
    BY <1>1, <1>2, PrefixDepths
<1>4. /\ \A q \in Nat : TokensIn(q, n)' = TokensIn(q, n)
      /\ \A q \in 1..n : ParensIn(q, n)' = ParensIn(q, n)
    BY <1>1, <1>2, PrefixItems
<1>5. /\ DepthBefore(n + 1) \in Int /\ OpenerAt(n + 1) \in 0..n
      /\ OpenerAt(n + 1) = Opener(n, DepthBefore(n + 1))
    BY <1>2, BlockFactsHold DEF BlockFacts
<1>6. DepthBefore(n + 2)' = DepthBefore(n + 1) + IF Opens(n + 1)' THEN 1 ELSE IF Closes(n + 1)' THEN -1 ELSE 0
    <2>1. DepthBefore(n + 1 + 1)' =
            DepthBefore(n + 1)' + IF Opens(n + 1)' THEN 1 ELSE IF Closes(n + 1)' THEN -1 ELSE 0
        BY <1>2, BlockFactsHoldNext DEF BlockFacts
    <2> QED
        BY <1>2, <1>3, <2>1
<1>7. \A k : Opener(n + 1, k)' = IF Opens(n + 1)' /\ DepthBefore(n + 1) = k - 1 THEN n + 1 ELSE Opener(n, k)
    <2>1. \A k : Opener(n + 1, k)' =
            IF Opens(n + 1)' /\ DepthBefore(n + 1)' = k - 1 THEN n + 1 ELSE Opener(n, k)'
        BY <1>1, BlockFactsHoldNext DEF BlockFacts
    <2> QED
        BY <1>3, <2>1
<1>8. ASSUME NEW q \in 1..n
      PROVE  /\ TokensIn(q, n + 1)' =
                  IF KeptAt(n + 1)' /\ OpenerAt(n + 1) = q THEN TokensIn(q, n) \cup {n + 1} ELSE TokensIn(q, n)
             /\ ParensIn(q, n) \in Int
             /\ KeptAt(n + 1)' /\ OpenerAt(n + 1) = q =>
                  ParensIn(q, n + 1)' =
                     (IF TokensIn(q, n) = {} \/ tokens[result'[n + 1].src].column = BlockColumn(q)
                      THEN 0 ELSE ParensIn(q, n)) + Paren(result'[n + 1].kind)
             /\ ~(KeptAt(n + 1)' /\ OpenerAt(n + 1) = q) => ParensIn(q, n + 1)' = ParensIn(q, n)
    <2>1. TakenAt(n + 1, q)' <=> KeptAt(n + 1)' /\ OpenerAt(n + 1) = q
        BY <1>3 DEF TakenAt
    <2>2. /\ TokensIn(q, n + 1)' = IF TakenAt(n + 1, q)' THEN TokensIn(q, n)' \cup {n + 1} ELSE TokensIn(q, n)'
          /\ ParensIn(q, n + 1)' =
               IF TakenAt(n + 1, q)'
               THEN (IF Begins(n + 1)' THEN 0 ELSE ParensIn(q, n)') + Paren(result'[n + 1].kind)
               ELSE ParensIn(q, n)'
        BY <1>1, BlockFactsHoldNext DEF BlockFacts, Paren
    <2>3. ParensIn(q, n) \in Int
        BY <1>1, BlockFactsHold DEF BlockFacts
    <2>4. TokensIn(q, n)' = TokensIn(q, n) /\ ParensIn(q, n)' = ParensIn(q, n)
        BY <1>1, <1>4
    <2>5. OpenerAt(n + 1) = q =>
            (Begins(n + 1)' <=> TokensIn(q, n) = {} \/ tokens[result'[n + 1].src].column = BlockColumn(q))
        <3> SUFFICES ASSUME OpenerAt(n + 1) = q
                     PROVE  Begins(n + 1)' <=>
                                TokensIn(q, n) = {} \/ tokens[result'[n + 1].src].column = BlockColumn(q)
            OBVIOUS
        <3>1. OpenerAt(n + 1)' = q
            BY <1>3
        <3>2. Begins(n + 1)' <=> TokensIn(q, n)' = {} \/ ColumnAt(n + 1)' = BlockColumn(q)'
            BY <1>2, <3>1 DEF Begins
        <3>3. ColumnAt(n + 1)' = tokens[result'[n + 1].src].column /\ BlockColumn(q)' = BlockColumn(q)
            BY <1>1 DEF ColumnAt, BlockColumn
        <3> QED
            BY <2>4, <3>2, <3>3
    <2> QED
        BY <2>1, <2>2, <2>3, <2>4, <2>5
<1> QED
    BY <1>3, <1>5, <1>6, <1>7, <1>8

\* One end or two.
LEMMA Ended ==
    ASSUME NEW n, PrefixKept(n), NEW e \in {n + 1, n + 2},
           \A i \in (n + 1)..e : ~KeptAt(i)',
           e = n + 2 => ~Closes(n + 1)'
    PROVE  /\ DepthBefore(e)' = DepthBefore(n + 1) /\ OpenerAt(e)' = OpenerAt(n + 1)
           /\ DepthBefore(e + 1)' = DepthBefore(n + 1) - IF Closes(e)' THEN 1 ELSE 0
           /\ \A k : Opener(e, k)' = Opener(n, k)
           /\ \A q \in 1..n :
                /\ TokensIn(q, e)' = TokensIn(q, n)
                /\ ParensIn(q, e)' = ParensIn(q, n) /\ ParensIn(q, e - 1)' = ParensIn(q, n)
<1>1. n \in Nat /\ n + 1 \in (n + 1)..e /\ e \in (n + 1)..e
    BY DEF PrefixKept
<1>2. ~KeptAt(n + 1)' /\ ~Opens(n + 1)' /\ ~KeptAt(e)' /\ ~Opens(e)'
    BY <1>1, BlockFactsHoldNext DEF BlockFacts
<1>3. /\ DepthBefore(n + 1) \in Int /\ DepthBefore(n + 1)' = DepthBefore(n + 1)
      /\ OpenerAt(n + 1)' = OpenerAt(n + 1) /\ OpenerAt(n + 1) = Opener(n, DepthBefore(n + 1))
      /\ DepthBefore(n + 2)' = DepthBefore(n + 1) + IF Closes(n + 1)' THEN -1 ELSE 0
      /\ \A k : Opener(n + 1, k)' = Opener(n, k)
      /\ \A q \in 1..n : TokensIn(q, n + 1)' = TokensIn(q, n) /\ ParensIn(q, n + 1)' = ParensIn(q, n)
    BY <1>2, OneMore
<1>4. CASE e = n + 1
    <2>1. e - 1 = n /\ e + 1 = n + 2
        BY <1>1, <1>4
    <2>2. \A q \in 1..n : ParensIn(q, n)' = ParensIn(q, n)
        <3>1. n \in 0..n
            BY <1>1
        <3> QED
            BY <3>1, PrefixItems DEF PrefixKept
    <2>3. DepthBefore(n + 2)' = DepthBefore(n + 1) - IF Closes(n + 1)' THEN 1 ELSE 0
        BY <1>3
    <2> QED
        BY <1>3, <1>4, <2>1, <2>2, <2>3
<1>5. CASE e = n + 2
    <2>1. PICK m \in Nat : m = n + 1
        BY <1>1
    <2>2. e = m + 1 /\ e \in Nat \ {0} /\ e - 1 = m /\ ~KeptAt(m + 1)' /\ ~Opens(m + 1)'
        BY <1>1, <1>2, <1>5, <2>1
    <2>3. DepthBefore(e)' = DepthBefore(n + 1)
        BY <1>3, <1>5
    <2>4. /\ DepthBefore(e + 1)' = DepthBefore(e)' + IF Closes(e)' THEN -1 ELSE 0
          /\ OpenerAt(e)' = Opener(m, DepthBefore(e))'
          /\ \A k : Opener(m + 1, k)' = Opener(m, k)'
          /\ \A q \in 1..m : TokensIn(q, m + 1)' = TokensIn(q, m)' /\ ParensIn(q, m + 1)' = ParensIn(q, m)'
        <3>1. \A q : ~TakenAt(m + 1, q)'
            BY <2>2 DEF TakenAt
        <3> QED
            BY <1>2, <2>2, <3>1, BlockFactsHoldNext DEF BlockFacts
    <2>5. OpenerAt(e)' = OpenerAt(n + 1)
        <3>1. PICK k : k = DepthBefore(n + 1)
            OBVIOUS
        <3>2. DepthBefore(e)' = k
            BY <2>3, <3>1
        <3>3. OpenerAt(e)' = Opener(m, k)'
            BY <2>4, <3>2
        <3>4. Opener(n + 1, k)' = Opener(n, k)
            BY <1>3
        <3> QED
            BY <1>3, <2>1, <3>1, <3>3, <3>4
    <2>6. DepthBefore(e + 1)' = DepthBefore(n + 1) - IF Closes(e)' THEN 1 ELSE 0
        BY <1>3, <2>3, <2>4
    <2>7. \A k : Opener(e, k)' = Opener(n, k)
        BY <1>3, <2>1, <2>2, <2>4
    <2>8. \A q \in 1..n : q \in 1..m
        BY <1>1, <2>1
    <2>9. \A q \in 1..n : /\ TokensIn(q, e)' = TokensIn(q, n)
                          /\ ParensIn(q, e)' = ParensIn(q, n) /\ ParensIn(q, e - 1)' = ParensIn(q, n)
        BY <1>3, <2>1, <2>2, <2>4, <2>8
    <2> QED
        BY <2>3, <2>5, <2>6, <2>7, <2>9
<1> QED
    BY <1>4, <1>5

\* The entry that a token becomes.
LEMMA TokenFits ==
    ASSUME NEW n, PrefixKept(n), NEW p, p = n + 1, KeptAt(p)',
           NEW q, q = OpenerAt(p),
           NEW col, col = tokens[result'[p].src].column,
           q = 0 => result'[p].kind = "module",
           q # 0 => /\ col >= BlockColumn(q) /\ result'[p].kind # "module"
                    /\ result'[p].kind = ")" =>
                         TokensIn(q, n) # {} /\ col # BlockColumn(q) /\ ParensIn(q, n) > 0
                    /\ result[q].kind # "module" /\ TokensIn(q, n) # {} =>
                         (result[n].kind = ItemEnd) = (col = BlockColumn(q))
    PROVE  Fits(p)'
<1>1. n \in Nat /\ (\A i \in 1..n : result'[i] = result[i]) /\ tokens' = tokens /\ p - 1 = n
    BY DEF PrefixKept
<1>2. OpenerAt(p)' = q /\ q \in 0..n
    BY OneMore
<1>3. /\ TokensIn(q, n)' = TokensIn(q, n)
      /\ q # 0 => ParensIn(q, n)' = ParensIn(q, n) /\ BlockColumn(q)' = BlockColumn(q) /\ result'[q] = result[q]
    <2>1. q \in Nat /\ n \in 0..n /\ (q # 0 => q \in 1..n)
        BY <1>1, <1>2
    <2> QED
        BY <1>1, <2>1, PrefixItems DEF BlockColumn
<1>4. ColumnAt(p)' = col
    BY <1>1 DEF ColumnAt
<1>5. ~Closes(p)' /\ result'[p].kind # BlockEnd
    BY BlockFactsHoldNext DEF BlockFacts, KeptAt, Ends
<1>6. ASSUME q # 0
      PROVE  Stands(p)' /\ Separated(p)'
    <2>1. Begins(p)' <=> TokensIn(q, n) = {} \/ col = BlockColumn(q)
        BY <1>1, <1>2, <1>3, <1>4, <1>6 DEF Begins
    <2>2. ParensIn(OpenerAt(p), p - 1)' = ParensIn(q, n)
        BY <1>1, <1>2, <1>3, <1>6
    <2>3. BlockColumn(OpenerAt(p))' = BlockColumn(q)
        BY <1>2, <1>3, <1>6
    <2>4. Stands(p)'
        <3>1. ColumnAt(p)' >= BlockColumn(OpenerAt(p))'
            BY <1>4, <1>6, <2>3
        <3>2. result'[p].kind # "module"
            BY <1>6
        <3>3. ASSUME result'[p].kind = ")"
              PROVE  ~Begins(p)' /\ ParensIn(OpenerAt(p), p - 1)' > 0
            BY <1>6, <2>1, <2>2, <3>3
        <3> QED
            BY <3>1, <3>2, <3>3 DEF Stands
    <2>5. TokensIn(OpenerAt(p), p - 1)' = TokensIn(q, n)
        BY <1>1, <1>2, <1>3
    <2>6. result'[p - 1].kind = result[n].kind
        BY <1>1, <1>2, <1>6
    <2>7. Separated(p)'
        <3>1. ASSUME result[q].kind # "module", TokensIn(q, n) # {}
              PROVE  (result'[p - 1].kind = ItemEnd) = (ColumnAt(p)' = BlockColumn(OpenerAt(p))')
            BY <1>4, <1>6, <2>3, <2>6, <3>1
        <3>2. result'[OpenerAt(p)'].kind = result[q].kind
            BY <1>2, <1>3, <1>6
        <3> QED
            BY <1>5, <2>5, <3>1, <3>2 DEF Separated
    <2> QED
        BY <2>4, <2>7
<1>7. CASE q # 0
    BY <1>2, <1>5, <1>6, <1>7 DEF Fits
<1>8. CASE q = 0
    <2>1. Separated(p)'
        BY <1>2, <1>5, <1>8 DEF Separated
    <2> QED
        BY <1>2, <1>5, <1>8, <2>1 DEF Fits
<1> QED
    BY <1>7, <1>8

\* The last of the ends that a step adds.
LEMMA EndFits ==
    ASSUME NEW n, PrefixKept(n), NEW e \in {n + 1, n + 2},
           \A i \in (n + 1)..e : ~KeptAt(i)',
           e = n + 2 => ~Closes(n + 1)',
           NEW q, q = OpenerAt(n + 1),
           NEW after, after = result'[e].src + 1,
           Closes(e)' =>
                /\ q # 0
                /\ \/ after > Len(tokens)
                   \/ tokens[after].column < BlockColumn(q)
                   \/ tokens[after].kind = "module"
                   \/ /\ tokens[after].kind = ")"
                      /\ ParensIn(q, n) = 0 \/ tokens[after].column = BlockColumn(q),
           result'[e].kind = BlockEnd /\ result'[e - 1].kind # ItemEnd =>
                result'[e].src < Len(tokens) /\ tokens[after].kind = "module"
    PROVE  Fits(e)'
<1>1. n \in Nat /\ (\A i \in 1..n : result'[i] = result[i]) /\ tokens' = tokens
    BY DEF PrefixKept
<1>2. OpenerAt(e)' = q /\ q \in 0..n
    BY OneMore, Ended
<1>3. ~KeptAt(e)'
    BY <1>1
<1>4. q # 0 => ParensIn(q, e - 1)' = ParensIn(q, n) /\ BlockColumn(q)' = BlockColumn(q)
    <2>1. q # 0 => q \in 1..n
        BY <1>2
    <2>2. q \in 1..n => ParensIn(q, e - 1)' = ParensIn(q, n)
        BY Ended
    <2> QED
        BY <1>1, <2>1, <2>2 DEF BlockColumn
<1>5. Closes(e)' => Justified(e)'
    <2> SUFFICES ASSUME Closes(e)'
                 PROVE  Justified(e)'
        OBVIOUS
    <2>1. ParensIn(OpenerAt(e), e - 1)' = ParensIn(q, n) /\ BlockColumn(OpenerAt(e))' = BlockColumn(q)
        BY <1>2, <1>4
    <2> QED
        BY <1>1, <2>1 DEF Justified
<1>6. Separated(e)'
    BY <1>1, <1>3 DEF Separated
<1> QED
    BY <1>2, <1>3, <1>5, <1>6 DEF Fits

\* A block that a step does not touch, in the middle of an item.
LEMMA BlockStays ==
    ASSUME NEW n, n = Len(result), PrefixKept(n),
           NEW k, BlockInv(k), ~blocks[k].first,
           NEW e, e = Len(result'),
           NEW q, q = Opener(n, k), Opener(e, k)' = q,
           TokensIn(q, e)' = TokensIn(q, n), ParensIn(q, e)' = ParensIn(q, n),
           blocks'[k] = blocks[k],
           k = Len(blocks') => result'[e].kind # ItemEnd
    PROVE  BlockInv(k)'
<1>1. n \in Nat /\ (\A i \in 1..n : result'[i] = result[i]) /\ tokens' = tokens
    BY DEF PrefixKept
<1>2. OpenerOf(k) = q /\ OpenerOf(k)' = q
    BY DEF OpenerOf
<1>3. q \in 1..n
    <2>1. q \in 0..n
        BY <1>1, BlockFactsHold DEF BlockFacts
    <2> QED
        BY <1>2, <2>1 DEF BlockInv
<1>4. BlockColumn(q)' = BlockColumn(q) /\ result'[q] = result[q]
    BY <1>1, <1>3 DEF BlockColumn
<1>5. /\ q # 0 /\ blocks[k].start = BlockColumn(q)
      /\ blocks[k].module = (result[q].kind = "module")
      /\ TokensIn(q, n) # {} /\ blocks[k].parens = ParensIn(q, n)
    BY <1>2 DEF BlockInv, InItem
<1>6. TokensIn(OpenerOf(k), Len(result))' = TokensIn(q, n) /\ ParensIn(OpenerOf(k), Len(result))' = ParensIn(q, n)
    BY <1>2
<1>7. InItem(k)'
    BY <1>5, <1>6 DEF InItem
<1>8. BlockColumn(OpenerOf(k))' = BlockColumn(q) /\ result'[OpenerOf(k)'] = result[q]
    BY <1>2, <1>4
<1> QED
    BY <1>2, <1>5, <1>7, <1>8 DEF BlockInv

-----------------------------------------------------------------------------
(* The actions of the layout pass. *)

LEMMA LayoutParts ==
    ASSUME LaidInv, lexing = "layout", NEW n, n = Len(result)
    PROVE  /\ n \in Nat /\ (\E S : result \in Seq(S)) /\ (result # <<>> => n >= 1 /\ LastSrc = next - 1)
           /\ Len(tokens) \in Nat /\ next \in 1..(Len(tokens) + 1) /\ Len(blocks) \in Nat
           /\ \A i \in 1..Len(tokens) : tokens[i].column \in Nat /\ tokens[i].kind \notin Ends
           /\ DepthBefore(n + 1) \in Nat
<1>1. PICK S : result \in Seq(S)
    BY DEF LaidInv, LexInv
<1>2. PICK T : tokens \in Seq(T)
    BY DEF LaidInv, LexInv
<1>3. n \in Nat /\ (result # <<>> => n >= 1)
    BY <1>1, LenProperties, EmptySeq
<1>4. Len(tokens) \in Nat /\ DOMAIN tokens = 1..Len(tokens)
    BY <1>2, LenProperties
<1>5. Len(blocks) \in Nat
    BY LenProperties DEF LaidInv
<1>6. result # <<>> => LastSrc = next - 1
    BY DEF LaidInv, LexInv, TokensKept, LastSrc
<1>7. \A i \in 1..Len(tokens) : tokens[i].column \in Nat /\ tokens[i].kind \notin Ends
    BY <1>4 DEF LaidInv, LexInv, NoEnds, ColumnInv
<1>8. DepthBefore(n + 1) \in Nat
    <2>1. DepthBefore(n + 1) >= 0
        BY <1>3 DEF LaidInv, Laying
    <2>2. DepthBefore(n + 1) \in Int
        BY <1>3, BlockFactsHold DEF BlockFacts
    <2> QED
        BY <2>1, <2>2
<1> QED
    BY <1>1, <1>3, <1>4, <1>5, <1>6, <1>7, <1>8 DEF LaidInv, LexInv

\* The innermost block and the others.
LEMMA InnermostParts ==
    ASSUME LaidInv, lexing = "layout", blocks # <<>>,
           NEW n, n = Len(result), NEW l, l = Len(blocks), NEW q, q = OpenerAt(n + 1)
    PROVE  /\ l \in Nat /\ l >= 1 /\ n >= 1 /\ q \in 1..n /\ q = Opener(n, l) /\ DepthBefore(n + 1) = l
           /\ LastSrc = next - 1 /\ Innermost = blocks[l] /\ blocks[l] \in BlockRecord
           /\ blocks[l].start = BlockColumn(q) /\ blocks[l].module = (result[q].kind = "module")
           /\ blocks[l].first =>
                /\ Rest /\ Token.column = blocks[l].start /\ blocks[l].parens = 0
                /\ TokensIn(q, n) # {} /\ ~blocks[l].module => result[n].kind = ItemEnd
           /\ ~blocks[l].first =>
                TokensIn(q, n) # {} /\ blocks[l].parens = ParensIn(q, n) /\ result[n].kind # ItemEnd
           /\ \A k \in 1..l : k # l =>
                BlockInv(k) /\ ~blocks[k].first /\ Opener(n, k) \in 1..n /\ Opener(n, k) # q
<1>1. n \in Nat /\ l \in Nat /\ l >= 1
    BY LayoutParts, LenProperties, EmptySeq DEF LaidInv
<1>2. result # <<>>
    BY DEF LaidInv, LexInv
<1>3. n >= 1 /\ LastSrc = next - 1
    BY <1>2, LayoutParts
<1>4. DepthBefore(n + 1) = l
    BY DEF LaidInv, Laying
<1>5. q = Opener(n, l)
    <2>1. n + 1 \in Nat \ {0} /\ n + 1 - 1 = n
        BY <1>1
    <2> QED
        BY <1>4, <2>1, BlockFactsHold DEF BlockFacts
<1>6. \A k \in 1..l : BlockInv(k) /\ OpenerOf(k) = Opener(n, k) /\ Opener(n, k) \in 1..n
                       /\ DepthBefore(Opener(n, k)) = k - 1
    <2> SUFFICES ASSUME NEW k \in 1..l
                 PROVE  BlockInv(k) /\ OpenerOf(k) = Opener(n, k) /\ Opener(n, k) \in 1..n
                        /\ DepthBefore(Opener(n, k)) = k - 1
        OBVIOUS
    <2>1. BlockInv(k) /\ OpenerOf(k) = Opener(n, k)
        BY DEF LaidInv, Laying, OpenerOf
    <2>2. Opener(n, k) # 0
        BY <2>1 DEF BlockInv
    <2>3. Opener(n, k) \in 0..n /\ DepthBefore(Opener(n, k)) = k - 1
        BY <1>1, <2>2, BlockFactsHold DEF BlockFacts
    <2> QED
        BY <2>1, <2>2, <2>3
<1>7. l \in 1..l /\ Innermost = blocks[l] /\ blocks[l] \in BlockRecord
    <2>1. l \in 1..l
        BY <1>1
    <2> QED
        BY <2>1, ElementOfSeq DEF LaidInv, Innermost
<1>8. /\ q \in 1..n /\ BlockInv(l) /\ OpenerOf(l) = q
    BY <1>5, <1>6, <1>7
<1>9. /\ blocks[l].start = BlockColumn(q) /\ blocks[l].module = (result[q].kind = "module")
      /\ blocks[l].first => ItemAhead(l)
      /\ ~blocks[l].first => InItem(l)
    BY <1>8 DEF BlockInv
<1>10. ASSUME NEW k \in 1..l, k # l
       PROVE  ~blocks[k].first /\ Opener(n, k) # q
    <2>1. blocks[k].first => ItemAhead(k)
        BY <1>6 DEF BlockInv
    <2>2. ~blocks[k].first
        BY <1>10, <2>1 DEF ItemAhead
    <2>3. DepthBefore(Opener(n, k)) = k - 1 /\ DepthBefore(q) = l - 1
        BY <1>5, <1>6, <1>7
    <2> QED
        BY <1>1, <1>10, <2>2, <2>3
<1>11. blocks[l].first => /\ Rest /\ Token.column = blocks[l].start /\ blocks[l].parens = 0
                          /\ TokensIn(q, n) # {} /\ ~blocks[l].module => result[n].kind = ItemEnd
    BY <1>8, <1>9 DEF ItemAhead
<1>12. ~blocks[l].first =>
            TokensIn(q, n) # {} /\ blocks[l].parens = ParensIn(q, n) /\ result[n].kind # ItemEnd
    BY <1>8, <1>9 DEF InItem
<1> QED
    BY <1>1, <1>3, <1>4, <1>5, <1>6, <1>7, <1>8, <1>9, <1>10, <1>11, <1>12

\* A change of the innermost block.
Changed(b, m) == [blocks EXCEPT ![Len(blocks)].first = b, ![Len(blocks)].parens = m]

LEMMA InnermostChanged ==
    ASSUME blocks \in Seq(BlockRecord), NEW l, l = Len(blocks), l >= 1,
           NEW b \in BOOLEAN, NEW m \in Nat,
           NEW bs, bs = Changed(b, m)
    PROVE  /\ bs \in Seq(BlockRecord) /\ Len(bs) = l
           /\ bs[l].first = b /\ bs[l].parens = m
           /\ bs[l].module = blocks[l].module /\ bs[l].start = blocks[l].start
           /\ \A k \in 1..l : k # l => bs[k] = blocks[k]
<1>1. l \in Nat /\ l \in 1..l /\ blocks[l] \in BlockRecord /\ DOMAIN blocks = 1..l
    BY ElementOfSeq, LenProperties
<1> DEFINE r == [[blocks[l] EXCEPT !.first = b] EXCEPT !.parens = m]
<1>2. bs = [blocks EXCEPT ![l] = r]
    BY <1>1 DEF Changed
<1>3. /\ r \in BlockRecord /\ r.first = b /\ r.parens = m
      /\ r.module = blocks[l].module /\ r.start = blocks[l].start
    BY <1>1 DEF BlockRecord
<1> HIDE DEF r
<1>4. bs \in Seq(BlockRecord) /\ Len(bs) = l
    BY <1>1, <1>2, <1>3, ExceptSeq
<1>5. bs[l] = r /\ \A k \in 1..l : k # l => bs[k] = blocks[k]
    BY <1>1, <1>2
<1> QED
    BY <1>3, <1>4, <1>5

\* The next token is handed out.
LEMMA TokenEntry ==
    ASSUME LaidInv, lexing = "layout", Rest, tokens' = tokens,
           result' = Append(result, Kept(next)),
           NEW n, n = Len(result), NEW p, p = n + 1
    PROVE  /\ PrefixKept(n) /\ n \in Nat /\ p \in Nat /\ Len(result') = p
           /\ result'[p].kind = Token.kind /\ result'[p].src = next
           /\ KeptAt(p)' /\ ~Closes(p)' /\ (Opens(p)' <=> Token.kind \in Openers \cup {"module"})
           /\ Token.column \in Nat /\ next \in 1..Len(tokens)
<1>1. n \in Nat /\ next \in 1..Len(tokens) /\ Token.column \in Nat /\ Token.kind \notin Ends
    BY LayoutParts DEF Rest, Token
<1>2. PICK S : result \in Seq(S)
    BY LayoutParts
<1>3. Len(result') = p /\ (\A i \in 1..n : result'[i] = result[i]) /\ result'[p] = Kept(next)
    BY <1>2, Appended
<1>4. result'[p].kind = Token.kind /\ result'[p].src = next
    BY <1>3 DEF Kept, Token
<1>5. PrefixKept(n)
    BY <1>1, <1>3 DEF PrefixKept
<1>6. KeptAt(p)' /\ ~Closes(p)'
    BY <1>1, <1>4 DEF KeptAt, Closes, Ends
<1>7. Opens(p)' <=> Token.kind \in Openers \cup {"module"}
    BY <1>4 DEF Opens
<1> QED
    BY <1>1, <1>3, <1>4, <1>5, <1>6, <1>7

\* The next token is handed out in the innermost block.
LEMMA TokenInBlock ==
    ASSUME LaidInv, InBlock, Rest, ~ItemEnds, ~BlockEnds, tokens' = tokens,
           result' = Append(result, Kept(next)),
           NEW n, n = Len(result), NEW p, p = n + 1, NEW l, l = Len(blocks), NEW q, q = OpenerAt(p)
    PROVE  /\ Fits(p)'
           /\ TokensIn(q, p)' # {} /\ ParensIn(q, p)' = ParensAfter /\ ParensAfter \in Nat
           /\ \A r \in 1..n : r # q => TokensIn(r, p)' = TokensIn(r, n) /\ ParensIn(r, p)' = ParensIn(r, n)
           /\ \A k \in 1..l : Opener(p, k)' = Opener(n, k)
           /\ DepthBefore(p)' = l /\ DepthBefore(p + 1)' = l + IF Token.kind \in Openers THEN 1 ELSE 0
<1>1. lexing = "layout" /\ blocks # <<>>
    BY DEF InBlock, LayOut
<1>2. /\ PrefixKept(n) /\ n \in Nat /\ Len(result') = p
      /\ result'[p].kind = Token.kind /\ result'[p].src = next
      /\ KeptAt(p)' /\ ~Closes(p)' /\ (Opens(p)' <=> Token.kind \in Openers \cup {"module"})
      /\ Token.column \in Nat /\ p \in Nat
    BY <1>1, TokenEntry
<1>3. /\ l \in Nat /\ l >= 1 /\ n >= 1 /\ q \in 1..n /\ q = Opener(n, l) /\ DepthBefore(p) = l
      /\ Innermost = blocks[l] /\ blocks[l] \in BlockRecord
      /\ blocks[l].start = BlockColumn(q) /\ blocks[l].module = (result[q].kind = "module")
      /\ blocks[l].first =>
            /\ Token.column = blocks[l].start /\ blocks[l].parens = 0
            /\ TokensIn(q, n) # {} /\ ~blocks[l].module => result[n].kind = ItemEnd
      /\ ~blocks[l].first =>
            TokensIn(q, n) # {} /\ blocks[l].parens = ParensIn(q, n) /\ result[n].kind # ItemEnd
      /\ \A k \in 1..l : k # l => Opener(n, k) \in 1..n /\ Opener(n, k) # q
    BY <1>1, InnermostParts
<1>4. /\ Token.kind # "module" /\ (Token.kind = ")" => blocks[l].parens # 0)
      /\ ~blocks[l].first => Token.column > blocks[l].start
    <2>1. blocks[l].start \in Nat
        BY <1>3 DEF BlockRecord
    <2> QED
        BY <1>2, <1>3, <2>1 DEF BlockEnds, ItemEnds
<1>5. blocks[l].parens \in Nat /\ blocks[l].start \in Nat /\ blocks[l].first \in BOOLEAN
    BY <1>3 DEF BlockRecord
<1>6. PICK col : col = tokens[result'[p].src].column
    OBVIOUS
<1>7. col = Token.column /\ col \in Nat
    BY <1>2, <1>6 DEF Token
<1>8. Fits(p)'
    <2>1. col >= BlockColumn(q)
        BY <1>3, <1>4, <1>5, <1>7
    <2>2. Token.kind = ")" => TokensIn(q, n) # {} /\ col # BlockColumn(q) /\ ParensIn(q, n) > 0
        BY <1>3, <1>4, <1>5, <1>7
    <2>3. ASSUME result[q].kind # "module", TokensIn(q, n) # {}
          PROVE  (result[n].kind = ItemEnd) = (col = BlockColumn(q))
        <3>1. CASE blocks[l].first
            BY <1>3, <1>7, <2>3, <3>1
        <3>2. CASE ~blocks[l].first
            BY <1>3, <1>4, <1>5, <1>7, <2>3, <3>2
        <3> QED
            BY <3>1, <3>2
    <2> QED
        BY <1>2, <1>3, <1>4, <1>6, <2>1, <2>2, <2>3, TokenFits
<1>9. /\ DepthBefore(p)' = l
      /\ DepthBefore(n + 2)' = l + IF Opens(p)' THEN 1 ELSE 0
      /\ \A k : Opener(p, k)' = IF Opens(p)' /\ l = k - 1 THEN p ELSE Opener(n, k)
      /\ \A r \in 1..n :
            /\ TokensIn(r, p)' = IF r = q THEN TokensIn(r, n) \cup {p} ELSE TokensIn(r, n)
            /\ ParensIn(r, n) \in Int
            /\ r = q => ParensIn(r, p)' =
                 (IF TokensIn(r, n) = {} \/ col = BlockColumn(r) THEN 0 ELSE ParensIn(r, n)) + Paren(Token.kind)
            /\ r # q => ParensIn(r, p)' = ParensIn(r, n)
    <2>1. DepthBefore(p)' = l /\ DepthBefore(n + 2)' = l + IF Opens(p)' THEN 1 ELSE 0
        BY <1>2, <1>3, OneMore
    <2>2. \A k : Opener(p, k)' = IF Opens(p)' /\ l = k - 1 THEN p ELSE Opener(n, k)
        BY <1>2, <1>3, OneMore
    <2>3. \A r \in 1..n :
            /\ TokensIn(r, p)' = IF r = q THEN TokensIn(r, n) \cup {p} ELSE TokensIn(r, n)
            /\ ParensIn(r, n) \in Int
        BY <1>2, OneMore
    <2>4. ASSUME NEW r \in 1..n
          PROVE  /\ r = q => ParensIn(r, p)' =
                      (IF TokensIn(r, n) = {} \/ col = BlockColumn(r) THEN 0 ELSE ParensIn(r, n))
                        + Paren(Token.kind)
                 /\ r # q => ParensIn(r, p)' = ParensIn(r, n)
        BY <1>2, <1>6, OneMore
    <2> QED
        BY <2>1, <2>2, <2>3, <2>4
<1>10. ParensAfter = blocks[l].parens + Paren(Token.kind)
    <2>1. CASE Token.kind = "("
        BY <1>3, <2>1 DEF ParensAfter, Paren
    <2>2. CASE Token.kind = ")"
        BY <1>3, <1>5, <2>2 DEF ParensAfter, Paren
    <2>3. CASE Token.kind \notin {"(", ")"}
        BY <1>3, <1>5, <2>3 DEF ParensAfter, Paren
    <2> QED
        BY <2>1, <2>2, <2>3
<1>11. Paren(Token.kind) \in Int /\ (Token.kind # ")" => Paren(Token.kind) >= 0) /\ Paren(Token.kind) >= -1
    BY DEF Paren
<1>12. ParensAfter \in Nat
    BY <1>4, <1>5, <1>10, <1>11
<1>13. ParensIn(q, p)' = ParensAfter
    <2>1. CASE blocks[l].first
        <3>1. col = BlockColumn(q)
            BY <1>3, <1>7, <2>1
        <3> QED
            BY <1>3, <1>9, <1>10, <2>1, <3>1
    <2>2. CASE ~blocks[l].first
        <3>1. col # BlockColumn(q)
            BY <1>3, <1>4, <1>5, <1>7, <2>2
        <3> QED
            BY <1>3, <1>9, <1>10, <2>2, <3>1
    <2> QED
        BY <2>1, <2>2
<1>14. \A k \in 1..l : Opener(p, k)' = Opener(n, k)
    <2>1. \A k \in 1..l : l # k - 1
        BY <1>3
    <2> QED
        BY <1>9, <2>1
<1>15. DepthBefore(p + 1)' = l + IF Token.kind \in Openers THEN 1 ELSE 0
    <2>1. p + 1 = n + 2
        BY <1>2
    <2> QED
        BY <1>2, <1>4, <1>9, <2>1
<1>16. TokensIn(q, p)' # {}
    BY <1>3, <1>9
<1> QED
    BY <1>3, <1>8, <1>9, <1>12, <1>13, <1>14, <1>15, <1>16

\* What was said of the entries so far still holds.
LEMMA PositionsStay ==
    ASSUME LaidInv, lexing = "layout", NEW n, n = Len(result), PrefixKept(n)
    PROVE  /\ \A i \in 1..(n + 1) : DepthBefore(i)' \in Nat
           /\ \A i \in 1..n : Fits(i)'
<1>1. n \in Nat /\ (\A i \in 1..n : result'[i] = result[i]) /\ tokens' = tokens
    BY DEF PrefixKept
<1>2. \A i \in 1..(n + 1) : DepthBefore(i) >= 0 /\ DepthBefore(i) \in Int
    <2>1. \A i \in 1..(n + 1) : i \in Nat \ {0}
        BY <1>1
    <2> QED
        BY <2>1, BlockFactsHold DEF LaidInv, Laying, BlockFacts
<1>3. \A i \in 1..(n + 1) : DepthBefore(i)' = DepthBefore(i)
    BY <1>1, PrefixDepths
<1>4. \A i \in 1..n : Fits(i)' = Fits(i)
    BY <1>1, PrefixItems
<1>5. \A i \in 1..n : Fits(i)
    BY DEF LaidInv, Laying
<1> QED
    BY <1>2, <1>3, <1>4, <1>5

\* The innermost block and those around it after a token is taken.
LEMMA TokenLaid ==
    ASSUME LaidInv, InBlock, Rest, ~ItemEnds, ~BlockEnds, tokens' = tokens,
           result' = Append(result, Kept(next)),
           NEW n, n = Len(result), NEW p, p = n + 1, NEW l, l = Len(blocks),
           \A k \in 1..l : blocks'[k] = WithToken[k]
    PROVE  /\ WithToken \in Seq(BlockRecord) /\ Len(WithToken) = l /\ l \in Nat
           /\ \A k \in 1..l : BlockInv(k)'
           /\ \A i \in 1..p : Fits(i)'
           /\ \A i \in 1..p : DepthBefore(i)' \in Nat
           /\ DepthBefore(p + 1)' = l + IF Token.kind \in Openers THEN 1 ELSE 0
<1>1. lexing = "layout" /\ blocks # <<>>
    BY DEF InBlock, LayOut
<1>2. /\ PrefixKept(n) /\ n \in Nat /\ Len(result') = p /\ p \in Nat
      /\ result'[p].kind = Token.kind /\ KeptAt(p)' /\ next \in 1..Len(tokens)
    BY <1>1, TokenEntry
<1>3. PICK q : q = OpenerAt(p)
    OBVIOUS
<1>4. /\ l \in Nat /\ l >= 1 /\ n >= 1 /\ q \in 1..n /\ q = Opener(n, l)
      /\ blocks[l].start = BlockColumn(q) /\ blocks[l].module = (result[q].kind = "module")
      /\ \A k \in 1..l : k # l =>
            BlockInv(k) /\ ~blocks[k].first /\ Opener(n, k) \in 1..n /\ Opener(n, k) # q
    BY <1>1, <1>3, InnermostParts
<1>5. /\ Fits(p)'
      /\ TokensIn(q, p)' # {} /\ ParensIn(q, p)' = ParensAfter /\ ParensAfter \in Nat
      /\ \A r \in 1..n : r # q => TokensIn(r, p)' = TokensIn(r, n) /\ ParensIn(r, p)' = ParensIn(r, n)
      /\ \A k \in 1..l : Opener(p, k)' = Opener(n, k)
      /\ DepthBefore(p)' = l /\ DepthBefore(p + 1)' = l + IF Token.kind \in Openers THEN 1 ELSE 0
    BY <1>3, TokenInBlock
<1>6. /\ WithToken \in Seq(BlockRecord) /\ Len(WithToken) = l
      /\ WithToken[l].first = FALSE /\ WithToken[l].parens = ParensAfter
      /\ WithToken[l].module = blocks[l].module /\ WithToken[l].start = blocks[l].start
      /\ \A k \in 1..l : k # l => WithToken[k] = blocks[k]
    <2>1. PICK m \in Nat : m = ParensAfter
        BY <1>5
    <2>2. PICK bs : bs = WithToken
        OBVIOUS
    <2>3. PICK b \in BOOLEAN : b = FALSE
        OBVIOUS
    <2>4. blocks \in Seq(BlockRecord) /\ l \in Nat /\ l >= 1 /\ l = Len(blocks)
        BY <1>4 DEF LaidInv
    <2>5. bs = Changed(b, m)
        BY <2>1, <2>2, <2>3 DEF WithToken, Changed
    <2>6. /\ bs \in Seq(BlockRecord) /\ Len(bs) = l
          /\ bs[l].first = b /\ bs[l].parens = m
          /\ bs[l].module = blocks[l].module /\ bs[l].start = blocks[l].start
          /\ \A k \in 1..l : k # l => bs[k] = blocks[k]
        BY <2>1, <2>3, <2>4, <2>5, InnermostChanged
    <2> QED
        BY <2>1, <2>2, <2>3, <2>6
<1>7. BlockInv(l)'
    <2>1. blocks'[l] = WithToken[l]
        BY <1>4
    <2>2. OpenerOf(l)' = q
        <3>1. OpenerOf(l)' = Opener(p, l)'
            BY <1>2 DEF OpenerOf
        <3>2. Opener(p, l)' = Opener(n, l)
            BY <1>4, <1>5
        <3> QED
            BY <1>4, <3>1, <3>2
    <2>3. BlockColumn(OpenerOf(l))' = BlockColumn(q) /\ result'[OpenerOf(l)'] = result[q]
        BY <1>2, <1>4, <2>2 DEF PrefixKept, BlockColumn
    <2>4. /\ TokensIn(OpenerOf(l), Len(result))' = TokensIn(q, p)'
          /\ ParensIn(OpenerOf(l), Len(result))' = ParensIn(q, p)'
        BY <1>2, <2>2
    <2>5. result'[Len(result')].kind # ItemEnd
        BY <1>2 DEF KeptAt, Ends
    <2>6. InItem(l)'
        BY <1>5, <1>6, <2>1, <2>4, <2>5 DEF InItem
    <2> QED
        BY <1>4, <1>6, <2>1, <2>2, <2>3, <2>6 DEF BlockInv
<1>8. ASSUME NEW k \in 1..l, k # l
      PROVE  BlockInv(k)'
    <2>1. PICK r : r = Opener(n, k)
        OBVIOUS
    <2>2. r \in 1..n /\ r # q /\ BlockInv(k) /\ ~blocks[k].first
        BY <1>4, <1>8, <2>1
    <2>3. /\ TokensIn(r, p)' = TokensIn(r, n) /\ ParensIn(r, p)' = ParensIn(r, n)
          /\ Opener(p, k)' = r
        BY <1>5, <2>1, <2>2
    <2>4. blocks'[k] = blocks[k]
        BY <1>6, <1>8
    <2>5. result'[p].kind # ItemEnd
        BY <1>2 DEF KeptAt, Ends
    <2> QED
        BY <1>2, <2>1, <2>2, <2>3, <2>4, <2>5, BlockStays
<1>9. /\ \A i \in 1..p : Fits(i)'
      /\ \A i \in 1..p : DepthBefore(i)' \in Nat
    <2>1. \A i \in 1..n : Fits(i)'
        BY <1>1, <1>2, PositionsStay
    <2>2. \A i \in 1..p : DepthBefore(i)' \in Nat
        BY <1>1, <1>2, PositionsStay
    <2>3. \A i \in 1..p : i \in 1..n \/ i = p
        BY <1>2
    <2> QED
        BY <1>5, <2>1, <2>2, <2>3
<1> QED
    BY <1>4, <1>5, <1>6, <1>7, <1>8, <1>9

LEMMA TakeTokenLays ==
    ASSUME LaidInv, TakeToken
    PROVE  blocks' \in Seq(BlockRecord) /\ Laying'
<1>1. /\ InBlock /\ Rest /\ ~ItemEnds /\ ~BlockEnds /\ Token.kind \notin Openers
      /\ result' = Append(result, Kept(next)) /\ blocks' = WithToken /\ tokens' = tokens
      /\ lexing = "layout"
    BY DEF TakeToken, scanVars, InBlock, LayOut
<1>2. PICK n, p, l : n = Len(result) /\ p = n + 1 /\ l = Len(blocks)
    OBVIOUS
<1>3. n \in Nat /\ Len(result') = p
    BY <1>1, <1>2, TokenEntry
<1>4. /\ WithToken \in Seq(BlockRecord) /\ Len(WithToken) = l /\ l \in Nat
      /\ \A k \in 1..l : BlockInv(k)'
      /\ \A i \in 1..p : Fits(i)'
      /\ \A i \in 1..p : DepthBefore(i)' \in Nat
      /\ DepthBefore(p + 1)' = l
    BY <1>1, <1>2, TokenLaid
<1>5. \A i \in 1..(p + 1) : DepthBefore(i)' >= 0
    <2>1. \A i \in 1..(p + 1) : i \in 1..p \/ i = p + 1
        BY <1>2, <1>3
    <2> QED
        BY <1>4, <2>1
<1>6. Laying'
    BY <1>1, <1>3, <1>4, <1>5 DEF Laying
<1> QED
    BY <1>1, <1>4, <1>6

\* A block that was just opened: its first token comes next.
LEMMA BlockOpens ==
    ASSUME PrefixKept(Len(result)), NEW e \in Nat, e > 0, e = Len(result'),
           Opens(e)', result'[e].src + 1 = next', next' \in 1..Len(tokens),
           NEW k \in Nat, k > 0, k = Len(blocks'), DepthBefore(e)' = k - 1,
           NEW module \in BOOLEAN, module = (result'[e].kind = "module"),
           blocks'[k] = OpenedAt(next', module),
           tokens[next'].column \in Nat
    PROVE  BlockInv(k)' /\ OpenedAt(next', module) \in BlockRecord
<1>1. tokens' = tokens
    BY DEF PrefixKept
<1>2. /\ blocks'[k].start = tokens[next'].column /\ blocks'[k].first = TRUE
      /\ blocks'[k].parens = 0 /\ blocks'[k].module = module
    BY DEF OpenedAt
<1>3. PICK m \in Nat : e = m + 1
    <2>1. e - 1 \in Nat /\ e = e - 1 + 1
        OBVIOUS
    <2> QED
        BY <2>1
<1>4. OpenerOf(k)' = e
    <2>1. Opener(m + 1, k)' = m + 1
        <3>1. Opens(m + 1)' /\ DepthBefore(m + 1)' = k - 1
            BY <1>3
        <3> QED
            BY <3>1, OpenersFollowNext DEF OpenersFollow
    <2> QED
        BY <1>3, <2>1 DEF OpenerOf
<1>5. TokensIn(OpenerOf(k), Len(result))' = {}
    <2>1. TokensIn(e, e)' = {}
        <3>1. (e + 1)..e = {}
            OBVIOUS
        <3> QED
            BY <3>1 DEF TokensIn
    <2> QED
        BY <1>4, <2>1
<1>6. BlockColumn(OpenerOf(k))' = tokens[next'].column /\ result'[OpenerOf(k)'] = result'[e]
    BY <1>1, <1>4 DEF BlockColumn
<1>7. ItemAhead(k)'
    BY <1>1, <1>2, <1>5 DEF ItemAhead, Rest, Token
<1>8. BlockInv(k)'
    BY <1>2, <1>4, <1>6, <1>7 DEF BlockInv
<1>9. OpenedAt(next', module) \in BlockRecord
    BY DEF OpenedAt, BlockRecord
<1> QED
    BY <1>8, <1>9

LEMMA OpenBlockLays ==
    ASSUME LaidInv, OpenBlock, lexing' = "layout"
    PROVE  blocks' \in Seq(BlockRecord) /\ Laying'
<1>1. /\ InBlock /\ Rest /\ ~ItemEnds /\ ~BlockEnds /\ Token.kind \in Openers
      /\ next # Len(tokens) /\ result' = Append(result, Kept(next)) /\ next' = next + 1
      /\ blocks' = Append(WithToken, OpenedAt(next + 1, FALSE)) /\ tokens' = tokens
      /\ lexing = "layout"
    BY DEF OpenBlock, LexError, scanVars, InBlock, LayOut
<1>2. PICK n, p, l, bs : n = Len(result) /\ p = n + 1 /\ l = Len(blocks) /\ bs = WithToken
    OBVIOUS
<1>3. /\ PrefixKept(n) /\ n \in Nat /\ p \in Nat /\ Len(result') = p
      /\ result'[p].kind = Token.kind /\ result'[p].src = next
      /\ (Opens(p)' <=> Token.kind \in Openers \cup {"module"}) /\ next \in 1..Len(tokens)
    BY <1>1, <1>2, TokenEntry
<1>4. PICK i : i = next + 1
    OBVIOUS
<1>5. next' = i /\ i \in 1..Len(tokens) /\ tokens[i].column \in Nat
    <2>1. i \in 1..Len(tokens)
        BY <1>1, <1>3, <1>4, LayoutParts
    <2> QED
        BY <1>1, <1>4, <2>1, LayoutParts
<1>6. PICK module \in BOOLEAN : module = FALSE
    OBVIOUS
<1>7. OpenedAt(i, module) \in BlockRecord /\ blocks' = Append(bs, OpenedAt(i, module))
    BY <1>1, <1>2, <1>4, <1>5, <1>6 DEF OpenedAt, BlockRecord
<1>8. bs \in Seq(BlockRecord) /\ Len(bs) = l /\ l \in Nat
    <2>1. blocks \in Seq(BlockRecord) /\ blocks # <<>>
        BY <1>1 DEF LaidInv, InBlock
    <2>2. l \in Nat /\ l >= 1
        BY <1>2, <2>1, LenProperties, EmptySeq
    <2>3. PICK m \in Nat : m = ParensAfter
        BY <1>1, TokenInBlock
    <2>4. PICK b \in BOOLEAN : b = FALSE
        OBVIOUS
    <2>5. bs = Changed(b, m)
        BY <1>2, <2>3, <2>4 DEF WithToken, Changed
    <2> QED
        BY <1>2, <2>1, <2>2, <2>3, <2>4, <2>5, InnermostChanged
<1>9. /\ blocks' \in Seq(BlockRecord) /\ Len(blocks') = l + 1 /\ blocks'[l + 1] = OpenedAt(i, module)
      /\ \A k \in 1..l : blocks'[k] = bs[k]
    BY <1>7, <1>8, AppendProperties
<1>10. /\ \A k \in 1..l : BlockInv(k)'
       /\ \A j \in 1..p : Fits(j)'
       /\ \A j \in 1..p : DepthBefore(j)' \in Nat
       /\ DepthBefore(p)' = l /\ DepthBefore(p + 1)' = l + 1
    <2>1. \A k \in 1..l : blocks'[k] = WithToken[k]
        BY <1>2, <1>9
    <2>2. PICK q : q = OpenerAt(p)
        OBVIOUS
    <2>3. DepthBefore(p)' = l
        BY <1>1, <1>2, <2>2, TokenInBlock
    <2> QED
        BY <1>1, <1>2, <2>1, <2>3, TokenLaid
<1>11. BlockInv(l + 1)'
    <2>1. PICK k \in Nat : k = l + 1
        BY <1>8
    <2>2. PrefixKept(Len(result)) /\ p > 0 /\ p = Len(result') /\ Opens(p)' /\ result'[p].src + 1 = next'
        BY <1>1, <1>2, <1>3
    <2>3. next' \in 1..Len(tokens) /\ tokens[next'].column \in Nat /\ blocks'[k] = OpenedAt(next', module)
        BY <1>5, <1>9, <2>1
    <2>4. DepthBefore(p)' = k - 1 /\ k > 0 /\ k = Len(blocks')
        BY <1>8, <1>9, <1>10, <2>1
    <2>5. module = (result'[p].kind = "module")
        BY <1>1, <1>3, <1>6 DEF Openers
    <2>6. BlockInv(k)'
        BY <1>3, <1>6, <2>1, <2>2, <2>3, <2>4, <2>5, BlockOpens
    <2> QED
        BY <2>1, <2>6
<1>12. \A j \in 1..(p + 1) : DepthBefore(j)' >= 0
    <2>1. \A j \in 1..(p + 1) : j \in 1..p \/ j = p + 1
        BY <1>3
    <2> QED
        BY <1>8, <1>10, <2>1
<1>13. \A k \in 1..(l + 1) : BlockInv(k)'
    <2>1. \A k \in 1..(l + 1) : k \in 1..l \/ k = l + 1
        BY <1>8
    <2> QED
        BY <1>10, <1>11, <2>1
<1>14. Laying'
    BY <1>3, <1>9, <1>10, <1>12, <1>13 DEF Laying
<1> QED
    BY <1>9, <1>14

LEMMA StartModuleLays ==
    ASSUME LaidInv, StartModule, lexing' = "layout"
    PROVE  blocks' \in Seq(BlockRecord) /\ Laying'
<1>1. /\ lexing = "layout" /\ blocks = <<>> /\ Rest /\ Token.kind = "module"
      /\ result' = Append(result, Kept(next)) /\ next' = next + 1 /\ tokens' = tokens
      /\ blocks' = IF next < Len(tokens) THEN <<OpenedAt(next + 1, TRUE)>> ELSE <<>>
    BY DEF StartModule, LexError, scanVars, LayOut
<1>2. PICK n, p : n = Len(result) /\ p = n + 1
    OBVIOUS
<1>3. /\ PrefixKept(n) /\ n \in Nat /\ p \in Nat /\ Len(result') = p
      /\ result'[p].kind = "module" /\ result'[p].src = next
      /\ KeptAt(p)' /\ ~Closes(p)' /\ Opens(p)' /\ next \in 1..Len(tokens)
    BY <1>1, <1>2, TokenEntry
<1>4. DepthBefore(p) = 0
    BY <1>1, <1>2 DEF LaidInv, Laying
<1>5. OpenerAt(p) = 0
    <2>1. PICK q : q = OpenerAt(p)
        OBVIOUS
    <2>2. p \in Nat \ {0} /\ p - 1 = n
        BY <1>2, <1>3
    <2>3. q = Opener(n, 0) /\ q \in 0..n
        BY <1>4, <2>1, <2>2, BlockFactsHold DEF BlockFacts
    <2>4. q # 0 => DepthBefore(q) = 0 - 1
        BY <1>3, <2>3, BlockFactsHold DEF BlockFacts
    <2>5. q # 0 => q \in 1..(n + 1)
        BY <1>3, <2>3
    <2>6. q # 0 => DepthBefore(q) >= 0
        BY <1>1, <1>2, <2>5 DEF LaidInv, Laying
    <2> QED
        BY <2>1, <2>4, <2>6
<1>6. Fits(p)'
    <2>1. PICK q : q = OpenerAt(p)
        OBVIOUS
    <2>2. PICK col : col = tokens[result'[p].src].column
        OBVIOUS
    <2> QED
        BY <1>2, <1>3, <1>5, <2>1, <2>2, TokenFits
<1>7. DepthBefore(p)' = 0 /\ DepthBefore(p + 1)' = 1
    <2>1. DepthBefore(p)' = DepthBefore(p)
        BY <1>2, <1>3, OneMore
    <2>2. DepthBefore(n + 2)' = DepthBefore(p) + 1
        BY <1>2, <1>3, OneMore
    <2>3. n + 2 = p + 1
        BY <1>2, <1>3
    <2> QED
        BY <1>4, <2>1, <2>2, <2>3
<1>8. /\ \A i \in 1..(p + 1) : DepthBefore(i)' >= 0
      /\ \A i \in 1..p : Fits(i)'
    <2>1. (\A i \in 1..(n + 1) : DepthBefore(i)' \in Nat) /\ \A i \in 1..n : Fits(i)'
        BY <1>1, <1>2, <1>3, PositionsStay
    <2>2. \A i \in 1..(p + 1) : i \in 1..(n + 1) \/ i = p + 1
        BY <1>2, <1>3
    <2>3. \A i \in 1..p : i \in 1..n \/ i = p
        BY <1>2, <1>3
    <2> QED
        BY <1>6, <1>7, <2>1, <2>2, <2>3
<1>9. CASE next < Len(tokens)
    <2>1. PICK i : i = next + 1
        OBVIOUS
    <2>2. next' = i /\ i \in 1..Len(tokens) /\ tokens[i].column \in Nat
        <3>1. i \in 1..Len(tokens)
            BY <1>1, <1>3, <1>9, <2>1, LayoutParts
        <3> QED
            BY <1>1, <2>1, <3>1, LayoutParts
    <2>3. PICK module \in BOOLEAN : module = TRUE
        OBVIOUS
    <2>4. PICK block : block = OpenedAt(i, module)
        OBVIOUS
    <2>5. blocks' = <<block>>
        BY <1>1, <1>9, <2>1, <2>3, <2>4
    <2>6. Len(blocks') = 1 /\ blocks'[1] = block
        BY <2>5
    <2>7. BlockInv(1)' /\ block \in BlockRecord
        <3>1. PICK k \in Nat : k = 1
            OBVIOUS
        <3>2. PrefixKept(Len(result)) /\ p > 0 /\ p = Len(result') /\ Opens(p)' /\ result'[p].src + 1 = next'
            BY <1>1, <1>2, <1>3
        <3>3. next' \in 1..Len(tokens) /\ tokens[next'].column \in Nat /\ blocks'[k] = OpenedAt(next', module)
            BY <2>2, <2>4, <2>6, <3>1
        <3>4. DepthBefore(p)' = k - 1 /\ k > 0 /\ k = Len(blocks')
            BY <1>7, <2>6, <3>1
        <3>5. module = (result'[p].kind = "module")
            BY <1>3, <2>3
        <3>6. BlockInv(k)' /\ OpenedAt(next', module) \in BlockRecord
            BY <1>3, <2>3, <3>1, <3>2, <3>3, <3>4, <3>5, BlockOpens
        <3> QED
            BY <2>2, <2>4, <3>1, <3>6
    <2>8. blocks' \in Seq(BlockRecord)
        BY <2>5, <2>7
    <2>9. \A k \in 1..Len(blocks') : BlockInv(k)'
        BY <2>6, <2>7
    <2> QED
        BY <1>3, <1>7, <1>8, <2>6, <2>8, <2>9 DEF Laying
<1>10. CASE ~(next < Len(tokens))
    <2>1. blocks' = <<>> /\ Len(blocks') = 0 /\ blocks' \in Seq(BlockRecord)
        BY <1>1, <1>10, EmptySeq
    <2>2. ~Rest'
        BY <1>1, <1>3, <1>10, LayoutParts DEF Rest
    <2> QED
        BY <1>3, <1>8, <2>1, <2>2 DEF Laying
<1> QED
    BY <1>9, <1>10

\* Without another entry everything stays.
LEMMA NothingAdded ==
    ASSUME NEW n, PrefixKept(n)
    PROVE  /\ DepthBefore(n + 1)' = DepthBefore(n + 1)
           /\ \A k : Opener(n, k)' = Opener(n, k)
           /\ \A q \in 1..n : TokensIn(q, n)' = TokensIn(q, n) /\ ParensIn(q, n)' = ParensIn(q, n)
<1>1. n \in Nat /\ (\A i \in 1..n : result'[i] = result[i]) /\ tokens' = tokens
    BY DEF PrefixKept
<1>2. n \in 0..n /\ n + 1 \in 1..(n + 1) /\ \A q \in 1..n : q \in Nat
    BY <1>1
<1> QED
    BY <1>1, <1>2, PrefixDepths, PrefixItems

LEMMA EndEntry ==
    ASSUME NEW S, result \in Seq(S), tokens' = tokens,
           NEW kind \in Ends, NEW src, result' = Append(result, End(kind, src)),
           NEW n, n = Len(result)
    PROVE  /\ PrefixKept(n) /\ n \in Nat /\ Len(result') = n + 1
           /\ result'[n + 1].kind = kind /\ result'[n + 1].src = src /\ ~KeptAt(n + 1)'
<1>1. n \in Nat
    BY LenProperties
<1>2. Len(result') = n + 1 /\ (\A i \in 1..n : result'[i] = result[i]) /\ result'[n + 1] = End(kind, src)
    BY Appended
<1>3. result'[n + 1].kind = kind /\ result'[n + 1].src = src
    <2>1. End(kind, src).kind = kind /\ End(kind, src).src = src
        BY DEF End
    <2> QED
        BY <1>2, <2>1
<1>4. PrefixKept(n)
    BY <1>1, <1>2 DEF PrefixKept
<1>5. ~KeptAt(n + 1)'
    BY <1>3 DEF KeptAt
<1> QED
    BY <1>1, <1>2, <1>3, <1>4, <1>5

LEMMA NextItemLays ==
    ASSUME LaidInv, NextItem
    PROVE  blocks' \in Seq(BlockRecord) /\ Laying'
<1>1. /\ lexing = "layout" /\ blocks # <<>> /\ Rest /\ ItemEnds /\ Token.column = Innermost.start
      /\ result' = (IF Innermost.module THEN result ELSE Append(result, End(ItemEnd, LastSrc)))
      /\ next' = next /\ tokens' = tokens
    BY DEF NextItem, scanVars, InBlock, LayOut
<1>2. PICK n, l, q, e, bs :
        n = Len(result) /\ l = Len(blocks) /\ q = OpenerAt(n + 1) /\ e = Len(result') /\ bs = blocks'
    OBVIOUS
<1>3. /\ l \in Nat /\ l >= 1 /\ n >= 1 /\ q \in 1..n /\ q = Opener(n, l) /\ DepthBefore(n + 1) = l
      /\ Innermost = blocks[l] /\ blocks[l] \in BlockRecord
      /\ blocks[l].start = BlockColumn(q) /\ blocks[l].module = (result[q].kind = "module")
      /\ \A k \in 1..l : k # l =>
            BlockInv(k) /\ ~blocks[k].first /\ Opener(n, k) \in 1..n /\ Opener(n, k) # q
    BY <1>1, <1>2, InnermostParts
<1>4. PICK S : result \in Seq(S)
    BY DEF LaidInv, LexInv
<1>5. n \in Nat
    BY <1>2, <1>4, LenProperties
<1>6. /\ blocks' \in Seq(BlockRecord) /\ Len(blocks') = l
      /\ blocks'[l].first = TRUE /\ blocks'[l].parens = 0
      /\ blocks'[l].module = blocks[l].module /\ blocks'[l].start = blocks[l].start
      /\ \A k \in 1..l : k # l => blocks'[k] = blocks[k]
    <2>1. PICK m \in Nat : m = 0
        OBVIOUS
    <2>2. PICK b \in BOOLEAN : b = TRUE
        OBVIOUS
    <2>3. bs = Changed(b, m)
        BY <1>2, <2>1, <2>2 DEF NextItem, Changed
    <2>4. blocks \in Seq(BlockRecord) /\ l \in Nat /\ l >= 1 /\ l = Len(blocks)
        BY <1>2, <1>3 DEF LaidInv
    <2>5. /\ bs \in Seq(BlockRecord) /\ Len(bs) = l
          /\ bs[l].first = b /\ bs[l].parens = m
          /\ bs[l].module = blocks[l].module /\ bs[l].start = blocks[l].start
          /\ \A k \in 1..l : k # l => bs[k] = blocks[k]
        <3>1. m \in Nat /\ b \in BOOLEAN
            BY <2>1, <2>2
        <3> QED
            BY <2>3, <2>4, <3>1, InnermostChanged
    <2> QED
        BY <1>2, <2>1, <2>2, <2>5
<1>7. /\ PrefixKept(n) /\ e \in {n, n + 1} /\ (~Innermost.module => result'[e].kind = ItemEnd)
      /\ \A i \in (n + 1)..e : Fits(i)'
      /\ \A k : Opener(e, k)' = Opener(n, k)
      /\ \A r \in 1..n : TokensIn(r, e)' = TokensIn(r, n) /\ ParensIn(r, e)' = ParensIn(r, n)
      /\ DepthBefore(e + 1)' = l
    <2>1. CASE Innermost.module
        <3>1. PrefixKept(n) /\ e = n
            BY <1>1, <1>2, <1>5, <2>1 DEF PrefixKept
        <3>2. (n + 1)..e = {}
            BY <1>5, <3>1
        <3> QED
            BY <1>3, <2>1, <3>1, <3>2, NothingAdded
    <2>2. CASE ~Innermost.module
        <3>1. PICK kind \in Ends : kind = ItemEnd
            BY DEF Ends
        <3>2. PICK src : src = LastSrc
            OBVIOUS
        <3>3. result' = Append(result, End(kind, src))
            BY <1>1, <2>2, <3>1, <3>2
        <3>4. PrefixKept(n) /\ e = n + 1 /\ result'[n + 1].kind = ItemEnd /\ ~KeptAt(n + 1)'
            BY <1>1, <1>2, <1>4, <3>1, <3>3, EndEntry
        <3>5. /\ e \in {n + 1, n + 2} /\ (\A i \in (n + 1)..e : ~KeptAt(i)') /\ e # n + 2
              /\ \A i \in (n + 1)..e : i = n + 1
            BY <1>5, <3>4
        <3>6. ~Closes(e)' /\ result'[e].kind # BlockEnd
            BY <3>4 DEF Closes, ItemEnd, BlockEnd, ModuleEnd
        <3>7. DepthBefore(e + 1)' = l
            <4>1. DepthBefore(e + 1)' = DepthBefore(n + 1) - IF Closes(e)' THEN 1 ELSE 0
                BY <3>4, <3>5, Ended
            <4> QED
                BY <1>3, <3>6, <4>1
        <3>8. /\ \A k : Opener(e, k)' = Opener(n, k)
              /\ \A r \in 1..n : TokensIn(r, e)' = TokensIn(r, n) /\ ParensIn(r, e)' = ParensIn(r, n)
            BY <3>4, <3>5, Ended
        <3>9. Fits(e)'
            <4>1. PICK after : after = result'[e].src + 1
                OBVIOUS
            <4> QED
                BY <1>2, <3>4, <3>5, <3>6, <4>1, EndFits
        <3> QED
            BY <2>2, <3>4, <3>5, <3>7, <3>8, <3>9
    <2> QED
        BY <2>1, <2>2
<1>8. BlockInv(l)'
    <2>1. OpenerOf(l)' = q
        BY <1>2, <1>3, <1>7 DEF OpenerOf
    <2>2. BlockColumn(OpenerOf(l))' = BlockColumn(q) /\ result'[OpenerOf(l)'] = result[q]
        BY <1>3, <1>7, <2>1 DEF PrefixKept, BlockColumn
    <2>3. ItemAhead(l)'
        <3>1. Rest' /\ Token.column' = Token.column
            BY <1>1 DEF Rest, Token
        <3>2. Token.column = blocks[l].start
            BY <1>1, <1>3
        <3>3. ~blocks[l].module => result'[Len(result')].kind = ItemEnd
            BY <1>2, <1>3, <1>7
        <3> QED
            BY <1>6, <3>1, <3>2, <3>3 DEF ItemAhead
    <2> QED
        BY <1>3, <1>6, <2>1, <2>2, <2>3 DEF BlockInv
<1>9. ASSUME NEW k \in 1..l, k # l
      PROVE  BlockInv(k)'
    <2>1. PICK r : r = Opener(n, k)
        OBVIOUS
    <2>2. r \in 1..n /\ r # q /\ BlockInv(k) /\ ~blocks[k].first
        BY <1>3, <1>9, <2>1
    <2>3. TokensIn(r, e)' = TokensIn(r, n) /\ ParensIn(r, e)' = ParensIn(r, n) /\ Opener(e, k)' = r
        BY <1>7, <2>1, <2>2
    <2>4. blocks'[k] = blocks[k] /\ k # Len(blocks')
        BY <1>6, <1>9
    <2> QED
        BY <1>2, <1>7, <2>1, <2>2, <2>3, <2>4, BlockStays
<1>10. /\ \A i \in 1..(e + 1) : DepthBefore(i)' >= 0
       /\ \A i \in 1..e : Fits(i)'
    <2>1. (\A i \in 1..(n + 1) : DepthBefore(i)' \in Nat) /\ \A i \in 1..n : Fits(i)'
        BY <1>1, <1>2, <1>7, PositionsStay
    <2>2. \A i \in 1..(e + 1) : i \in 1..(n + 1) \/ i = e + 1
        BY <1>5, <1>7
    <2>3. \A i \in 1..e : i \in 1..n \/ i \in (n + 1)..e
        BY <1>5, <1>7
    <2> QED
        BY <1>3, <1>7, <2>1, <2>2, <2>3
<1>11. Laying'
    <2>1. \A k \in 1..Len(blocks') : BlockInv(k)'
        BY <1>6, <1>8, <1>9
    <2> QED
        BY <1>2, <1>6, <1>7, <1>10, <2>1 DEF Laying
<1> QED
    BY <1>6, <1>11

\* What the end of a block adds.
LEMMA EndBlockEntries ==
    ASSUME LaidInv, EndBlock, NEW n, n = Len(result), NEW e, e = Len(result')
    PROVE  /\ PrefixKept(n) /\ n \in Nat /\ e \in {n + 1, n + 2}
           /\ \A i \in (n + 1)..e : ~KeptAt(i)'
           /\ e = n + 2 => result'[n + 1].kind = ItemEnd
           /\ Closes(e)' /\ result'[e].src = LastSrc /\ result'[e].kind # ItemEnd
           /\ result'[e].kind = BlockEnd /\ e = n + 1 => ClosedByModule
<1>1. /\ tokens' = tokens
      /\ result' = IF Innermost.module THEN Append(result, End(ModuleEnd, LastSrc))
                   ELSE result \o (IF ClosedByModule THEN <<>> ELSE <<End(ItemEnd, LastSrc)>>)
                               \o <<End(BlockEnd, LastSrc)>>
    BY DEF EndBlock, scanVars
<1>2. PICK S : result \in Seq(S)
    BY DEF LaidInv, LexInv
<1>3. n \in Nat
    BY <1>2, LenProperties
<1>4. ModuleEnd \in Ends /\ BlockEnd \in Ends /\ ItemEnd \in Ends /\ ItemEnd # BlockEnd /\ ItemEnd # ModuleEnd
      /\ BlockEnd # ModuleEnd
    BY DEF Ends, ItemEnd, BlockEnd, ModuleEnd
<1>5. PICK src : src = LastSrc
    OBVIOUS
<1>6. ASSUME NEW kind \in {BlockEnd, ModuleEnd}, result' = Append(result, End(kind, src)),
             kind = BlockEnd => ClosedByModule
      PROVE  /\ PrefixKept(n) /\ e = n + 1
             /\ \A i \in (n + 1)..e : ~KeptAt(i)'
             /\ Closes(e)' /\ result'[e].src = LastSrc /\ result'[e].kind # ItemEnd
             /\ result'[e].kind = BlockEnd => ClosedByModule
    <2>1. kind \in Ends
        BY <1>4
    <2>2. /\ PrefixKept(n) /\ e = n + 1 /\ result'[n + 1].kind = kind /\ result'[n + 1].src = src
          /\ ~KeptAt(n + 1)'
        BY <1>1, <1>2, <1>6, <2>1, EndEntry
    <2>3. \A i \in (n + 1)..e : i = n + 1
        BY <1>3, <2>2
    <2>4. Closes(e)'
        BY <2>2 DEF Closes
    <2> QED
        BY <1>4, <1>5, <1>6, <2>2, <2>3, <2>4
<1>7. CASE Innermost.module
    <2>1. PICK kind \in {BlockEnd, ModuleEnd} : kind = ModuleEnd
        OBVIOUS
    <2>2. result' = Append(result, End(kind, src)) /\ kind # BlockEnd
        BY <1>1, <1>4, <1>5, <1>7, <2>1
    <2>3. /\ PrefixKept(n) /\ e = n + 1
          /\ \A i \in (n + 1)..e : ~KeptAt(i)'
          /\ Closes(e)' /\ result'[e].src = LastSrc /\ result'[e].kind # ItemEnd
          /\ result'[e].kind = BlockEnd => ClosedByModule
        BY <1>6, <2>2
    <2> QED
        BY <1>3, <2>3
<1>8. CASE ~Innermost.module /\ ClosedByModule
    <2>1. PICK kind \in {BlockEnd, ModuleEnd} : kind = BlockEnd
        OBVIOUS
    <2>2. PICK end : end = End(kind, src)
        OBVIOUS
    <2>3. result' = result \o <<>> \o <<end>>
        BY <1>1, <1>5, <1>8, <2>1, <2>2
    <2>4. result' = Append(result, end)
        BY <1>2, <2>3
    <2>5. /\ PrefixKept(n) /\ e = n + 1
          /\ \A i \in (n + 1)..e : ~KeptAt(i)'
          /\ Closes(e)' /\ result'[e].src = LastSrc /\ result'[e].kind # ItemEnd
          /\ result'[e].kind = BlockEnd => ClosedByModule
        BY <1>6, <1>8, <2>2, <2>4
    <2> QED
        BY <1>3, <2>5
<1>9. CASE ~Innermost.module /\ ~ClosedByModule
    <2>1. PICK item, block : item = End(ItemEnd, src) /\ block = End(BlockEnd, src)
        OBVIOUS
    <2>2. result' = result \o <<item>> \o <<block>>
        BY <1>1, <1>5, <1>9, <2>1
    <2>3. /\ e = n + 2 /\ \A i \in 1..n : result'[i] = result[i]
          /\ result'[n + 1] = item /\ result'[n + 2] = block
        <3> DEFINE T == S \cup {item, block}
        <3>1. result \in Seq(T) /\ item \in T /\ block \in T
            BY <1>2
        <3>2. <<item>> \in Seq(T) /\ <<block>> \in Seq(T)
            BY <3>1
        <3>3. /\ result \o <<item>> \in Seq(T)
              /\ Len(result \o <<item>>) = n + 1
              /\ \A i \in 1..n : (result \o <<item>>)[i] = result[i]
              /\ (result \o <<item>>)[n + 1] = item
            BY <3>1, <3>2
        <3> QED
            BY <2>2, <3>2, <3>3
    <2>4. item.kind = ItemEnd /\ block.kind = BlockEnd /\ block.src = src
        BY <2>1 DEF End
    <2>5. PrefixKept(n)
        BY <1>1, <1>3, <2>3 DEF PrefixKept
    <2>6. result'[n + 1].kind = ItemEnd /\ result'[e].kind = BlockEnd /\ result'[e].src = LastSrc
        BY <1>5, <2>3, <2>4
    <2>7. ~KeptAt(n + 1)' /\ ~KeptAt(e)' /\ Closes(e)'
        BY <1>4, <2>6 DEF KeptAt, Closes
    <2>8. \A i \in (n + 1)..e : i = n + 1 \/ i = e
        BY <1>3, <2>3
    <2> QED
        BY <1>3, <1>4, <2>3, <2>5, <2>6, <2>7, <2>8
<1> QED
    BY <1>7, <1>8, <1>9

LEMMA EndBlockLays ==
    ASSUME LaidInv, EndBlock
    PROVE  blocks' \in Seq(BlockRecord) /\ Laying'
<1>1. /\ lexing = "layout" /\ blocks # <<>> /\ BlockEnds
      /\ ~(Rest /\ ItemEnds /\ Token.column = Innermost.start)
      /\ blocks' = Outer /\ tokens' = tokens
    BY DEF EndBlock, scanVars, InBlock, LayOut
<1>2. PICK n, l, q, e : n = Len(result) /\ l = Len(blocks) /\ q = OpenerAt(n + 1) /\ e = Len(result')
    OBVIOUS
<1>3. /\ l \in Nat /\ l >= 1 /\ n >= 1 /\ q \in 1..n /\ q = Opener(n, l) /\ DepthBefore(n + 1) = l
      /\ LastSrc = next - 1 /\ Innermost = blocks[l] /\ blocks[l] \in BlockRecord
      /\ blocks[l].start = BlockColumn(q)
      /\ blocks[l].first => Token.column = blocks[l].start
      /\ ~blocks[l].first => blocks[l].parens = ParensIn(q, n)
      /\ \A k \in 1..l : k # l =>
            BlockInv(k) /\ ~blocks[k].first /\ Opener(n, k) \in 1..n /\ Opener(n, k) # q
    BY <1>1, <1>2, InnermostParts
<1>4. /\ PrefixKept(n) /\ n \in Nat /\ e \in {n + 1, n + 2}
      /\ \A i \in (n + 1)..e : ~KeptAt(i)'
      /\ e = n + 2 => result'[n + 1].kind = ItemEnd
      /\ Closes(e)' /\ result'[e].src = LastSrc /\ result'[e].kind # ItemEnd
      /\ result'[e].kind = BlockEnd /\ e = n + 1 => ClosedByModule
    BY <1>2, EndBlockEntries
<1>5. e = n + 2 => ~Closes(n + 1)'
    BY <1>4 DEF Closes, ItemEnd, BlockEnd, ModuleEnd
<1>6. /\ DepthBefore(e)' = l /\ DepthBefore(e + 1)' = l - 1
      /\ \A k : Opener(e, k)' = Opener(n, k)
      /\ \A r \in 1..n : TokensIn(r, e)' = TokensIn(r, n) /\ ParensIn(r, e)' = ParensIn(r, n)
    <2>1. DepthBefore(e)' = DepthBefore(n + 1)
          /\ DepthBefore(e + 1)' = DepthBefore(n + 1) - IF Closes(e)' THEN 1 ELSE 0
        BY <1>4, <1>5, Ended
    <2>2. /\ \A k : Opener(e, k)' = Opener(n, k)
          /\ \A r \in 1..n : TokensIn(r, e)' = TokensIn(r, n) /\ ParensIn(r, e)' = ParensIn(r, n)
        BY <1>4, <1>5, Ended
    <2> QED
        BY <1>3, <1>4, <2>1, <2>2
<1>7. Len(tokens) \in Nat /\ next \in 1..(Len(tokens) + 1)
    BY <1>1, <1>2, LayoutParts
<1>8. Fits(e)'
    <2>1. PICK after : after = result'[e].src + 1
        OBVIOUS
    <2>2. after = next
        BY <1>3, <1>4, <1>7, <2>1
    <2>3. \/ after > Len(tokens)
          \/ tokens[after].column < BlockColumn(q)
          \/ tokens[after].kind = "module"
          \/ /\ tokens[after].kind = ")"
             /\ ParensIn(q, n) = 0 \/ tokens[after].column = BlockColumn(q)
        <3>1. CASE ~Rest
            BY <1>7, <2>2, <3>1 DEF Rest
        <3>2. CASE Rest /\ ItemEnds /\ Token.column < Innermost.start
            BY <1>3, <2>2, <3>2 DEF Token
        <3>3. CASE Rest /\ Token.kind = "module"
            BY <2>2, <3>3 DEF Token
        <3>4. CASE Rest /\ Token.kind = ")" /\ Innermost.parens = 0
            BY <1>3, <2>2, <3>4 DEF Token
        <3> QED
            BY <1>1, <3>1, <3>2, <3>3, <3>4 DEF BlockEnds
    <2>4. result'[e].kind = BlockEnd /\ result'[e - 1].kind # ItemEnd =>
            result'[e].src < Len(tokens) /\ tokens[after].kind = "module"
        <3> SUFFICES ASSUME result'[e].kind = BlockEnd, result'[e - 1].kind # ItemEnd
                     PROVE  result'[e].src < Len(tokens) /\ tokens[after].kind = "module"
            OBVIOUS
        <3>1. e = n + 1
            <4>1. e = n + 2 => e - 1 = n + 1
                BY <1>4
            <4> QED
                BY <1>4, <4>1
        <3>2. Rest /\ Token.kind = "module"
            BY <1>4, <3>1 DEF ClosedByModule
        <3> QED
            BY <1>3, <1>4, <1>7, <2>2, <3>2 DEF Rest, Token
    <2>5. q # 0
        BY <1>3
    <2> QED
        BY <1>2, <1>4, <1>5, <2>1, <2>3, <2>4, <2>5, EndFits
<1>9. e = n + 2 => Fits(n + 1)'
    <2> SUFFICES ASSUME e = n + 2
                 PROVE  Fits(n + 1)'
        OBVIOUS
    <2>1. PICK p, after : p = n + 1 /\ after = result'[p].src + 1
        OBVIOUS
    <2>2. /\ p \in {n + 1, n + 2} /\ p # n + 2 /\ ~Closes(p)' /\ result'[p].kind # BlockEnd
          /\ \A i \in (n + 1)..p : ~KeptAt(i)'
        <3>1. p \in {n + 1, n + 2} /\ p # n + 2 /\ \A i \in (n + 1)..p : i \in (n + 1)..e
            BY <1>4, <2>1
        <3>2. result'[p].kind # BlockEnd
            BY <1>4, <2>1 DEF ItemEnd, BlockEnd
        <3> QED
            BY <1>4, <1>5, <2>1, <3>1, <3>2
    <2>3. Fits(p)'
        BY <1>2, <1>4, <2>1, <2>2, EndFits
    <2> QED
        BY <2>1, <2>3
<1>10. /\ \A i \in 1..(e + 1) : DepthBefore(i)' >= 0
       /\ \A i \in 1..e : Fits(i)'
    <2>1. (\A i \in 1..(n + 1) : DepthBefore(i)' \in Nat) /\ \A i \in 1..n : Fits(i)'
        BY <1>1, <1>2, <1>4, PositionsStay
    <2>2. \A i \in 1..(e + 1) : i \in 1..(n + 1) \/ i = e \/ i = e + 1
        BY <1>4
    <2>3. \A i \in 1..e : i \in 1..n \/ i = e \/ (e = n + 2 /\ i = n + 1)
        BY <1>4
    <2> QED
        BY <1>3, <1>6, <1>8, <1>9, <2>1, <2>2, <2>3
<1>11. /\ blocks' \in Seq(BlockRecord) /\ Len(blocks') = l - 1
       /\ \A k \in 1..(l - 1) : blocks'[k] = blocks[k]
    <2>1. blocks \in Seq(BlockRecord) /\ blocks' = SubSeq(blocks, 1, l - 1) /\ l = Len(blocks)
        BY <1>1, <1>2 DEF LaidInv, Outer
    <2>2. l - 1 \in Nat /\ 1..(l - 1) \subseteq 1..l
        BY <1>3
    <2> QED
        BY <1>3, <2>1, <2>2, SubSeqProperties
<1>12. ASSUME NEW k \in 1..(l - 1)
       PROVE  BlockInv(k)'
    <2>1. PICK r : r = Opener(n, k)
        OBVIOUS
    <2>2. k \in 1..l /\ k # l
        BY <1>3
    <2>3. r \in 1..n /\ r # q /\ BlockInv(k) /\ ~blocks[k].first
        BY <1>3, <2>1, <2>2
    <2>4. TokensIn(r, e)' = TokensIn(r, n) /\ ParensIn(r, e)' = ParensIn(r, n) /\ Opener(e, k)' = r
        BY <1>6, <2>1, <2>3
    <2>5. blocks'[k] = blocks[k]
        BY <1>11
    <2> QED
        BY <1>2, <1>4, <2>1, <2>3, <2>4, <2>5, BlockStays
<1>13. Laying'
    BY <1>2, <1>6, <1>10, <1>11, <1>12 DEF Laying
<1> QED
    BY <1>11, <1>13

LEMMA EndProgramLays ==
    ASSUME LaidInv, EndProgram, lexing' = "merging"
    PROVE  (\A p \in Positions : Fits(p))'
<1>1. /\ lexing = "layout" /\ result' = Append(result, End(ModuleEnd, LastSrc)) /\ tokens' = tokens
    BY DEF EndProgram, scanVars, LayOut
<1>2. PICK n : n = Len(result)
    OBVIOUS
<1>3. PICK S : result \in Seq(S)
    BY DEF LaidInv, LexInv
<1>4. PICK kind \in Ends : kind = ModuleEnd
    BY DEF Ends
<1>5. PrefixKept(n) /\ n \in Nat /\ Len(result') = n + 1
    BY <1>1, <1>2, <1>3, <1>4, EndEntry
<1>6. \A p \in 1..n : Fits(p)'
    BY <1>1, <1>2, <1>5, PositionsStay
<1>7. Positions' = 1..n
    BY <1>5 DEF Positions
<1> QED
    BY <1>6, <1>7

-----------------------------------------------------------------------------
(* All steps. *)

LEMMA LaidInit == LexInit => LaidInv
<1> SUFFICES ASSUME LexInit
             PROVE  LaidInv
    OBVIOUS
<1>1. /\ text \in Texts /\ index = 1 /\ column = 0 /\ comment = <<>> /\ tokens = <<>>
      /\ lexing = "scanning" /\ blocks = <<>>
    BY DEF LexInit
<1>2. LexInv
    BY LexInitInv
<1>3. ColumnInv
    <2>1. CommentInv
        BY LexInitComment
    <2> QED
        BY <1>1, <2>1 DEF CommentInv, ColumnInv
<1>4. blocks \in Seq(BlockRecord)
    BY <1>1, EmptySeq
<1> QED
    BY <1>1, <1>2, <1>3, <1>4 DEF LaidInv

LEMMA DepthStartNext == (DepthBefore(1) = 0)'
BY DepthStart, PTL

\* The layout pass begins.
LEMMA LayoutBegins ==
    ASSUME LexInv, lexing = "scanning", UNCHANGED layoutVars
    PROVE  Laying'
<1>1. result' = <<>> /\ blocks' = <<>> /\ Len(result') = 0 /\ Len(blocks') = 0
    BY DEF LexInv, layoutVars
<1>2. \A p \in 1..(Len(result') + 1) : p = 1
    BY <1>1
<1>3. DepthBefore(1)' = 0 /\ Len(result') + 1 = 1
    BY <1>1, DepthStartNext
<1> QED
    BY <1>1, <1>2, <1>3 DEF Laying

\* A step that changes nothing of what is laid out.
LEMMA LayingStays ==
    ASSUME LaidInv, UNCHANGED <<tokens, next, blocks, result>>
    PROVE  /\ lexing = "layout" => Laying'
           /\ lexing = "merging" => (\A p \in Positions : Fits(p))'
<1>1. PICK S : result \in Seq(S)
    BY DEF LaidInv, LexInv
<1>2. PICK n : n = Len(result)
    OBVIOUS
<1>3. n \in Nat /\ PrefixKept(n) /\ Len(result') = n
    BY <1>1, <1>2, LenProperties DEF PrefixKept
<1>4. ASSUME lexing = "layout"
      PROVE  Laying'
    <2>1. /\ DepthBefore(n + 1)' = DepthBefore(n + 1)
          /\ \A k : Opener(n, k)' = Opener(n, k)
          /\ \A q \in 1..n : TokensIn(q, n)' = TokensIn(q, n) /\ ParensIn(q, n)' = ParensIn(q, n)
        BY <1>3, NothingAdded
    <2>2. (\A i \in 1..(n + 1) : DepthBefore(i)' \in Nat) /\ \A i \in 1..n : Fits(i)'
        BY <1>2, <1>3, <1>4, PositionsStay
    <2>3. Rest' = Rest /\ Token' = Token
        BY DEF Rest, Token
    <2>4. ASSUME NEW k \in 1..Len(blocks)
          PROVE  BlockInv(k)'
        <3>1. BlockInv(k)
            BY <1>4 DEF LaidInv, Laying
        <3>2. PICK q : q = OpenerOf(k)
            OBVIOUS
        <3>3. OpenerOf(k)' = q
            BY <1>2, <1>3, <2>1, <3>2 DEF OpenerOf
        <3>4. q \in 1..n
            <4>1. q \in 0..n
                BY <1>2, <1>3, <3>2, BlockFactsHold DEF BlockFacts, OpenerOf
            <4> QED
                BY <3>1, <3>2, <4>1 DEF BlockInv
        <3>5. BlockColumn(OpenerOf(k))' = BlockColumn(q)
            BY <3>3 DEF BlockColumn
        <3>6. /\ TokensIn(OpenerOf(k), Len(result))' = TokensIn(q, n)
              /\ ParensIn(OpenerOf(k), Len(result))' = ParensIn(q, n)
            <4>1. /\ TokensIn(OpenerOf(k), Len(result))' = TokensIn(q, n)'
                  /\ ParensIn(OpenerOf(k), Len(result))' = ParensIn(q, n)'
                BY <1>3, <3>3
            <4> QED
                BY <2>1, <3>4, <4>1
        <3>7. /\ TokensIn(OpenerOf(k), Len(result)) = TokensIn(q, n)
              /\ ParensIn(OpenerOf(k), Len(result)) = ParensIn(q, n)
            BY <1>2, <3>2
        <3>8. ItemAhead(k) => ItemAhead(k)'
            BY <2>3, <3>6, <3>7 DEF ItemAhead
        <3>9. InItem(k) => InItem(k)'
            BY <3>6, <3>7 DEF InItem
        <3> QED
            BY <3>1, <3>2, <3>3, <3>5, <3>8, <3>9 DEF BlockInv
    <2>5. Rest \/ blocks # <<>> => DepthBefore(n + 1) = Len(blocks)
        BY <1>2, <1>4 DEF LaidInv, Laying
    <2> QED
        BY <1>3, <2>1, <2>2, <2>3, <2>4, <2>5 DEF Laying
<1>5. ASSUME lexing = "merging"
      PROVE  (\A p \in Positions : Fits(p))'
    <2>1. Positions' = Positions /\ \A p \in Positions : p \in 1..n
        BY <1>2, <1>3 DEF Positions
    <2>2. \A p \in 1..n : Fits(p)' = Fits(p)
        BY <1>3, PrefixItems DEF PrefixKept
    <2>3. \A p \in Positions : Fits(p)
        BY <1>5 DEF LaidInv
    <2> QED
        BY <2>1, <2>2, <2>3
<1> QED
    BY <1>4, <1>5

LEMMA NextLaid ==
    ASSUME LaidInv, [LexNext]_lexVars
    PROVE  LaidInv'
<1>1. LexInv' /\ ColumnInv'
    <2>1. \E S : tokens \in Seq(S)
        BY DEF LaidInv, LexInv
    <2> QED
        BY <2>1, LexNextInv, NextColumn DEF LaidInv
<1> DEFINE Laid == /\ blocks' \in Seq(BlockRecord)
                   /\ lexing' = "layout" => Laying'
                   /\ lexing' = "merging" => (\A p \in Positions : Fits(p))'
<1> SUFFICES Laid
    BY <1>1 DEF LaidInv
<1>2. CASE Scan
    <2>1. UNCHANGED layoutVars /\ lexing = "scanning" /\ lexing' # "merging"
        BY <1>2 DEF Scan, CollectIdentifier, CollectOperator, LineComment, StartBlockComment, CommentStep,
                    ReadFirst, StringLiteral, Symbol, SkipBlank, UnsupportedCharacter, EndOfText, Scanning,
                    AddToken, LexError, Skip
    <2>2. Laying'
        BY <2>1, LayoutBegins DEF LaidInv
    <2>3. blocks' \in Seq(BlockRecord)
        BY <2>1 DEF LaidInv, layoutVars
    <2> QED
        BY <2>1, <2>2, <2>3
<1>3. CASE StartModule
    <2>1. lexing = "layout"
        BY <1>3 DEF StartModule, LayOut
    <2>2. CASE lexing' = "layout"
        BY <1>3, <2>2, StartModuleLays
    <2>3. CASE lexing' # "layout"
        <3>1. blocks' = blocks /\ lexing' = "failed"
            BY <1>3, <2>1, <2>3 DEF StartModule, LexError, layoutVars
        <3> QED
            BY <2>3, <3>1 DEF LaidInv
    <2> QED
        BY <2>2, <2>3
<1>4. CASE OpenBlock
    <2>1. lexing = "layout"
        BY <1>4 DEF OpenBlock, InBlock, LayOut
    <2>2. CASE lexing' = "layout"
        BY <1>4, <2>2, OpenBlockLays
    <2>3. CASE lexing' # "layout"
        <3>1. blocks' = blocks /\ lexing' = "failed"
            BY <1>4, <2>1, <2>3 DEF OpenBlock, LexError, layoutVars
        <3> QED
            BY <2>3, <3>1 DEF LaidInv
    <2> QED
        BY <2>2, <2>3
<1>5. CASE NextItem \/ EndBlock \/ TakeToken
    <2>1. lexing' # "merging"
        BY <1>5 DEF NextItem, EndBlock, TakeToken, InBlock, LayOut
    <2> QED
        BY <1>5, <2>1, NextItemLays, EndBlockLays, TakeTokenLays
<1>6. CASE EndProgram
    <2>1. lexing' \in {"merging", "panicked"} /\ blocks' = blocks
        BY <1>6 DEF EndProgram
    <2> QED
        BY <1>6, <2>1, EndProgramLays DEF LaidInv
<1>7. CASE MergeNumbers
    <2>1. lexing' \in {"failed", "lexed"} /\ blocks' = blocks
        BY <1>7 DEF MergeNumbers, layoutVars
    <2> QED
        BY <2>1 DEF LaidInv
<1>8. CASE UNCHANGED lexVars
    <2>1. UNCHANGED <<tokens, next, blocks, result, lexing>>
        BY <1>8 DEF lexVars, scanVars, layoutVars
    <2> QED
        BY <2>1, LayingStays DEF LaidInv
<1> QED
    BY <1>2, <1>3, <1>4, <1>5, <1>6, <1>7, <1>8 DEF LexNext, Layout

-----------------------------------------------------------------------------
(* What the property says of the finished result is what the invariant     *)
(* says of it.                                                             *)

\* A function on the first numbers, made a sequence.
LEMMA AsSequence ==
    ASSUME NEW n \in Nat, NEW f, f = [p \in 1..n |-> f[p]]
    PROVE  <<>> \o f = f
<1> DEFINE S == {f[p] : p \in 1..n}
<1>1. f \in Seq(S)
    <2>1. f \in [1..n -> S]
        OBVIOUS
    <2> QED
        BY <2>1
<1> HIDE DEF S
<1> QED
    BY <1>1, ConcatEmptySeq

LEMMA OpeningsAre ==
    ASSUME NEW n \in Nat, Positions = 1..n
    PROVE  \A p \in Positions : Openings[p] = OpenerAt(p)
<1> DEFINE d == [p \in Positions |-> DepthBefore(p)]
           f == [p \in Positions |-> Max({0} \cup {q \in 1..(p - 1) : Opens(q) /\ d[q] = d[p] - 1})]
<1>1. d = <<>> \o d
    <2>1. d = [p \in 1..n |-> d[p]]
        OBVIOUS
    <2> HIDE DEF d
    <2> QED
        BY <2>1, AsSequence
<1>2. f = <<>> \o f
    <2>1. f = [p \in 1..n |-> f[p]]
        OBVIOUS
    <2> HIDE DEF f
    <2> QED
        BY <2>1, AsSequence
<1>3. Openings = f
    BY <1>1, <1>2, ZenonT(60) DEF Openings
<1>4. ASSUME NEW p \in Positions
      PROVE  f[p] = OpenerAt(p)
    <2>1. p \in Nat /\ p - 1 \in Nat /\ \A q \in 1..(p - 1) : q \in Positions
        OBVIOUS
    <2>2. \A q \in 1..(p - 1) : d[q] = DepthBefore(q)
        BY <2>1
    <2>3. d[p] = DepthBefore(p)
        OBVIOUS
    <2> HIDE DEF d
    <2>4. {0} \cup {q \in 1..(p - 1) : Opens(q) /\ d[q] = d[p] - 1} = OpenersTo(p - 1, DepthBefore(p))
        BY <2>2, <2>3 DEF OpenersTo
    <2>5. f[p] = Max({0} \cup {q \in 1..(p - 1) : Opens(q) /\ d[q] = d[p] - 1})
        OBVIOUS
    <2> QED
        BY <2>4, <2>5 DEF OpenerAt, Opener
<1> QED
    BY <1>3, <1>4

\* The property for one position, with the words that open blocks.
ExactAt(opener, begin, p) ==
    /\ KeptAt(p) => IF opener[p] = 0 THEN result[p].kind = "module" ELSE StandsIn(opener, begin, p)
    /\ Closes(p) => opener[p] # 0 /\ EndJustified(opener, begin, p)
    /\ ItemsSeparated(opener, p)

LEMMA ExactIfFits ==
    ASSUME NEW n \in Nat, Positions = 1..n, NEW opener, \A p \in Positions : opener[p] = OpenerAt(p),
           NEW begin, begin = Beginnings(opener),
           NEW p \in Positions, Fits(p)
    PROVE  ExactAt(opener, begin, p)
<1>1. PICK q : q = OpenerAt(p)
    OBVIOUS
<1>2. opener[p] = q /\ p \in Nat /\ p - 1 \in Nat
    BY <1>1
<1>3. q \in 0..(p - 1)
    <2>1. p \in Nat /\ p > 0
        OBVIOUS
    <2> QED
        BY <1>1, <2>1, OpenerAtBefore
<1>4. ASSUME NEW r \in Positions
      PROVE  /\ Before(opener, r) = TokensIn(OpenerAt(r), r - 1)
             /\ r \in begin <=> KeptAt(r) /\ OpenerAt(r) # 0 /\ Begins(r)
    <2>1. PICK s : s = OpenerAt(r)
        OBVIOUS
    <2>2. s \in 0..(r - 1) /\ opener[r] = s
        <3>1. r \in Nat /\ r > 0
            OBVIOUS
        <3> QED
            BY <2>1, <3>1, OpenerAtBefore
    <2>3. \A x \in (s + 1)..(r - 1) : x \in Positions
        BY <2>2
    <2>4. Before(opener, r) = TokensIn(s, r - 1)
        BY <2>2, <2>3 DEF Before, TokensIn
    <2>5. r \in begin <=> KeptAt(r) /\ s # 0 /\ Begins(r)
        <3>1. r \in begin <=> KeptAt(r) /\ s # 0 /\ (Before(opener, r) = {} \/ ColumnAt(r) = BlockColumn(s))
            BY <2>2 DEF Beginnings
        <3> QED
            BY <2>1, <2>4, <3>1 DEF Begins
    <2> QED
        BY <2>1, <2>4, <2>5
<1>5. Before(opener, p) = TokensIn(q, p - 1)
    BY <1>1, <1>4
<1>6. ASSUME q # 0
      PROVE  OpenParens(opener, begin, p) = ParensIn(q, p - 1)
    <2>1. \A b \in TokensIn(q, p - 1) : b \in Positions /\ (b \in begin <=> Begins(b))
        <3>1. \A b \in TokensIn(q, p - 1) : b \in Positions /\ KeptAt(b) /\ OpenerAt(b) = q
            BY <1>2, <1>3 DEF TokensIn
        <3> QED
            BY <1>4, <1>6, <3>1
    <2>2. {r \in Before(opener, p) : \A b \in Before(opener, p) \cap begin : b <= r} = ItemIn(q, p - 1)
        BY <1>5, <2>1 DEF ItemIn
    <2> QED
        BY <2>2, Zenon DEF OpenParens, ParensIn, CountIn
<1>7. KeptAt(p) => IF opener[p] = 0 THEN result[p].kind = "module" ELSE StandsIn(opener, begin, p)
    <2> SUFFICES ASSUME KeptAt(p), q # 0
                 PROVE  StandsIn(opener, begin, p)
        BY <1>1, <1>2 DEF Fits
    <2>1. Stands(p)
        BY <1>1 DEF Fits
    <2>2. p \in begin <=> Begins(p)
        BY <1>1, <1>4
    <2> QED
        BY <1>1, <1>2, <1>6, <2>1, <2>2 DEF StandsIn, Stands
<1>8. Closes(p) => opener[p] # 0 /\ EndJustified(opener, begin, p)
    <2> SUFFICES ASSUME Closes(p)
                 PROVE  opener[p] # 0 /\ EndJustified(opener, begin, p)
        OBVIOUS
    <2>1. q # 0 /\ Justified(p)
        BY <1>1 DEF Fits
    <2> QED
        BY <1>1, <1>2, <1>6, <2>1 DEF EndJustified, Justified
<1>9. ItemsSeparated(opener, p)
    BY <1>1, <1>2, <1>5 DEF Fits, Separated, ItemsSeparated
<1> QED
    BY <1>7, <1>8, <1>9 DEF ExactAt

LEMMA LaidIsExact == LaidInv => LayoutExact
<1> SUFFICES ASSUME LaidInv, lexing = "merging"
             PROVE  \A p \in Positions : ExactAt(Openings, Beginnings(Openings), p)
    BY Zenon DEF LayoutExact, ExactAt
<1>1. PICK S : result \in Seq(S)
    BY DEF LaidInv, LexInv
<1>2. PICK n \in Nat : Positions = 1..n
    <2>1. Len(result) \in Nat
        BY <1>1, LenProperties
    <2>2. CASE Len(result) = 0
        <3>1. Positions = 1..0
            BY <2>2 DEF Positions
        <3> QED
            BY <3>1
    <2>3. CASE Len(result) # 0
        <3>1. Len(result) - 1 \in Nat
            BY <2>1, <2>3
        <3> QED
            BY <3>1 DEF Positions
    <2> QED
        BY <2>2, <2>3
<1>3. PICK opener : opener = Openings
    OBVIOUS
<1>4. \A p \in Positions : opener[p] = OpenerAt(p)
    BY <1>2, <1>3, OpeningsAre
<1>5. PICK begin : begin = Beginnings(opener)
    OBVIOUS
<1>6. \A p \in Positions : Fits(p)
    BY DEF LaidInv
<1>7. \A p \in Positions : ExactAt(opener, begin, p)
    BY <1>2, <1>4, <1>5, <1>6, ExactIfFits
<1> QED
    BY <1>3, <1>5, <1>7

\* In every reachable state in which process_program has returned, each token is in
\* the innermost block that its column, the parentheses and the keyword module let
\* it stand in, each end of a block has its reason in the token after it, and items
\* are separated where a token is in the column of its block.
THEOREM LayoutAlwaysExact == LexSpec => []LayoutExact
<1>1. LexInit => LaidInv
    BY LaidInit
<1>2. LaidInv /\ [LexNext]_lexVars => LaidInv'
    BY NextLaid
<1>3. LaidInv => LayoutExact
    BY LaidIsExact
<1> QED
    BY <1>1, <1>2, <1>3, PTL DEF LexSpec

=============================================================================
