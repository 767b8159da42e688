------------------------------- MODULE Syntax -------------------------------
(***************************************************************************)
(* From the characters of a file to forms: Lexer::getNextToken with its    *)
(* one-character push-back, Parser::getNextNode over it, the loops of      *)
(* Generator::run and of include that ask for one list after another, and  *)
(* the conversion of atoms for macros (Node::toDNode and DNodeConverter).  *)
(* Line and column numbers are left out.                                   *)
(***************************************************************************)
EXTENDS Integers, Sequences, SequencesExt, FiniteSets

CONSTANTS
  Files,      \* the contents of files: sequences of characters
  Digits,     \* characters for which isdigit holds
  HexDigits,  \* characters for which isxdigit holds
  MaxTokens   \* bound: how many tokens are read (see EndsInAtom)

Eof       == "eof"
Null      == "Null"
NewLine   == "\n"
Semicolon == ";"
Spaces    == {" ", NewLine}
Atoms     == {"String", "Int", "FloatingPoint", "StringLiteral"}
Quote     == "\""
Slash     == "\\"

ASSUME FilesAssumption == \A f \in Files : f \in Seq(STRING \ {Eof})
ASSUME DigitsAssumption ==
  Digits \cap (Spaces \cup {Eof, "(", ")", Semicolon, Quote, "-", "#", "|", Slash}) = {}

VARIABLES
  file,    \* the characters of the file
  pos,     \* Lexer::index: how many have been read
  lex,     \* where getNextToken is: in a token, a comment or a string
  begun,   \* history: where what it is in began
  read,    \* history: what the characters have been read as, piece by piece
  tokens,  \* history: the atoms and parentheses that have been read
  nodes,   \* the Nodes that have been made, of tokens and of lists
  open,    \* the lists that are being read, outermost first
  skip,    \* lists that have failed and look for a right parenthesis still
  at,      \* "form", "list", "close" (a list has met EOF), "skip" or "end"
  forms,   \* lists that have been read
  errors   \* the kinds of errors reported
parser == <<tokens, nodes, open, skip, at, forms, errors>>
pieces == <<begun, read>>
vars   == <<file, pos, lex, pieces, parser>>

(***************************************************************************)
(* Characters.  (Byte 255, which as a char is EOF, is left out.)           *)
(***************************************************************************)
Char == IF pos < Len(file) THEN file[pos + 1] ELSE Eof
Past == IF pos < Len(file) THEN pos + 1 ELSE pos
Mut_Unget == Past
(* ungetchar_ steps back, also when what was got is EOF.                   *)
Unget == Past - 1

Token(type, str) == [type |-> type, str |-> str, error |-> FALSE]
Bad == [type |-> Null, str |-> <<>>, error |-> TRUE]

(* isSimpleInt and isSimpleFloat.                                          *)
Digital(s, from, set) == \A k \in from .. Len(s) : s[k] \in set
IsSimpleInt(s) ==
  IF Len(s) >= 3 /\ SubSeq(s, 1, 2) = <<"0", "x">> THEN Digital(s, 3, HexDigits)
  ELSE IF Len(s) >= 4 /\ SubSeq(s, 1, 3) = <<"-", "0", "x">>
    THEN Digital(s, 4, HexDigits)
  ELSE Digital(s, IF s # <<>> /\ s[1] = "-" THEN 2 ELSE 1, Digits)
IsSimpleFloat(s) ==
  /\ Digital(s, IF s[1] = "-" THEN 2 ELSE 1, Digits \cup {"."})
  /\ Cardinality({k \in 1 .. Len(s) : s[k] = "."}) <= 1

(* The end of a token that may be a number.                                *)
Finished(type, str) ==
  IF type # "Int" THEN Token(type, str)
  ELSE IF str = <<"-">> THEN Token("String", str)
  ELSE IF Contains(str, ".")
    THEN IF IsSimpleFloat(str) THEN Token("FloatingPoint", str) ELSE Bad
  ELSE IF IsSimpleInt(str) THEN Token("Int", str) ELSE Bad

(***************************************************************************)
(* The parser's nodes.  A list is put into the one around it when it       *)
(* begins.  begin and end are the places of its parentheses among the      *)
(* tokens.                                                                 *)
(***************************************************************************)
Here    == Len(tokens) + 1
Atom(t) == [type |-> t.type, str |-> t.str]
TokenNode(t) == [token |-> Atom(t), list |-> <<>>, begin |-> Here, end |-> Here]
ListNode     == [token |-> Atom(Bad), list |-> <<>>, begin |-> Here, end |-> 0]
IsToken(i)   == nodes[i].token.type # Null

Add(node) ==
  Append(IF open = <<>> THEN nodes
         ELSE [nodes EXCEPT ![Last(open)].list = Append(@, Len(nodes) + 1)],
         node)

(***************************************************************************)
(* What the parser does with a token, t.  A right parenthesis that ends a  *)
(* list is put back and read again by the list's owner, which is one step  *)
(* here.                                                                   *)
(***************************************************************************)
(* No node: an error has been reported.  Generator::run asks for the next  *)
(* one, include gives up.                                                  *)
NoNode(error) == /\ errors' = errors \cup {error}
                 /\ at' \in {"form", "end"}
                 /\ UNCHANGED <<nodes, open, forms, skip>>

(* An atom or right parenthesis outside all lists, or what is no token.    *)
FormFails(t)  == /\ at = "form" /\ t.type \notin {"(", Eof}
                 /\ NoNode(IF t.error THEN "token" ELSE "ExpectedLeftParen")
EndOfFile(t)  == /\ at = "form" /\ t.type = Eof
                 /\ at' = "end" /\ UNCHANGED <<nodes, open, skip, forms, errors>>

ListOpens(t)  == /\ at \in {"form", "list"} /\ t.type = "("
                 /\ nodes' = Add(ListNode) /\ open' = Append(open, Len(nodes) + 1)
                 /\ at' = "list" /\ UNCHANGED <<skip, forms, errors>>
ListAtom(t)   == /\ at = "list" /\ t.type \in Atoms
                 /\ nodes' = Add(TokenNode(t))
                 /\ UNCHANGED <<open, skip, at, forms, errors>>
(* What a right parenthesis does: the open lists, the forms and the nodes  *)
(* after it.                                                               *)
Closed == <<Front(open), IF Len(open) = 1 THEN Append(forms, open[1]) ELSE forms,
            [nodes EXCEPT ![Last(open)].end = Here]>>
ListCloses(t) == /\ at \in {"list", "close"} /\ t.type = ")"
                 /\ open' = Closed[1] /\ forms' = Closed[2] /\ nodes' = Closed[3]
                 /\ at' = IF Len(open) = 1 THEN "form" ELSE "list"
                 /\ UNCHANGED <<skip, errors>>
(* What is no token is reported and left out of the list.                  *)
ListError(t)  == /\ at = "list" /\ t.error
                 /\ errors' = errors \cup {"token"}
                 /\ UNCHANGED <<nodes, open, skip, at, forms>>
ListEnds(t)   == /\ at = "list" /\ t.type = Eof
                 /\ at' = "close" /\ UNCHANGED <<nodes, open, skip, forms, errors>>
Mut_Missing(t) == /\ at = "close" /\ t.type # ")"
                  /\ errors' = errors \cup {"MissingRightParen"}
                  /\ skip' = Len(open) /\ at' = "skip" /\ UNCHANGED <<nodes, open, forms>>
(* After EOF, the list's owner reads another token.                        *)
Missing(t)    == /\ at = "close" /\ t.type # ")"
                 /\ errors' = errors \cup {IF t.error THEN "token"
                                           ELSE "MissingRightParen"}
                 /\ skip' = Len(open) /\ open' = <<>> /\ at' = "skip"
                 /\ UNCHANGED <<nodes, forms>>
Mut_SkipOne(t) == /\ at = "skip" /\ skip > 1
                  /\ skip' = IF t.type = ")" THEN skip - 1 ELSE skip
                  /\ UNCHANGED <<nodes, open, at, forms, errors>>
(* getUntilRightParenOrEof, by each of the lists around a failed one.      *)
SkipOne(t)    == /\ at = "skip" /\ skip > 1
                 /\ skip' = IF t.type \in {")", Eof} THEN skip - 1 ELSE skip
                 /\ UNCHANGED <<nodes, open, at, forms, errors>>
Skipped == /\ at = "skip" /\ skip = 1
           /\ skip' = 0 /\ at' \in {"form", "end"}
           /\ UNCHANGED <<file, pos, lex, pieces, tokens, nodes, open, forms, errors>>

Step(t) == \/ FormFails(t) \/ EndOfFile(t)
           \/ ListOpens(t) \/ ListAtom(t) \/ ListCloses(t)
           \/ ListError(t) \/ ListEnds(t) \/ Missing(t) \/ SkipOne(t)

(***************************************************************************)
(* The lexer, of which each action reads a character: it goes on, or gives *)
(* a token to the parser.                                                  *)
(***************************************************************************)
InToken(type, str) == [in |-> "token", type |-> type, str |-> str]
Start == InToken(Null, <<>>)

(* A piece of the file: from + 1 up to upto are the places of its          *)
(* characters, and token tells how many tokens there are with it.          *)
Piece(kind, upto) == [kind |-> kind, from |-> begun, upto |-> upto, token |-> Len(tokens')]

Reads(mode) == /\ at # "end" /\ ~(at = "skip" /\ skip = 1) /\ lex.in = mode
               /\ Len(tokens) < MaxTokens
(* A space or comment is over when the lexer starts again, or reads what   *)
(* is after a comment.                                                     *)
Left == IF lex.in = "token" THEN "space" ELSE lex.in
Goes(l) == /\ lex' = l /\ pos' = Past /\ UNCHANGED <<file, parser>>
           /\ IF l \in {Start, [in |-> "after"]}
                THEN read' = Append(read, Piece(Left, Past)) /\ begun' = Past
                ELSE UNCHANGED pieces
(* A token that has been read up to upto; the lexer goes on from p.        *)
Gives(t, upto, p) ==
  /\ lex' = Start /\ pos' = p /\ begun' = p /\ UNCHANGED file
  /\ tokens' = IF t.error \/ t.type = Eof THEN tokens ELSE Append(tokens, Atom(t))
  /\ read' = IF t.type = Eof THEN read
             ELSE Append(read, Piece(IF t.error THEN "bad" ELSE "token", upto))
  /\ Step(t)

LineComment == Reads("line") /\ Goes(IF Char \in {Eof, NewLine} THEN Start ELSE lex)

(* Comments nest.  The character after the last |# is read as well.        *)
Nesting == IF lex.last = "|" /\ Char = "#" THEN lex.depth - 1
           ELSE IF lex.last = "#" /\ Char = "|" THEN lex.depth + 1 ELSE lex.depth
BlockComment ==
  \/ /\ Reads("block")
     /\ Goes(IF Char = Eof THEN Start
             ELSE IF Nesting = 0 THEN [in |-> "after"]
             ELSE [lex EXCEPT !.depth = Nesting, !.last = Char])
  \/ Reads("after") /\ Goes(Start)

(* A backslash is kept, unless a double quote follows.                     *)
StringLiteral ==
  \/ /\ Reads("string")
     /\ IF Char = Eof THEN Gives(Bad, Past, Past)
        ELSE IF Char = Quote THEN Gives(Token("StringLiteral", lex.str), Past, Past)
        ELSE Goes(IF Char = Slash THEN [lex EXCEPT !.in = "escape"]
                  ELSE [lex EXCEPT !.str = Append(@, Char)])
  \/ /\ Reads("escape")
     /\ IF Char = Eof THEN Gives(Bad, Past, Past)
        ELSE Goes([in |-> "string",
                   str |-> lex.str \o IF Char = Quote THEN <<Char>> ELSE <<Slash, Char>>])

(* #\ takes any character that is not a space.                             *)
Ends == \/ Char \in Spaces \cup {Eof}
        \/ Char \in {Semicolon, Quote, "(", ")"} /\ lex.str # <<"#", Slash>>
Begins == Reads("token") /\ lex.type = Null
(* Between tokens.                                                         *)
Between ==
  /\ Begins /\ Ends
  /\ IF Char = Semicolon THEN Goes([in |-> "line"])
     ELSE IF Char = Quote THEN Goes([in |-> "string", str |-> <<>>])
     ELSE IF Char \in Spaces THEN Goes(Start)
     ELSE Gives(Token(Char, <<>>), Past, Past)
Continue ==
  /\ Reads("token") /\ ~Ends
  /\ Goes(IF Char = "|" /\ lex.str = <<"#">> THEN [in |-> "block", depth |-> 1, last |-> Char]
          ELSE InToken(IF lex.type = Null /\ Char \in {"-"} \cup Digits THEN "Int"
                       ELSE IF lex.type = Null \/ (lex.str = <<"-">> /\ Char \notin Digits)
                         THEN "String"
                       ELSE lex.type,
                       Append(lex.str, Char)))
TokenEnds ==
  /\ Reads("token") /\ lex.type # Null /\ Ends
  /\ Gives(Finished(lex.type, lex.str), pos, Unget)

Init == /\ file \in Files
        /\ pos = 0 /\ lex = Start /\ begun = 0 /\ read = <<>>
        /\ tokens = <<>> /\ nodes = <<>>
        /\ open = <<>> /\ skip = 0 /\ at = "form" /\ forms = <<>> /\ errors = {}
Next == \/ LineComment \/ BlockComment \/ StringLiteral
        \/ Between \/ Continue \/ TokenEnds
        \/ Skipped
(* The compiler does nothing else while it reads a form.                   *)
Spec == Init /\ [][Next]_vars /\ WF_vars(Next)

(***************************************************************************)
(* Atoms as macros see them: Token::toString makes a DNode's string,       *)
(* DNodeConverter::atomToNode a token of it.                               *)
(***************************************************************************)
DNodeString(t) ==
  IF t.type = "StringLiteral" THEN <<Quote>> \o t.str \o <<Quote>> ELSE t.str
NumberAtom(s) ==
  IF Contains(s, ".")
    THEN [type |-> IF IsSimpleFloat(s) THEN "FloatingPoint" ELSE Null, str |-> s]
    ELSE [type |-> IF IsSimpleInt(s) THEN "Int" ELSE Null, str |-> s]
Mut_AtomToNode(s) ==
  IF s[1] \in Digits \cup {"-"} THEN NumberAtom(s)
  ELSE IF s[1] = Quote /\ Last(s) = Quote
    THEN [type |-> "StringLiteral", str |-> SubSeq(s, 2, Len(s) - 1)]
  ELSE [type |-> "String", str |-> s]
AtomToNode(s) ==
  IF s[1] \in Digits \/ (Len(s) > 1 /\ s[1] = "-" /\ s[2] \in Digits)
    THEN NumberAtom(s)
  ELSE IF s[1] = Quote /\ Last(s) = Quote
    THEN [type |-> "StringLiteral", str |-> SubSeq(s, 2, Len(s) - 1)]
  ELSE [type |-> "String", str |-> s]

-----------------------------------------------------------------------------
(* The parser knows the lists it is in; the lists that failed have been    *)
(* left (getNextNodeInternal, getUntilRightParenOrEof).                    *)
TypeOK ==
  /\ at \in {"form", "list", "close", "skip", "end"}
  /\ pos \in 0 .. Len(file) /\ skip \in Nat
  /\ at \in {"list", "close"} <=> open # <<>>
  /\ at = "skip" <=> skip > 0
  /\ \A k \in 1 .. Len(open) : open[k] \in 1 .. Len(nodes)

(* The nodes of l follow each other, from one token up to another: where   *)
(* the one after the first k begins.                                       *)
After(l, from, k) == IF k = 0 THEN from ELSE nodes[l[k]].end + 1
InRow(l, from, to) ==
  /\ \A k \in 1 .. Len(l) : nodes[l[k]].begin = After(l, from, k - 1)
  /\ After(l, from, Len(l)) = to

Covers(i) ==
  LET n == nodes[i]
  IN  IF IsToken(i) THEN n.begin = n.end /\ n.token = tokens[n.begin]
      ELSE /\ n.begin < n.end /\ InRow(n.list, n.begin + 1, n.end)
           /\ tokens[n.begin].type = "(" /\ tokens[n.end].type = ")"

(* What the file f has at the places of a piece p.                         *)
Written(f, p, str) == /\ p.upto = p.from + Len(str)
                      /\ \A i \in 1 .. Len(str) : f[p.from + i] = str[i]
(* Each double quote in a literal has a backslash before it.               *)
Quotes(str, n) == Cardinality({i \in 1 .. n : str[i] = Quote})
LiteralUpTo(f, from, upto, str) ==
  /\ upto = from + 1 + Len(str) + Quotes(str, Len(str))
  /\ f[from + 1] = Quote
  /\ \A i \in 1 .. Len(str) :
       /\ f[from + 1 + i + Quotes(str, i)] = str[i]
       /\ str[i] = Quote => f[from + i + Quotes(str, i)] = Slash
TokenWritten(f, p, t) ==
  IF t.type = "StringLiteral"
    THEN LiteralUpTo(f, p.from, p.upto - 1, t.str) /\ f[p.upto] = Quote
    ELSE Written(f, p, IF t.type \in {"(", ")"} THEN <<t.type>> ELSE t.str)
LineWritten(f, p) == /\ p.from < p.upto /\ f[p.from + 1] = Semicolon
                     /\ \A i \in p.from + 1 .. p.upto - 1 : f[i] # NewLine
                     /\ f[p.upto] = NewLine \/ p.upto = Len(f)
(* How many comments are open after the ith character, when one begins     *)
(* after the character from.                                               *)
Pairs(f, from, i, x, y) == Cardinality({j \in from + 3 .. i : f[j - 1] = x /\ f[j] = y})
Depth(f, from, i) == 1 + Pairs(f, from, i, "#", "|") - Pairs(f, from, i, "|", "#")
BlockUpTo(f, from, upto) ==
  /\ from + 2 <= upto /\ f[from + 1] = "#" /\ f[from + 2] = "|"
  /\ \A i \in from + 2 .. upto - 1 : Depth(f, from, i) # 0
(* The exception: the character after a block comment is left out, too.    *)
Swallowed(p) == p.upto - p.from \in {0, 1}

IsRead(p) ==
  /\ p.kind = "space" => p.upto = p.from + 1 /\ file[p.upto] \in Spaces
  /\ p.kind = "line"  => LineWritten(file, p)
  /\ p.kind = "block" => /\ BlockUpTo(file, p.from, p.upto)
                         /\ Depth(file, p.from, p.upto) = 0 \/ p.upto = Len(file)
  /\ p.kind = "after" => Swallowed(p)
  /\ p.kind = "bad"   => errors # {}
  /\ p.kind = "token" => /\ p.token \in 1 .. Len(tokens)
                         /\ TokenWritten(file, p, tokens[p.token])

(* Where the kth piece begins (the one after the last is being read), and  *)
(* where the one before it has ended.                                      *)
From(k) == IF k \in 1 .. Len(read) THEN read[k].from ELSE begun
Upto(k) == IF k = 1 THEN 0 ELSE read[k - 1].upto
Kind(k) == IF k = 1 THEN "none" ELSE read[k - 1].kind
Number(k) == IF k = 1 THEN 0 ELSE read[k - 1].token
(* The exception: of a file that ends in an atom the last character is     *)
(* read again, for ever if it is an atom again.                            *)
EndsInAtom == lex.in = "token" /\ lex.type # Null /\ pos = Len(file)
Again(k)   == /\ Kind(k) \in {"token", "bad"} /\ Upto(k) = Len(file)
              /\ From(k) = Len(file) - 1
(* The pieces follow each other, and the tokens are those among them.      *)
InPieces ==
  /\ \A k \in 1 .. Len(read) + 1 : From(k) = Upto(k) \/ Again(k)
  /\ \A k \in 1 .. Len(read) :
       /\ read[k].kind = "after" => Kind(k) = "block"
       /\ read[k].token = Number(k) + IF read[k].kind = "token" THEN 1 ELSE 0
  /\ Number(Len(read) + 1) = Len(tokens)

Complete ==
  at = "end" /\ errors = {} => InRow(forms, 1, Here) /\ \A i \in 1 .. Len(nodes) : Covers(i)

(* No character is left out or read as part of two tokens: the file        *)
(* consists of its tokens, as they are written in it, and of spaces and    *)
(* comments, one after the other, but for Swallowed and Again.  And the    *)
(* forms of a file that is read without an error, with what they consist   *)
(* of, are its tokens in order (getNextToken, getNextNodeInternal).        *)
NothingLost ==
  /\ InPieces
  /\ \A k \in 1 .. Len(read) : IsRead(read[k])
  /\ Complete

(* "`#|` and `|#` are used to delimit multi-line comments": nothing else   *)
(* than spaces is left out with them (getNextToken).                       *)
CommentsDelimited ==
  \A k \in 1 .. Len(read) :
    LET p == read[k]
    IN  p.kind = "after" /\ p.from < p.upto => file[p.upto] \in Spaces

(* An atom that goes through a macro unchanged is the atom it was          *)
(* (Token::toString, DNodeConverter::atomToNode).                          *)
AtomsConvert ==
  \A k \in 1 .. Len(tokens) :
    tokens[k].type \in Atoms => AtomToNode(DNodeString(tokens[k])) = tokens[k]

(* Reading ends, whatever is wrong with the file, unless the file ends in  *)
(* an atom: the last character of such a file is read again and again      *)
(* (Generator::run, getUntilRightParenOrEof, ungetchar_).                  *)
Finishes == <>(at = "end" \/ EndsInAtom)
=============================================================================
