------------------------------ MODULE ProgramReuse ------------------------------
(***************************************************************************)
(* A program written in pieces: parseScript(source, {program}) and         *)
(* parseModule(source, {program}) append the statements of a source to a   *)
(* program that an earlier call returned.  What a statement means can      *)
(* depend on those before it, in an earlier piece: on the directives that  *)
(* begin the program, and on the names it declares.                        *)
(*                                                                         *)
(* A statement of a source is one of Texts; in a program it is             *)
(* [text, directive, raw]: it has a directive field, and its literal has   *)
(* the text it was written as.  Acorn, which parses the pieces, is         *)
(* external.                                                               *)
(***************************************************************************)
EXTENDS Naturals, FiniteSets, Sequences, SequencesExt

CONSTANTS MaxPiece,     \* bound: statements of a piece
          MaxStatements \* bound: statements of a program

VARIABLES program,  \* what the last call returned
          text,     \* the pieces so far, put together
          module    \* the pieces are of a module

vars == <<program, text, module>>

\* String literals that stand alone, the second with an escape that strict code refuses, the
\* last in parentheses; then what strict code refuses, and declarations and exports of x.
Strings == {"'use strict'", "'\\07'", "'other'", "('use strict')"}
Texts == Strings \cup {"with", "let x", "var x", "export {x}", "import x"}
Lexical == {"let x", "import x"}
Pieces == UNION {[1 .. n -> Texts] : n \in 0 .. MaxPiece}

(***************************************************************************)
(* Acorn: a parser of a mode takes a source or refuses it.                 *)
(***************************************************************************)
CanBeDirective(t) == t \in Strings \ {"('use strict')"}
Leading(s) == {i \in DOMAIN s : \A j \in 1 .. i : CanBeDirective(s[j])}
BeginsStrict(s) == \E i \in Leading(s) : s[i] = "'use strict'"
StrictMode(s, mode) ==
    CASE mode = "module" -> TRUE
      [] mode = "strict" -> TRUE
      [] mode = "sloppy" -> FALSE
      [] mode = "script" -> BeginsStrict(s)
Clash(s) == \E i, j \in DOMAIN s : i # j /\ s[i] \in Lexical /\ s[j] \in Lexical \cup {"var x"}
ExportsFit(s) ==
    /\ Cardinality({i \in DOMAIN s : s[i] = "export {x}"}) <= 1
    /\ (\E i \in DOMAIN s : s[i] = "export {x}") => \E i \in DOMAIN s : s[i] \in Lexical \cup {"var x"}
Parses(s, mode) ==
    /\ StrictMode(s, mode) => ToSet(s) \cap {"with", "'\\07'"} = {}
    /\ mode # "module" => ToSet(s) \cap {"export {x}", "import x"} = {}
    /\ ~Clash(s) /\ (mode = "module" => ExportsFit(s))
Parsed(s) == [i \in DOMAIN s |-> [text |-> s[i], directive |-> i \in Leading(s), raw |-> TRUE]]

(***************************************************************************)
(* The calls.                                                              *)
(***************************************************************************)
HasOpenDirectivePrologue(body) == \A i \in DOMAIN body : body[i].directive
HasUseStrictDirective(body) ==
    \E i \in DOMAIN body : body[i].text = "'use strict'" /\ \A j \in 1 .. i : body[j].directive
CheckStrictDirectiveLiterals(body) == \A i \in DOMAIN body : body[i].raw /\ body[i].text # "'\\07'"

\* Which parser parseScript uses for a piece.
ModeFor(body) ==
    IF HasUseStrictDirective(body) THEN "strict"
    ELSE IF ~HasOpenDirectivePrologue(body) THEN "sloppy" ELSE "script"
\* mergeReusableProgram: what is no directive any more loses the field.
Merge(body, new) ==
    body \o (IF HasOpenDirectivePrologue(body) THEN new ELSE [i \in DOMAIN new |-> [new[i] EXCEPT !.directive = FALSE]])
TextOf(body) == [i \in DOMAIN body |-> body[i].text]

\* The walk over the merged program, and the checks of its declarations.
ValidScript(body) == ~(HasUseStrictDirective(body) /\ "with" \in ToSet(TextOf(body))) /\ ~Clash(TextOf(body))
ValidModule(body) == "with" \notin ToSet(TextOf(body)) /\ ~Clash(TextOf(body)) /\ ExportsFit(TextOf(body))
ParseScript(body, piece) ==
    /\ Parses(piece, ModeFor(body))
    /\ HasOpenDirectivePrologue(body) /\ ~HasUseStrictDirective(body) /\ HasUseStrictDirective(Parsed(piece)) =>
          CheckStrictDirectiveLiterals(body)
    /\ ValidScript(Merge(body, Parsed(piece)))
ParseModule(body, piece) == Parses(piece, "module") /\ ValidModule(Merge(body, Parsed(piece)))
Takes(body, piece) == IF module THEN ParseModule(body, piece) ELSE ParseScript(body, piece)

AppendPiece(piece) ==
    /\ Len(text) + Len(piece) <= MaxStatements /\ Takes(program, piece)
    /\ program' = Merge(program, Parsed(piece)) /\ text' = text \o piece
    /\ UNCHANGED module
\* The embedder takes the raw text of a literal away.
LoseRaw(i) ==
    /\ program[i].text \in Strings
    /\ program' = [program EXCEPT ![i].raw = FALSE] /\ UNCHANGED <<text, module>>

Init == program = <<>> /\ text = <<>> /\ module \in BOOLEAN
Next == (\E piece \in Pieces : AppendPiece(piece)) \/ (\E i \in DOMAIN program : LoseRaw(i))
Spec == Init /\ [][Next]_vars

(***************************************************************************)
(* The pieces against the whole.                                           *)
(***************************************************************************)
Mode == IF module THEN "module" ELSE "script"
WithoutRaw(body) == [i \in DOMAIN body |-> [body[i] EXCEPT !.raw = TRUE]]
HasRaw(body) == \A i \in DOMAIN body : body[i].raw

\* However a script is cut into pieces, it is the script all of it together makes: the same
\* statements are directives, and the next piece is refused exactly when the whole would be
\* (or when the raw text that would tell is gone).  A module so written is always one that
\* the parser would have taken at once.
PiecesMakeTheWhole ==
    /\ Parses(text, Mode) /\ WithoutRaw(program) = Parsed(text)
    /\ \A piece \in Pieces :
          /\ Takes(program, piece) => Parses(text \o piece, Mode)
          /\ ~module /\ HasRaw(program) /\ Parses(text \o piece, Mode) => Takes(program, piece)
================================================================================
