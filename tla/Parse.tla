-------------------------------- MODULE Parse --------------------------------
(***************************************************************************)
(* usr/sh.c: getcmd() reads a line into a buffer, execute() copies it into *)
(* a smaller one and sends that to exec_job(), where parse_args() cuts it  *)
(* in place into arguments and the two file names of a redirection.  Each  *)
(* character is one step.                                                  *)
(*                                                                         *)
(* Positions in the job's buffer stand for pointers into it, -1 for NULL;  *)
(* ZERO is '\0' and JUNK a byte pmmalloc() left as it was.  The job is     *)
(* taken to be the whole line (no '|', '&' or ';') and no builtin; what    *)
(* builtin() does first, it does to a copy of its own.                     *)
(*                                                                         *)
(* Neither the copy nor parse_args() tests for the end of its array: what  *)
(* the program does after it went beyond one is not followed ("overrun").  *)
(***************************************************************************)
EXTENDS Integers, Sequences, FiniteSets, FiniteSetsExt

CONSTANTS MAX_CMDLINE,     \* size of the line's buffer, at least 2
          MAX_JOBLEN,      \* size of the job's buffer
          MAX_ARGS,
          MaxTyped,        \* bound: characters typed
          MaxRedirects     \* bound: '<' and '>' among them

\* sh.c:14-16 has 128, 32 and 8.
ASSUME ParseAssumption ==
  /\ MAX_CMDLINE \in Nat /\ MAX_CMDLINE >= 2
  /\ MAX_JOBLEN \in Nat \ {0} /\ MAX_ARGS \in Nat

ZERO == "0"
JUNK == "?"
Blank == " "            \* or a tab
Redirect == {"<", ">"}
Char == {"a", Blank} \cup Redirect

VARIABLES phase,    \* "read", "job", "parse", "done" or "overrun"
          keys,     \* history: the characters typed
          cmdline,  \* the line's buffer
          cmd,      \* the job's buffer
          i,        \* getcmd: where the next character goes; parse_args: the
                    \* next argument
          t,        \* the character parse_args looks at
          state, args, stin, stout,
          closed    \* history: what args was at the first '<' or '>'

linevars == <<phase, keys, cmdline, cmd, i, t, state, args, stin, stout, closed>>
parser == <<t, state, args, stin, stout, closed>>

NoArgs == [k \in 0..MAX_ARGS |-> -1]

LineInit ==
  /\ phase = "read" /\ keys = <<>>
  /\ cmdline = [k \in 0..(MAX_CMDLINE - 1) |-> JUNK]
  /\ cmd = [k \in 0..(MAX_JOBLEN - 1) |-> JUNK]
  /\ i = 0 /\ t = 0 /\ state = "NONE"
  /\ args = NoArgs /\ stin = -1 /\ stout = -1
  /\ closed = <<>>

-----------------------------------------------------------------------------
(* getcmd().                                                               *)

\* At the end of the buffer i steps back: "i -= (i == len-1) ? 1 : 0".
Back(k) == IF k >= MAX_CMDLINE - 1 THEN k - 1 ELSE k

GetChar(c) ==
  /\ phase = "read" /\ Len(keys) < MaxTyped
  /\ c \in Redirect => Cardinality({k \in DOMAIN keys : keys[k] \in Redirect}) < MaxRedirects
  /\ keys' = Append(keys, c)
  /\ cmdline' = [cmdline EXCEPT ![Back(i)] = c]
  /\ i' = Back(Back(i) + 1)
  /\ UNCHANGED <<phase, cmd, parser>>

GetNewline ==
  /\ phase = "read"
  /\ cmdline' = [cmdline EXCEPT ![Back(i)] = ZERO]
  /\ phase' = "job"
  /\ i' = 0
  /\ UNCHANGED <<keys, cmd, parser>>

-----------------------------------------------------------------------------
(* execute() and the start of exec_job().                                  *)

Strlen == Min({k \in 0..(MAX_CMDLINE - 1) : cmdline[k] = ZERO})

\* strcpy() into the job's buffer, of which all is sent, whatever it holds.
CopyJob ==
  /\ phase = "job" /\ Strlen < MAX_JOBLEN
  /\ phase' = "parse"
  /\ cmd' = [k \in 0..(MAX_JOBLEN - 1) |-> IF k <= Strlen THEN cmdline[k] ELSE JUNK]
  /\ UNCHANGED <<keys, cmdline, i, parser>>

JobOverrun ==
  /\ phase = "job" /\ Strlen >= MAX_JOBLEN
  /\ phase' = "overrun"
  /\ UNCHANGED <<keys, cmdline, cmd, i, parser>>

-----------------------------------------------------------------------------
(* parse_args().                                                           *)

Next1 == t' = t + 1 /\ UNCHANGED <<phase, keys, cmdline>>

\* Cut writes '\0' over a character that separates.
Cut == cmd' = [cmd EXCEPT ![t] = ZERO]

ParseRedirect ==
  /\ phase = "parse" /\ cmd[t] \in Redirect
  /\ state' = IF cmd[t] = "<" THEN "SIN" ELSE "SOUT"
  /\ closed' = IF closed = <<>> THEN <<args>> ELSE closed
  /\ Cut /\ Next1
  /\ UNCHANGED <<i, args, stin, stout>>

\* Mutation: blanks are left in the line.
ParseBlank_keeps ==
  /\ phase = "parse" /\ cmd[t] = Blank /\ i <= MAX_ARGS
  /\ IF args[i] >= 0 /\ state = "LETTER"
     THEN i' = i + 1 /\ state' = "NONE"
     ELSE UNCHANGED <<i, state>>
  /\ Next1
  /\ UNCHANGED <<cmd, args, stin, stout, closed>>

ParseBlank ==
  /\ phase = "parse" /\ cmd[t] = Blank /\ i <= MAX_ARGS
  /\ IF args[i] >= 0 /\ state = "LETTER"
     THEN i' = i + 1 /\ state' = "NONE"
     ELSE UNCHANGED <<i, state>>
  /\ Cut /\ Next1
  /\ UNCHANGED <<args, stin, stout, closed>>

ParseLetter ==
  /\ phase = "parse" /\ cmd[t] = "a" /\ (state = "NONE" => i <= MAX_ARGS)
  /\ args' = IF state = "NONE" THEN [args EXCEPT ![i] = t] ELSE args
  /\ stin' = IF state = "SIN" THEN t ELSE stin
  /\ stout' = IF state = "SOUT" THEN t ELSE stout
  /\ state' = "LETTER"
  /\ Next1
  /\ UNCHANGED <<cmd, i, closed>>

\* args[i] is read or written behind the array.
ArgsOverrun ==
  /\ phase = "parse" /\ i > MAX_ARGS
  /\ cmd[t] = Blank \/ (cmd[t] = "a" /\ state = "NONE")
  /\ phase' = "overrun"
  /\ UNCHANGED <<keys, cmdline, cmd, i, parser>>

\* execv() looks for the NULL behind the arguments, and beyond the array when
\* the last one took its place.
ParseEnd ==
  /\ phase = "parse" /\ cmd[t] = ZERO
  /\ phase' = IF args[MAX_ARGS] = -1 THEN "done" ELSE "overrun"
  /\ UNCHANGED <<keys, cmdline, cmd, i, parser>>

LineNext ==
  \/ \E c \in Char : GetChar(c)
  \/ GetNewline
  \/ CopyJob \/ JobOverrun
  \/ ParseRedirect \/ ParseBlank \/ ParseLetter \/ ArgsOverrun \/ ParseEnd

LineSpec == LineInit /\ [][LineNext]_linevars

-----------------------------------------------------------------------------
(* Types of the buffers, the pointers and the argument array.              *)
LineTypeOK ==
  /\ phase \in {"read", "job", "parse", "done", "overrun"}
  /\ cmdline \in [0..(MAX_CMDLINE - 1) -> Char \cup {ZERO, JUNK}]
  /\ cmd \in [0..(MAX_JOBLEN - 1) -> Char \cup {ZERO, JUNK}]
  /\ args \in [0..MAX_ARGS -> -1..(MAX_JOBLEN - 1)]
  /\ i \in 0..(IF phase = "read" THEN MAX_CMDLINE - 2 ELSE MAX_ARGS + 1)
  /\ t \in 0..(MAX_JOBLEN - 1)
  /\ state \in {"NONE", "LETTER", "SIN", "SOUT"}

\* The line: what getcmd() keeps of what was typed.
Kept == SubSeq(keys, 1, Min({Len(keys), MAX_CMDLINE - 2}))

\* getcmd() keeps the beginning of a line that is too long, ends it with
\* '\0' inside the buffer and loses nothing else.
LineKept ==
  phase = "job" =>
    /\ \A k \in 1..Len(Kept) : cmdline[k - 1] = Kept[k]
    /\ cmdline[Len(Kept)] = ZERO

\* What comes before position k, without blanks, ends in c.
Follows(k, c) ==
  \E j \in 1..(k - 1) : Kept[j] = c /\ \A n \in (j + 1)..(k - 1) : Kept[n] = Blank

\* The positions in the buffer where a word begins, and where a file name does.
Begins == {k - 1 : k \in {n \in 1..Len(Kept) : Kept[n] = "a" /\ (n = 1 \/ Kept[n - 1] # "a")}}
Named(c) == {k \in Begins : Follows(k + 1, c)}

Latest(S) == IF S = {} THEN -1 ELSE Max(S)

\* The '<' or '>' at k stands apart from the word before it ("a <b"), or
\* begins the line.
Apart(k) ==
  /\ Kept[k] \in Redirect
  /\ k = 1 \/ (Kept[k - 1] = Blank /\ \A c \in Redirect : ~Follows(k, c))

\* The words that are arguments: no file name, and none behind a '<' or '>'
\* that stands apart ("a <b c"; but "a<b c" has two arguments).
Arguments ==
  {b \in Begins : /\ \A c \in Redirect : b \notin Named(c)
                  /\ \A k \in 1..b : ~Apart(k)}

\* The program gets exactly these, in order and with NULL behind them, and
\* the last file name of each kind.
JobFound ==
  phase = "done" =>
    /\ stin = Latest(Named("<")) /\ stout = Latest(Named(">"))
    /\ Cardinality(Arguments) <= MAX_ARGS
    /\ \A k \in 0..MAX_ARGS :
         args[k] = IF k < Cardinality(Arguments)
                   THEN CHOOSE b \in Arguments : Cardinality({x \in Arguments : x < b}) = k
                   ELSE -1

\* Each argument and file name is one word: what the program sees ends
\* where the word does.
WordsCut ==
  phase = "done" =>
    \A p \in {args[k] : k \in 0..MAX_ARGS} \cup {stin, stout} : p >= 0 =>
      LET end == Min({k \in p..(MAX_JOBLEN - 1) : cmd[k] = ZERO})
      IN \A k \in p..(end - 1) : Kept[k + 1] = "a"

\* The line is shorter than the job's buffer, or the job is never parsed;
\* no byte is looked at that was not written.
JobFits ==
  /\ phase \in {"parse", "done"} => Len(Kept) < MAX_JOBLEN /\ cmd[t] # JUNK
  /\ phase = "overrun" => Len(Kept) >= MAX_JOBLEN \/ Cardinality(Arguments) > MAX_ARGS

(* A line reaches a program as it was typed: getcmd() keeps its beginning  *)
(* and ends it inside the buffer; of what is kept, the words before a '<'  *)
(* or '>' that stands apart are the arguments, in order and all of them,   *)
(* the word behind the last '<' or '>' is the file name and no argument,   *)
(* and each ends where the word does.  The one exception is a line of      *)
(* MAX_JOBLEN characters or more, or of more than MAX_ARGS arguments: only *)
(* these go beyond an array, and all of them do.                           *)
LineParsed == LineTypeOK /\ LineKept /\ JobFits /\ JobFound /\ WordsCut

(* sh.c:43, "no more args": what follows '<' or '>' adds no argument.      *)
NoMoreArgs == closed # <<>> => args = closed[1]
=============================================================================
