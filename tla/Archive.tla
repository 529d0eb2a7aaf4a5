--------------------------------- MODULE Archive ---------------------------------
(***************************************************************************)
(* What the program promises to whoever calls it (SuffixArray.man): a      *)
(* sequence of commands on one data-file, which keeps the text it was last *)
(* created from. To create it anew loses it until that is done.            *)
(***************************************************************************)
EXTENDS SuffixOrder

CONSTANTS
  Commands,  \* records [args, means]: a command line, and what the manual makes of it,
             \* a record [kind, text, pattern]
  Idle,      \* no command
  Absent,    \* no data-file
  Lost,      \* a data-file that is of no use
  Silence    \* no reply

VARIABLES
  command,
  kept,   \* the text in the data-file, a record [data, size]
  reply   \* the reply to a command that looks for a pattern

meaning == command.means
Running(kind) == command # Idle /\ meaning.kind = kind

\* The positions of the text t at which the pattern w is to be found.
Occurrences(t, w) == {i \in 0 .. t.size : HasPrefix(t.data, t.size, i, w.inf, w.len)}

Init == command = Idle /\ kept = Absent /\ reply = Silence

Begin == command = Idle /\ command' \in Commands /\ reply' = Silence /\ UNCHANGED kept

Empty == Running("create") /\ kept' = Lost /\ UNCHANGED <<command, reply>>

Fill == Running("create") /\ kept = Lost /\ kept' = meaning.text /\ UNCHANGED <<command, reply>>

Search ==
  /\ Running("search") /\ reply' = Occurrences(meaning.text, meaning.pattern)
  /\ UNCHANGED <<command, kept>>

\* Nothing is promised of a data-file that was lost.
Find ==
  /\ Running("find") /\ kept # Absent
  /\ kept # Lost => reply' = Occurrences(kept, meaning.pattern)
  /\ UNCHANGED <<command, kept>>

\* A command that looks for a pattern has replied, unless there is no data-file or one
\* that was lost; to create one may fail at any time.
End ==
  /\ command # Idle
  /\ Running("search") \/ (Running("find") /\ kept \notin {Absent, Lost}) => reply # Silence
  /\ command' = Idle
  /\ UNCHANGED <<kept, reply>>

Next == Begin \/ Empty \/ Fill \/ Search \/ Find \/ End

Spec == Init /\ [][Next]_<<command, kept, reply>>
=============================================================================
