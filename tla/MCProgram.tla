-------------------------------- MODULE MCProgram --------------------------------
(***************************************************************************)
(* Any sequence of commands that create a data-file from one of four texts,*)
(* find in it, or search one of ten corpora, with and without its newlines.*)
(***************************************************************************)
EXTENDS Program, SequencesExt

\* Symbols: 1 is the newline.
MCCorpusFile ==
  [name \in {"empty", "a", "nl", "a nl", "nl a b", "ba", "aba", "lines", "abc", "seven"} |->
     CASE name = "empty" -> << >>    [] name = "a" -> <<2>>         [] name = "nl" -> <<1, 1>>
       [] name = "a nl" -> <<2, 1>>  [] name = "nl a b" -> <<1, 2, 3>>
       [] name = "ba" -> <<3, 2>>    [] name = "aba" -> <<2, 3, 2>>
       [] name = "lines" -> <<2, 1, 2>> [] name = "abc" -> <<2, 3, 4>>
       [] name = "seven" -> <<3, 2, 1, 2, 3, 6, 2>>]

MCFiles == {MCCorpusFile[name] : name \in DOMAIN MCCorpusFile}

MCPattern ==
  [word \in {"a", "ab", "c"} |->
     CASE word = "a" -> [inf |-> [d \in {0} |-> 2], len |-> 1]
       [] word = "ab" -> [inf |-> [d \in 0 .. 1 |-> 2 + d], len |-> 2]
       [] word = "c" -> [inf |-> [d \in {0} |-> 4], len |-> 1]]

\* The text of a corpus.
TextOf(name, filtered) ==
  LET f == IF filtered THEN SelectSeq(MCCorpusFile[name], LAMBDA c : c # 1) ELSE MCCorpusFile[name]
  IN  [data |-> [p \in 0 .. Len(f) - 1 |-> f[p + 1]], size |-> Len(f)]

\* The command line a, and what the manual says it does; a text of one symbol is refused.
Does(a, kind, text, word) ==
  [args |-> a,
   means |-> [kind |-> IF kind # "find" /\ text.size < 2 THEN "refuse" ELSE kind,
              text |-> text, pattern |-> MCPattern[word]]]

MCCommands ==
  {Does(<<"ba">>, "create", TextOf("ba", FALSE), "a"),
   Does(<<"-i", "aba", "-np">>, "create", TextOf("aba", FALSE), "a"),
   Does(<<"-fn", "lines">>, "create", TextOf("lines", TRUE), "a"),
   Does(<<"-is", "-i", "lines">>, "create", TextOf("lines", FALSE), "a"),
   Does(<<"-f", "a", "-i", "SA_DATA">>, "find", TextOf("a", FALSE), "a"),
   Does(<<"-i", "SA_DATA", "-f", "ab">>, "find", TextOf("a", FALSE), "ab"),
   Does(<<"-i", "SA_DATA", "-f", "c", "-n">>, "find", TextOf("a", FALSE), "c"),
   Does(<<"none", "a">>, "refuse", TextOf("a", FALSE), "a"),
   Does(<<"-f", "a">>, "refuse", TextOf("a", FALSE), "a")}
  \cup {Does(<<name, "ab">>, "search", TextOf(name, FALSE), "ab") : name \in DOMAIN MCCorpusFile}
  \cup {Does(<<name, "-fn", "a">>, "search", TextOf(name, TRUE), "a") : name \in DOMAIN MCCorpusFile}

MCArgLists == {c.args : c \in MCCommands}
=============================================================================
