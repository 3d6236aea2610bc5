---------------------------- MODULE MCTextPipeline ----------------------------
(* A small instance of TextPipeline for TLC: every text file of MaxLength     *)
(* characters that the separators tell apart, and Markdown and PDF files of   *)
(* up to three lines or pages.                                                *)
EXTENDS TextPipeline

CONSTANTS MaxLength, TitleA, TitleB

CharacterClasses == {"x", ".", " ", "\n"}
SeparatorStrings == <<<<"\n", "\n">>, <<"\n">>, <<".", " ">>, <<" ">>>>
BlankCharacters == {" ", "\n"}
NoDocuments == {<<>>}

File(format, intact, parts) == [format |-> format, intact |-> intact, parts |-> parts]
Plain(text) == [text |-> text, title |-> NoTitle]

TextFiles == {File("txt", TRUE, <<Plain(t)>>) : t \in [1 .. MaxLength -> CharacterClasses]}
             \cup {File("txt", FALSE, <<Plain(<<"x">>)>>), File("txt", TRUE, <<Plain(<<>>)>>)}

\* A heading is short here: "#" is "x".
Lines == {[text |-> <<"x", "\n">>, title |-> TitleA], [text |-> <<"x", "\n">>, title |-> TitleB],
          Plain(<<"\n">>), Plain(<<"x", "\n">>), Plain(<<" ", "x", ".">>)}
UpTo(n, parts) == UNION {[1 .. m -> parts] : m \in 0 .. n}
MarkdownFiles == {File("md", TRUE, parts) : parts \in UpTo(3, Lines)}

Pages == {Plain(<<>>), Plain(<<" ", "\n">>), Plain(<<"x", " ", "x">>)}
PdfFiles == {File("pdf", intact, parts) : intact \in BOOLEAN, parts \in UpTo(3, Pages)}

Files == TextFiles \cup MarkdownFiles \cup PdfFiles

\* Without overlap, below, at and above half the size, and up to size - 1.
SomeSettings == {[size |-> 1, overlap |-> 0], [size |-> 2, overlap |-> 1],
                 [size |-> 3, overlap |-> 2], [size |-> 4, overlap |-> 1],
                 [size |-> 4, overlap |-> 2], [size |-> 4, overlap |-> 3]}
=============================================================================
