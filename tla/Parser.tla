------------------------------- MODULE Parser -------------------------------
(***************************************************************************)
(* Parse: from the lines of a text to the chapters and volumes of a book.  *)
(* A line is what the regular expressions see of it, and sections refer to *)
(* lines by their number.  Escaping, trimming, decoding and the mark-up    *)
(* around a paragraph are left out.                                        *)
(***************************************************************************)
EXTENDS Integers, Sequences, SequencesExt

(* "unknown" is a title that reads like UnknowTitle; "excluded" matches    *)
(* like a volume and ExclusionReg too; "overlong" is longer than Max.      *)
Line == {"volume", "chapter", "extra", "unknown", "excluded", "overlong", "text", "blank"}

IsVolume(l)  == l \in {"volume", "excluded", "overlong"}
IsChapter(l) == l \in {"volume", "chapter", "extra", "unknown", "excluded", "overlong"}

IsTitle(l) ==
  /\ l # "overlong"
  /\ l # "excluded"
  /\ IsVolume(l) \/ IsChapter(l)

\* titles that no line has: none, UnknowTitle and that of the tutorial
NoTitle == -1
UnknowTitle == 0
TutorialTitle == -2

Section(title, content) == [title |-> title, content |-> content, sections |-> <<>>]

-----------------------------------------------------------------------------
(* The text is cut at its titles.  What has been read since the last one   *)
(* is in title and content, what was read before that in list.             *)

(* Mutant of CutAt: the buffer is not reset. *)
CutAt_NoReset(text, read, i) ==
  LET title == IF read.title = NoTitle THEN UnknowTitle ELSE read.title IN
    [title |-> i, content |-> read.content,
     list |-> IF read.content # <<>> \/ title # UnknowTitle
              THEN Append(read.list, Section(title, read.content)) ELSE read.list]

(* Only a section without text whose title is UnknowTitle is left out.     *)
CutAt(text, read, i) ==
  LET title   == IF read.title = NoTitle THEN UnknowTitle ELSE read.title
      unknown == title = UnknowTitle \/ text[title] = "unknown" IN
    [title |-> i, content |-> <<>>,
     list |-> IF read.content # <<>> \/ ~ unknown
              THEN Append(read.list, Section(title, read.content)) ELSE read.list]

(* A last line without a newline is text, whatever it matches.             *)
ReadLine(text, terminated, read, i) ==
  IF text[i] = "blank" THEN read
  ELSE IF IsTitle(text[i]) /\ (terminated \/ i < Len(text)) THEN CutAt(text, read, i)
  ELSE [read EXCEPT !.content = Append(@, i)]

(* The last section is added at the end of the file, even without text.    *)
Cut(text, terminated) ==
  LET read[i \in 0..Len(text)] ==
        IF i = 0 THEN [title |-> NoTitle, content |-> <<>>, list |-> <<>>]
        ELSE ReadLine(text, terminated, read[i - 1], i)
      last == read[Len(text)]
  IN Append(last.list, Section(last.title, last.content))

-----------------------------------------------------------------------------
(* Chapters after the title of a volume go into that volume, until the     *)
(* next volume or an extra chapter.                                        *)

Closed(acc) == acc.done \o acc.open

WithSection(volume, s) == [volume EXCEPT !.sections = Append(@, s)]

AddSection(text, volumes, acc, s) ==
  LET line == IF s.title > 0 THEN text[s.title] ELSE "text" IN
    IF volumes /\ IsVolume(line) THEN [done |-> Closed(acc), open |-> <<s>>]
    ELSE IF line = "extra" THEN [done |-> Append(Closed(acc), s), open |-> <<>>]
    ELSE IF acc.open = <<>> THEN [done |-> Append(acc.done, s), open |-> <<>>]
    ELSE [done |-> acc.done, open |-> <<WithSection(acc.open[1], s)>>]

Group(text, volumes, list) ==
  LET grouped[m \in 0..Len(list)] ==
        IF m = 0 THEN [done |-> <<>>, open |-> <<>>]
        ELSE AddSection(text, volumes, grouped[m - 1], list[m])
  IN Closed(grouped[Len(list)])

(* book has the fields text, terminated, volumes (VolumeMatch is not       *)
(* "false") and tips.                                                      *)
Parse(book) ==
  LET sections == Group(book.text, book.volumes, Cut(book.text, book.terminated))
      tutorial == <<Section(TutorialTitle, <<>>)>>
  IN IF book.tips THEN tutorial \o sections \o tutorial ELSE sections

-----------------------------------------------------------------------------
(* What a list of sections should be, told from the lines *)

Titles(book) ==
  {i \in DOMAIN book.text : IsTitle(book.text[i]) /\ (book.terminated \/ i < Len(book.text))}

\* the last of a set of lines up to line i, or 0
LastUpTo(S, i) == CHOOSE j \in S \cup {0} : j <= i /\ \A k \in S : k <= i => k <= j

TitleOf(book, i) == LastUpTo(Titles(book), i)

VolumeOf(book, i) ==
  LET ends == {j \in Titles(book) : IsVolume(book.text[j]) \/ book.text[j] = "extra"}
      last == LastUpTo(ends, i)
  IN IF book.volumes /\ last # 0 /\ IsVolume(book.text[last]) THEN last ELSE 0

\* a title that reads like UnknowTitle and has no text up to the next title
IsLost(book, i) ==
  /\ i \in Titles(book) /\ book.text[i] = "unknown"
  /\ \E j \in Titles(book) : j > i /\ \A k \in i + 1 .. j - 1 : book.text[k] = "blank"

LinesOf(section) == {i \in {section.title} \cup ToSet(section.content) : i > 0}

AllLinesOf(section) ==
  LinesOf(section) \cup UNION {LinesOf(section.sections[j]) : j \in DOMAIN section.sections}

Before(M, N) == \A m \in M, n \in N : m < n

InOrder(section) ==
  \A n \in DOMAIN section.content :
    /\ section.title < section.content[n]
    /\ \A m \in 1 .. n - 1 : section.content[m] < section.content[n]

(* Every line that is not blank is in the book once, in order: the title   *)
(* of a section, its text, the sections in it, the next section.           *)
KeepsLines(book, sections) ==
  /\ UNION {AllLinesOf(sections[k]) : k \in DOMAIN sections} =
       {i \in DOMAIN book.text : book.text[i] # "blank" /\ ~ IsLost(book, i)}
  /\ \A k \in DOMAIN sections :
       LET s == sections[k] IN
         /\ InOrder(s)
         /\ \A l \in 1 .. k - 1 : Before(AllLinesOf(sections[l]), AllLinesOf(s))
         /\ \A j \in DOMAIN s.sections :
              /\ InOrder(s.sections[j])
              /\ Before(LinesOf(s), LinesOf(s.sections[j]))
              /\ \A l \in 1 .. j - 1 : Before(LinesOf(s.sections[l]), LinesOf(s.sections[j]))

(* The text of a section is that between its title and the next.           *)
TextIsUnderItsTitle(book, sections) ==
  LET under(s) == \A n \in DOMAIN s.content :
                    TitleOf(book, s.content[n]) = IF s.title > 0 THEN s.title ELSE 0
  IN \A k \in DOMAIN sections :
       /\ under(sections[k])
       /\ \A j \in DOMAIN sections[k].sections : under(sections[k].sections[j])

(* A chapter is in the volume whose title is the last before it, unless an *)
(* extra chapter comes between them, and in none otherwise.                *)
ChaptersAreInTheirVolume(book, sections) ==
  \A k \in DOMAIN sections :
    LET s == sections[k] IN
      /\ s.title > 0 => VolumeOf(book, s.title) \in {0, s.title}
      /\ \A j \in DOMAIN s.sections :
           /\ s.sections[j].title > 0
           /\ s.title > 0 /\ VolumeOf(book, s.sections[j].title) = s.title
=============================================================================
