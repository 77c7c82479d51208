------------------------ MODULE StreamResponseProofs ------------------------
(***************************************************************************)
(* Proofs about StreamResponse, for any number of collections and features *)
(* and any chunk size.                                                     *)
(***************************************************************************)
EXTENDS StreamResponse, SequenceTheorems, WellFoundedInduction, TLAPS

(* What each piece of text is at most.                                     *)
IsText(text, n) == text \in Seq(Token) /\ Len(text) <= n

LEMMA Singletons ==
    ASSUME NEW t \in Token
    PROVE  IsText(<<t>>, 1)
BY DEF IsText

LEMMA Pairs ==
    ASSUME NEW s, NEW t, NEW m \in Nat, NEW n \in Nat, IsText(s, m), IsText(t, n)
    PROVE  IsText(s \o t, m + n)
<1>1. s \o t \in Seq(Token) /\ Len(s \o t) = Len(s) + Len(t)
  BY ConcatProperties DEF IsText
<1>2. Len(s) \in Nat /\ Len(t) \in Nat
  BY LenProperties DEF IsText
<1> QED
  BY <1>1, <1>2 DEF IsText

(* A piece that is left out has no length.                                 *)
LEMMA Optional ==
    ASSUME NEW c, NEW s, NEW n \in Nat, IsText(s, n)
    PROVE  IsText(OnlyIf(c, s), n)
<1>1. IsText(<<>>, n)
  BY EmptySeq DEF IsText
<1> QED
  BY <1>1 DEF OnlyIf

Writable == {"<collection>", "</collection>", "<sub>", "</sub>", "<member>", "</member>",
             "<feature>", "note", "truncated", "[", "]", "comma", "footer", "comment", "blank",
             "columns", "message"}

LEMMA Texts == ASSUME NEW t \in Writable PROVE IsText(<<Text(t)>>, 1)
<1>1. Text(t) \in Token
  BY DEF Text, Token, Writable
<1> QED
  BY <1>1, Singletons

(* Header and footer, with what a format prints between them.              *)
LEMMA FrameTexts ==
    ASSUME format \in Formats
    PROVE  /\ IsText(Header, 1)
           /\ IsText(BeforeFooter, 1)
           /\ IsText(Footer, 1)
<1>1. IsText(<<>>, 1)
  BY EmptySeq DEF IsText
<1>2. format \in {"gml", "geojson", "csv"}
  BY FormatsAssumption
<1>3. /\ IsText(<<Text("<collection>")>>, 1) /\ IsText(<<Text("[")>>, 1)
      /\ IsText(<<Text("]")>>, 1) /\ IsText(<<Text("</collection>")>>, 1)
      /\ IsText(<<Text("footer")>>, 1)
  BY Texts DEF Writable
<1>4. IsText(BeforeFooter, 1)
  BY <1>3, Optional DEF BeforeFooter
<1> QED
  BY <1>1, <1>2, <1>3, <1>4 DEF Header, Footer

LEMMA CollectionTexts ==
    ASSUME format \in Formats
    PROVE  /\ IsText(Note, 1)
           /\ IsText(Opening, 3)
           /\ IsText(SubClosing, 2)
           /\ IsText(Closing, 2)
<1>1. format \in {"gml", "geojson", "csv"}
  BY FormatsAssumption
<1>2. /\ IsText(<<Text("note")>>, 1) /\ IsText(<<Text("<member>")>>, 1)
      /\ IsText(<<Text("<sub>")>>, 1) /\ IsText(<<Text("</sub>")>>, 1)
      /\ IsText(<<Text("</member>")>>, 1) /\ IsText(<<Text("comma")>>, 1)
      /\ IsText(<<Text("blank")>>, 1) /\ IsText(<<Text("columns")>>, 1)
  BY Texts DEF Writable
<1>3. SubOpening = <<Text("<member>")>> \o <<Text("<sub>")>>
  BY DEF SubOpening
<1>4. SubClosing = <<Text("</sub>")>> \o <<Text("</member>")>>
  BY DEF SubClosing
<1>5. IsText(SubOpening, 2) /\ IsText(SubClosing, 2)
  <2>1. IsText(SubOpening, 1 + 1)
    BY <1>2, <1>3, Pairs
  <2>2. IsText(SubClosing, 1 + 1)
    BY <1>2, <1>4, Pairs
  <2> QED BY <2>1, <2>2
<1>6. IsText(Note, 1)
  BY <1>2, Optional DEF Note
<1>7. IsText(Note \o OnlyIf(Multiple, SubOpening), 3)
  <2>1. IsText(OnlyIf(Multiple, SubOpening), 2)
    BY <1>5, Optional
  <2>2. IsText(Note \o OnlyIf(Multiple, SubOpening), 1 + 2)
    BY <1>6, <2>1, Pairs
  <2> QED BY <2>2
<1>8. IsText(OnlyIf(at > 1, <<Text("comma")>>), 3)
  <2>1. IsText(<<Text("comma")>>, 3)
    BY <1>2, LenProperties DEF IsText
  <2> QED BY <2>1, Optional
<1>9. IsText(OnlyIf(at > 1, <<Text("blank")>>) \o <<Text("columns")>>, 3)
  <2>1. IsText(OnlyIf(at > 1, <<Text("blank")>>), 1)
    BY <1>2, Optional
  <2>2. IsText(OnlyIf(at > 1, <<Text("blank")>>) \o <<Text("columns")>>, 1 + 1)
    BY <1>2, <2>1, Pairs
  <2> QED BY <2>2 DEF IsText
<1>10. IsText(Closing, 2)
  BY <1>5, Optional DEF Closing
<1> QED
  BY <1>1, <1>5, <1>6, <1>7, <1>8, <1>9, <1>10 DEF Opening

LEMMA FeatureTexts ==
    ASSUME format \in Formats, at \in Nat, read \in Nat
    PROVE  /\ IsText(BeforeFeature \o <<Feature(at, read)>> \o AfterFeature, LongestFeature)
           /\ IsText(BeforeFeature \o OnlyIf(format = "gml", <<Text("<feature>")>>), 2)
<1>1. format \in {"gml", "geojson", "csv"}
  BY FormatsAssumption
<1>2. /\ IsText(<<Text("<member>")>>, 1) /\ IsText(<<Text("comma")>>, 1)
      /\ IsText(<<Text("</member>")>>, 1) /\ IsText(<<Text("<feature>")>>, 1)
  BY Texts DEF Writable
<1>3. IsText(<<>>, 1)
  BY EmptySeq DEF IsText
<1>4. IsText(OnlyIf(read > 1, <<Text("comma")>>), 1)
  BY <1>2, Optional
<1>5. IsText(BeforeFeature, 1)
  BY <1>1, <1>2, <1>3, <1>4 DEF BeforeFeature
<1>6. IsText(AfterFeature, 1)
  BY <1>2, Optional DEF AfterFeature
<1>7. IsText(<<Feature(at, read)>>, 1)
  <2>1. Feature(at, read) \in Token
    BY DEF Feature, Token
  <2> QED BY <2>1, Singletons
<1>8. IsText(BeforeFeature \o <<Feature(at, read)>>, 1 + 1)
  BY <1>5, <1>7, Pairs
<1>9. IsText(BeforeFeature \o <<Feature(at, read)>> \o AfterFeature, 1 + 1 + 1)
  <2>1. 1 + 1 \in Nat
    OBVIOUS
  <2> QED BY <1>6, <1>8, <2>1, Pairs
<1>10. IsText(OnlyIf(format = "gml", <<Text("<feature>")>>), 1)
  BY <1>2, Optional
<1>11. IsText(BeforeFeature \o OnlyIf(format = "gml", <<Text("<feature>")>>), 1 + 1)
  BY <1>5, <1>10, Pairs
<1> QED
  BY <1>9, <1>11 DEF LongestFeature

(* What render_exception() adds.                                           *)
LEMMA TruncationTexts ==
    ASSUME format \in Formats, NEW s
    PROVE  IsText(Truncation(s), 4)
<1>1. format \in {"gml", "geojson", "csv"}
  BY FormatsAssumption
<1>2. /\ IsText(<<Text("truncated")>>, 1) /\ IsText(<<Text("</collection>")>>, 1)
      /\ IsText(<<Text("comment")>>, 1) /\ IsText(<<Text("message")>>, 1)
  BY Texts DEF Writable
<1>3. IsText(<<Text("truncated"), Text("</collection>")>>, 2)
  <2>1. Text("truncated") \in Token /\ Text("</collection>") \in Token
    BY DEF Text, Token
  <2> QED BY <2>1 DEF IsText
<1>4. IsText(OnlyIf(Multiple /\ ~IsSuffix(SubClosing, s), SubClosing), 2)
  BY CollectionTexts, Optional
<1>5. IsText(OnlyIf(Multiple /\ ~IsSuffix(SubClosing, s), SubClosing)
             \o <<Text("truncated"), Text("</collection>")>>, 2 + 2)
  BY <1>3, <1>4, Pairs
<1>6. IsText(<<Text("comment")>>, 4) /\ IsText(<<Text("message")>>, 4)
  BY <1>2 DEF IsText
<1> QED
  BY <1>1, <1>5, <1>6 DEF Truncation

(* Sums of lengths.                                                        *)
LEMMA Appended ==
    ASSUME NEW s \in Seq(Token), NEW t, NEW n \in Nat, IsText(t, n)
    PROVE  /\ s \o t \in Seq(Token)
           /\ Len(s \o t) \in Nat
           /\ Len(s \o t) <= Len(s) + n
BY ConcatProperties, LenProperties DEF IsText

-----------------------------------------------------------------------------
(* The positions of the generator, and that a chunk is waiting only when   *)
(* somebody else than the generator has the turn.                          *)
Positions ==
    /\ pc \in {"read", "write", "flush"} => at <= Len(page)
    /\ pc = "header" => at = 1 /\ read = 0
    /\ turn = "renderer" => chunk = <<>> /\ pc \notin {"exhausted", "raised"}
    /\ turn = "view" => status = "none"

TypeInv == TypeOK /\ Positions

LEMMA PageIsSequence ==
    ASSUME TypeOK
    PROVE  /\ Len(page) \in Nat /\ Len(page) >= 1
           /\ \A c \in 1..Len(page) : page[c] \in Nat
<1>1. page \in Seq(Nat) /\ page # <<>>
  BY PagesAssumption DEF TypeOK
<1> QED
  BY <1>1, EmptySeq, LenProperties

LEMMA PositionIsNumber ==
    ASSUME TypeOK
    PROVE  at \in Nat /\ at >= 1 /\ at <= Len(page) + 1 /\ read \in Nat
<1>1. at \in 1..Len(page) + 1 /\ read \in Nat
  BY DEF TypeOK
<1>2. Len(page) \in Nat
  BY PageIsSequence
<1> QED
  BY <1>1, <1>2

LEMMA TypeInit == Init => TypeInv
<1> SUFFICES ASSUME Init PROVE TypeInv
  OBVIOUS
<1>1. page \in Seq(Nat) /\ page # <<>>
  BY PagesAssumption DEF Init
<1>2. Len(page) \in Nat /\ Len(page) >= 1 /\ \A c \in 1..Len(page) : page[c] \in Nat
  BY <1>1, EmptySeq, LenProperties
<1>3. <<>> \in Seq(Token)
  BY EmptySeq
<1> QED
  BY <1>2, <1>3 DEF Init, TypeInv, TypeOK, Positions

(* An exception anywhere: what it writes has the type of a text.           *)
LEMMA FailType ==
    ASSUME TypeInv, NEW kind \in {"filter", "other"}, NEW text, NEW n \in Nat,
           IsText(text, n), Fail(kind, text), turn = "renderer"
    PROVE  TypeInv'
<1> USE DEF TypeInv, Fail, HttpStatus
<1>1. CASE status = "none"
  <2>1. output' \in Seq(Token)
    BY <1>1, EmptySeq
  <2> QED BY <1>1, <2>1 DEF TypeOK, Positions, request
<1>2. CASE status # "none"
  <2>1. output \o text \in Seq(Token) /\ document \o text \in Seq(Token)
    BY Appended DEF TypeOK
  <2>2. IsText(Truncation(output \o text), 4)
    BY TruncationTexts DEF TypeOK
  <2>3. /\ output \o text \o Truncation(output \o text) \in Seq(Token)
        /\ document \o text \o Truncation(output \o text) \in Seq(Token)
    BY <2>1, <2>2, Appended
  <2> QED BY <1>2, <2>1, <2>3 DEF TypeOK, Positions, request
<1> QED
  BY <1>1, <1>2

LEMMA TypeStep == TypeInv /\ [Next]_vars => TypeInv'
<1> SUFFICES ASSUME TypeInv, [Next]_vars PROVE TypeInv'
  OBVIOUS
<1> USE DEF TypeInv
<1>p. /\ Len(page) \in Nat /\ Len(page) >= 1
      /\ \A c \in 1..Len(page) : page[c] \in Nat
  BY PageIsSequence
<1>0. /\ format \in Formats /\ at \in Nat /\ at >= 1 /\ at <= Len(page) + 1 /\ read \in Nat
      /\ output \in Seq(Token) /\ document \in Seq(Token)
  BY PositionIsNumber DEF TypeOK
<1>w. ASSUME NEW text, NEW n \in Nat, IsText(text, n), Writes(text)
      PROVE  output' \in Seq(Token) /\ document' \in Seq(Token)
  BY <1>0, <1>w, Appended DEF Writes
<1>1. CASE WriteHeader
  <2>1. output' \in Seq(Token) /\ document' \in Seq(Token)
    BY <1>0, <1>1, <1>w, FrameTexts DEF WriteHeader
  <2> QED BY <1>1, <2>1 DEF WriteHeader, Running, TypeOK, Positions, request
<1>2. CASE OpenCollection
  <2>1. output' \in Seq(Token) /\ document' \in Seq(Token)
    BY <1>0, <1>2, <1>w, CollectionTexts DEF OpenCollection
  <2>2. 0 <= page[at] /\ at <= Len(page)
    BY <1>p, <1>0, <1>2 DEF OpenCollection
  <2> QED BY <1>2, <2>1, <2>2 DEF OpenCollection, Running, TypeOK, Positions, request
<1>3. CASE ReadFeature
  <2>1. at <= Len(page) /\ page[at] \in Nat
    BY <1>p, <1>0, <1>3 DEF ReadFeature, Running, Positions
  <2>2. read + 1 \in Nat /\ read + 1 <= page[at]
    BY <1>0, <1>3, <2>1 DEF ReadFeature
  <2> QED BY <1>3, <2>1, <2>2 DEF ReadFeature, Running, TypeOK, Positions, request
<1>4. CASE WriteFeature
  <2>1. output' \in Seq(Token) /\ document' \in Seq(Token)
    BY <1>0, <1>4, <1>w, FeatureTexts DEF WriteFeature, LongestFeature
  <2> QED BY <1>4, <2>1 DEF WriteFeature, Running, TypeOK, Positions, request
<1>5. CASE Flush
  <2>1. output' \in Seq(Token)
    BY <1>5, EmptySeq DEF Flush
  <2> QED BY <1>0, <1>5, <2>1 DEF Flush, Yields, Running, TypeOK, Positions, request
<1>6. CASE CloseCollection
  <2>1. output' \in Seq(Token) /\ document' \in Seq(Token)
    BY <1>0, <1>6, <1>w, CollectionTexts DEF CloseCollection
  <2>2. at + 1 \in 1..Len(page) + 1
    BY <1>p, <1>0, <1>6 DEF CloseCollection, Running, Positions
  <2>3. at + 1 <= Len(page) => 0 <= page[at + 1]
    BY <1>p, <2>2
  <2> QED BY <1>6, <2>1, <2>2, <2>3 DEF CloseCollection, Running, TypeOK, Positions, request
<1>7. CASE EndCollections
  BY <1>7 DEF EndCollections, Running, TypeOK, Positions, request
<1>8. CASE WriteFooter
  <2>1. IsText(BeforeFooter \o Footer, 1 + 1)
    BY <1>0, FrameTexts, Pairs
  <2>2. output' \in Seq(Token) /\ document' \in Seq(Token)
    BY <1>8, <2>1, <1>w DEF WriteFooter
  <2> QED BY <1>8, <2>2 DEF WriteFooter, Running, TypeOK, Positions, request
<1>9. CASE YieldLast
  BY <1>0, <1>9 DEF YieldLast, Yields, Running, TypeOK, Positions, request
<1>10. CASE Failing
  <2>1. IsText(<<>>, 1)
    BY EmptySeq DEF IsText
  <2>2. CASE FailHeader
    BY <2>1, <2>2, FailType DEF FailHeader, Running, QueryErrors
  <2>3. CASE FailCollection
    BY <1>0, <2>3, CollectionTexts, FailType DEF FailCollection, Running, QueryErrors
  <2>4. CASE FailRead
    BY <2>1, <2>4, FailType DEF FailRead, Running, QueryErrors
  <2>5. CASE FailFeature
    BY <1>0, <2>5, FeatureTexts, FailType DEF FailFeature, Running, RenderErrors
  <2>6. CASE FailFooter
    BY <1>0, <2>6, FrameTexts, FailType DEF FailFooter, Running, QueryErrors
  <2> QED BY <1>10, <2>2, <2>3, <2>4, <2>5, <2>6 DEF Failing
<1>11. CASE HandOver
  BY <1>11 DEF HandOver, TypeOK, Positions, request
<1>12. CASE Send
  <2>1. sent' \in Seq(Token) /\ chunk' \in Seq(Token)
    BY <1>12, ConcatProperties, EmptySeq DEF Send, TypeOK
  <2> QED BY <1>12, <2>1 DEF Send, TypeOK, Positions, request
<1>13. CASE Leave
  BY <1>13 DEF Leave, TypeOK, Positions, request
<1>14. CASE UNCHANGED vars
  BY ZenonT(30), <1>14 DEF vars, request, TypeOK, Positions
<1> QED
  BY <1>1, <1>2, <1>3, <1>4, <1>5, <1>6, <1>7, <1>8, <1>9, <1>10, <1>11, <1>12, <1>13, <1>14
  DEF Next, Render

LEMMA TypeInvariant == Spec => []TypeInv
BY TypeInit, TypeStep, PTL DEF Spec

(* The variables of a response keep their types, whatever fails: the       *)
(* generator never reads beyond a collection or beyond the last one.       *)
THEOREM TypeCorrect == Spec => []TypeOK
<1>1. TypeInv => TypeOK
  BY DEF TypeInv
<1> QED
  BY <1>1, TypeInvariant, PTL

-----------------------------------------------------------------------------
(* Writing, yielding and sending move text without changing it.            *)
LEMMA EmptyMiddle ==
    ASSUME NEW s \in Seq(Token), NEW t \in Seq(Token)
    PROVE  s \o <<>> \o t = s \o t
<1>1. s \o <<>> = s
  BY ConcatEmptySeq
<1> QED
  BY <1>1

LEMMA EmptyEnd ==
    ASSUME NEW s \in Seq(Token)
    PROVE  s \o <<>> = s
BY ConcatEmptySeq

LEMMA Associative ==
    ASSUME NEW s \in Seq(Token), NEW t \in Seq(Token), NEW u \in Seq(Token)
    PROVE  (s \o t) \o u = s \o (t \o u)
BY ConcatAssociative

(* Concatenation as an operator of its own: what follows from its laws     *)
(* alone needs nothing else that is known of sequences.                    *)
Joined(s, t) == s \o t

LEMMA JoinedLaws ==
    /\ \A s, t \in Seq(Token) : Joined(s, t) \in Seq(Token)
    /\ \A s, t, u \in Seq(Token) : Joined(Joined(s, t), u) = Joined(s, Joined(t, u))
    /\ \A s \in Seq(Token) : Joined(s, <<>>) = s
<1>1. \A s, t \in Seq(Token) : Joined(s, t) \in Seq(Token)
  BY ConcatProperties DEF Joined
<1>2. \A s, t, u \in Seq(Token) : Joined(Joined(s, t), u) = Joined(s, Joined(t, u))
  BY Associative DEF Joined
<1>3. \A s \in Seq(Token) : Joined(s, <<>>) = s
  BY EmptyEnd DEF Joined
<1> QED
  BY <1>1, <1>2, <1>3

LEMMA Regrouped ==
    ASSUME NEW s \in Seq(Token), NEW t \in Seq(Token), NEW u \in Seq(Token),
           NEW v \in Seq(Token)
    PROVE  Joined(Joined(s, Joined(Joined(t, u), v)), <<>>) = Joined(Joined(Joined(s, t), u), v)
<1>1. /\ Joined(t, u) \in Seq(Token)
      /\ Joined(Joined(t, u), v) \in Seq(Token)
      /\ Joined(s, Joined(Joined(t, u), v)) \in Seq(Token)
  BY JoinedLaws
<1> QED
  BY <1>1, JoinedLaws

LEMMA KeptByWriting ==
    ASSUME TypeInv, NothingIsLostOrRepeated, turn = "renderer",
           NEW text, NEW n \in Nat, IsText(text, n), Writes(text),
           pc' \notin {"exhausted", "raised"}, UNCHANGED <<sent, chunk, status>>
    PROVE  NothingIsLostOrRepeated'
<1> SUFFICES ASSUME status \in {"none", "ok"}
             PROVE  sent \o chunk \o output' = document'
  BY DEF NothingIsLostOrRepeated, Buffered
<1>1. /\ sent \in Seq(Token) /\ output \in Seq(Token) /\ text \in Seq(Token)
      /\ chunk = <<>> /\ Buffered = output
  BY DEF TypeInv, TypeOK, Positions, Buffered, IsText
<1>2. sent \o output = document
  BY <1>1, EmptyMiddle DEF NothingIsLostOrRepeated
<1>3. output \o text \in Seq(Token)
  BY <1>1, ConcatProperties
<1>4. sent \o chunk \o output' = sent \o (output \o text)
  BY <1>1, <1>3, EmptyMiddle DEF Writes
<1>5. sent \o (output \o text) = (sent \o output) \o text
  BY SMTT(30), <1>1, ConcatAssociative
<1> QED
  BY <1>2, <1>4, <1>5 DEF Writes

LEMMA KeptByFailing ==
    ASSUME TypeInv, NothingIsLostOrRepeated, turn = "renderer",
           NEW kind \in {"filter", "other"}, NEW text, NEW n \in Nat, IsText(text, n),
           Fail(kind, text)
    PROVE  NothingIsLostOrRepeated'
<1>1. CASE status = "none"
  BY <1>1 DEF Fail, HttpStatus, NothingIsLostOrRepeated
<1>2. CASE status # "none"
  <2> DEFINE last == Truncation(output \o text)
  <2> SUFFICES ASSUME status \in {"none", "ok"}
               PROVE  sent \o (output \o text \o last) \o <<>> = document \o text \o last
    BY <1>2 DEF Fail, NothingIsLostOrRepeated, Buffered
  <2>1. /\ sent \in Seq(Token) /\ output \in Seq(Token) /\ text \in Seq(Token)
        /\ document \in Seq(Token) /\ chunk = <<>> /\ Buffered = output
    BY DEF TypeInv, TypeOK, Positions, Buffered, IsText
  <2>2. IsText(last, 4)
    BY TruncationTexts DEF TypeInv, TypeOK
  <2>3. last \in Seq(Token)
    BY <2>2 DEF IsText
  <2> HIDE DEF last
  <2>4. sent \o output = document
    BY <2>1, EmptyMiddle DEF NothingIsLostOrRepeated
  <2>5. sent \o (output \o text \o last) \o <<>> = (sent \o output) \o text \o last
    <3>1. Joined(Joined(sent, Joined(Joined(output, text), last)), <<>>)
          = Joined(Joined(Joined(sent, output), text), last)
      BY <2>1, <2>3, Regrouped
    <3> QED BY <3>1 DEF Joined
  <2> QED BY <2>4, <2>5
<1> QED
  BY <1>1, <1>2

LEMMA KeptByYielding ==
    ASSUME TypeInv, NothingIsLostOrRepeated, turn = "renderer",
           Yields, Buffered' = <<>>, UNCHANGED <<sent, status, document>>
    PROVE  NothingIsLostOrRepeated'
<1> SUFFICES ASSUME status \in {"none", "ok"}
             PROVE  sent \o output \o <<>> = document
  BY DEF Yields, NothingIsLostOrRepeated
<1>1. sent \in Seq(Token) /\ output \in Seq(Token) /\ chunk = <<>> /\ Buffered = output
  BY DEF TypeInv, TypeOK, Positions, Buffered
<1>2. sent \o output = document
  BY <1>1, EmptyMiddle DEF NothingIsLostOrRepeated
<1>3. sent \o output \in Seq(Token)
  BY <1>1, ConcatProperties
<1> QED
  BY <1>2, <1>3, EmptyEnd

LEMMA KeptByNext ==
    TypeInv /\ NothingIsLostOrRepeated /\ [Next]_vars => NothingIsLostOrRepeated'
<1> SUFFICES ASSUME TypeInv, NothingIsLostOrRepeated, [Next]_vars
             PROVE  NothingIsLostOrRepeated'
  OBVIOUS
<1>0. format \in Formats /\ at \in Nat /\ read \in Nat
  BY PositionIsNumber DEF TypeInv, TypeOK
<1>1. CASE WriteHeader
  BY <1>0, <1>1, FrameTexts, KeptByWriting DEF WriteHeader, Running
<1>2. CASE OpenCollection
  BY <1>0, <1>2, CollectionTexts, KeptByWriting DEF OpenCollection, Running
<1>3. CASE ReadFeature
  BY <1>3 DEF ReadFeature, Running, NothingIsLostOrRepeated, Buffered
<1>4. CASE WriteFeature
  BY <1>0, <1>4, FeatureTexts, KeptByWriting DEF WriteFeature, Running, LongestFeature
<1>5. CASE Flush
  <2>1. Buffered' = <<>>
    BY <1>5 DEF Flush, Buffered
  <2> QED BY <1>5, <2>1, KeptByYielding DEF Flush, Running
<1>6. CASE CloseCollection
  BY <1>0, <1>6, CollectionTexts, KeptByWriting DEF CloseCollection, Running
<1>7. CASE EndCollections
  BY <1>7 DEF EndCollections, Running, NothingIsLostOrRepeated, Buffered
<1>8. CASE WriteFooter
  <2>1. IsText(BeforeFooter \o Footer, 1 + 1)
    BY <1>0, FrameTexts, Pairs
  <2> QED BY <1>8, <2>1, KeptByWriting DEF WriteFooter, Running
<1>9. CASE YieldLast
  <2>1. Buffered' = <<>>
    BY <1>9 DEF YieldLast, Buffered
  <2> QED BY <1>9, <2>1, KeptByYielding DEF YieldLast, Running
<1>10. CASE Failing
  <2>1. IsText(<<>>, 1)
    BY EmptySeq DEF IsText
  <2>2. CASE FailHeader
    BY <2>1, <2>2, KeptByFailing DEF FailHeader, Running, QueryErrors
  <2>3. CASE FailCollection
    BY <1>0, <2>3, CollectionTexts, KeptByFailing DEF FailCollection, Running, QueryErrors
  <2>4. CASE FailRead
    BY <2>1, <2>4, KeptByFailing DEF FailRead, Running, QueryErrors
  <2>5. CASE FailFeature
    BY <1>0, <2>5, FeatureTexts, KeptByFailing DEF FailFeature, Running, RenderErrors
  <2>6. CASE FailFooter
    BY <1>0, <2>6, FrameTexts, KeptByFailing DEF FailFooter, Running, QueryErrors
  <2> QED BY <1>10, <2>2, <2>3, <2>4, <2>5, <2>6 DEF Failing
<1>11. CASE HandOver
  <2>1. status = "none"
    BY <1>11 DEF HandOver, TypeInv, Positions
  <2> QED BY <1>11, <2>1 DEF HandOver, NothingIsLostOrRepeated, Buffered
<1>12. CASE Send
  <2> SUFFICES ASSUME status \in {"none", "ok"}
               PROVE  (sent \o chunk) \o <<>> \o Buffered = document
    BY <1>12 DEF Send, NothingIsLostOrRepeated, Buffered
  <2>1. sent \in Seq(Token) /\ chunk \in Seq(Token) /\ sent \o chunk \in Seq(Token)
    BY ConcatProperties DEF TypeInv, TypeOK
  <2>2. (sent \o chunk) \o <<>> = sent \o chunk
    BY <2>1, EmptyEnd
  <2> QED BY <2>2 DEF NothingIsLostOrRepeated
<1>13. CASE Leave
  BY <1>13 DEF Leave, NothingIsLostOrRepeated, Buffered
<1>14. CASE UNCHANGED vars
  BY <1>14 DEF vars, NothingIsLostOrRepeated, Buffered
<1> QED
  BY <1>1, <1>2, <1>3, <1>4, <1>5, <1>6, <1>7, <1>8, <1>9, <1>10, <1>11, <1>12, <1>13, <1>14
  DEF Next, Render

(* However a response is cut into chunks, and wherever it fails after the  *)
(* first one, the client is sent what was written: in order, nothing twice *)
(* and nothing left behind in the buffer.                                  *)
THEOREM TextIsPreserved == Spec => []NothingIsLostOrRepeated
<1>1. Init => NothingIsLostOrRepeated
  <2>1. <<>> \o <<>> \o <<>> = <<>>
    BY EmptySeq, EmptyEnd
  <2> QED BY <2>1 DEF Init, NothingIsLostOrRepeated, Buffered
<1> QED
  BY <1>1, TypeInvariant, KeptByNext, PTL DEF Spec

-----------------------------------------------------------------------------
(* How long the buffer is, wherever the generator is: between two looks at *)
(* its length there is at most one feature and the frames of collections.  *)
Room == chunkSize + 1 + LongestCollection * (at - 1)
Bounds ==
    /\ pc = "header" => output = <<>>
    /\ pc = "collection" => Len(output) <= Room
    /\ pc \in {"read", "write"} => Len(output) <= Room + 3
    /\ pc = "flush" => Len(output) <= Room + 3 + LongestFeature
    /\ pc = "footer" => Len(output) <= chunkSize + 1 + LongestCollection * Len(page)
    /\ BufferIsBounded

LEMMA BoundsInit == Init => Bounds
<1> SUFFICES ASSUME Init PROVE Bounds
  OBVIOUS
<1>1. Len(page) \in Nat
  BY PagesAssumption, LenProperties DEF Init
<1>2. chunkSize \in Nat /\ Len(output) = 0
  BY ChunkSizesAssumption, EmptySeq DEF Init
<1>3. BufferIsBounded
  BY <1>1, <1>2 DEF BufferIsBounded, LongestFeature, LongestCollection
<1> QED
  BY <1>3 DEF Init, Bounds

LEMMA BoundsStep == TypeInv /\ Bounds /\ [Next]_vars => Bounds'
<1> SUFFICES ASSUME TypeInv, Bounds, [Next]_vars PROVE Bounds'
  OBVIOUS
<1> USE DEF LongestFeature, LongestCollection
<1>p. /\ Len(page) \in Nat /\ Len(page) >= 1 /\ chunkSize \in Nat
  BY PageIsSequence, ChunkSizesAssumption DEF TypeInv, TypeOK
<1>0. /\ format \in Formats /\ at \in Nat /\ at >= 1 /\ at <= Len(page) + 1 /\ read \in Nat
      /\ output \in Seq(Token) /\ Len(output) \in Nat
  BY PositionIsNumber, LenProperties DEF TypeInv, TypeOK
<1>w. ASSUME NEW text, NEW n \in Nat, IsText(text, n), Writes(text)
      PROVE  Len(output') \in Nat /\ Len(output') <= Len(output) + n
  BY <1>0, <1>w, Appended DEF Writes
<1>f. ASSUME NEW kind, NEW text, NEW n \in Nat, IsText(text, n), Fail(kind, text),
             Len(output) + n <= chunkSize + 3 + 5 * Len(page)
      PROVE  Bounds'
  <2>1. Len(output \o text) \in Nat /\ Len(output \o text) <= Len(output) + n
    BY <1>0, <1>f, Appended
  <2>2. output' = output \o text \/ output' = <<>>
    BY <1>f DEF Fail
  <2>3. Len(output') <= chunkSize + 3 + 5 * Len(page)
    BY <1>p, <1>0, <1>f, <2>1, <2>2, EmptySeq
  <2> QED BY <1>f, <2>3 DEF Fail, Bounds, BufferIsBounded, request
<1>1. CASE WriteHeader
  <2>1. Len(output') <= 1 /\ Len(output') \in Nat
    <3>1. Len(output) = 0
      BY <1>1, EmptySeq DEF WriteHeader, Running, Bounds
    <3>2. Len(output') \in Nat /\ Len(output') <= Len(output) + 1
      BY <1>0, <1>1, <1>w, FrameTexts DEF WriteHeader
    <3> QED BY <3>1, <3>2
  <2>2. at = 1
    BY <1>1 DEF WriteHeader, Running, TypeInv, Positions
  <2> QED BY <1>p, <1>1, <2>1, <2>2 DEF WriteHeader, Bounds, Room, BufferIsBounded, request
<1>2. CASE OpenCollection
  <2>1. Len(output') <= Len(output) + 3 /\ Len(output') \in Nat
    BY <1>0, <1>2, <1>w, CollectionTexts DEF OpenCollection
  <2> QED BY <1>p, <1>0, <1>2, <2>1
          DEF OpenCollection, Running, Bounds, Room, BufferIsBounded, request
<1>3. CASE ReadFeature
  BY <1>p, <1>3 DEF ReadFeature, Running, Bounds, Room, BufferIsBounded, request
<1>4. CASE WriteFeature
  <2>1. Len(output') <= Len(output) + 3 /\ Len(output') \in Nat
    BY <1>0, <1>4, <1>w, FeatureTexts DEF WriteFeature
  <2>2. at <= Len(page)
    BY <1>4 DEF WriteFeature, Running, TypeInv, Positions
  <2> QED BY <1>p, <1>0, <1>4, <2>1, <2>2
          DEF WriteFeature, Running, Bounds, Room, BufferIsBounded, request
<1>5. CASE Flush
  <2>1. Len(output') = 0
    BY <1>5, EmptySeq DEF Flush
  <2> QED BY <1>p, <1>0, <1>5, <2>1 DEF Flush, Bounds, Room, BufferIsBounded, request
<1>6. CASE CloseCollection
  <2>1. Len(output') <= Len(output) + 2 /\ Len(output') \in Nat
    BY <1>0, <1>6, <1>w, CollectionTexts DEF CloseCollection
  <2>2. at <= Len(page)
    BY <1>6 DEF CloseCollection, Running, TypeInv, Positions
  <2> QED BY <1>p, <1>0, <1>6, <2>1, <2>2
          DEF CloseCollection, Running, Bounds, Room, BufferIsBounded, request
<1>7. CASE EndCollections
  BY <1>p, <1>0, <1>7 DEF EndCollections, Running, Bounds, Room, BufferIsBounded, request
<1>8. CASE WriteFooter
  <2>1. IsText(BeforeFooter \o Footer, 2)
    <3>1. IsText(BeforeFooter \o Footer, 1 + 1)
      BY <1>0, FrameTexts, Pairs
    <3> QED BY <3>1
  <2>2. Len(output') <= Len(output) + 2 /\ Len(output') \in Nat
    BY <1>8, <2>1, <1>w DEF WriteFooter
  <2> QED BY <1>p, <1>0, <1>8, <2>2
          DEF WriteFooter, Running, Bounds, Room, BufferIsBounded, request
<1>9. CASE YieldLast
  BY <1>9 DEF YieldLast, Running, Bounds, BufferIsBounded, request
<1>10. CASE Failing
  <2>1. IsText(<<>>, 0)
    BY EmptySeq DEF IsText
  <2>2. CASE FailHeader
    <3>1. Len(output) = 0
      BY <2>2, EmptySeq DEF FailHeader, Running, Bounds
    <3> QED BY <1>p, <1>f, <2>1, <2>2, <3>1 DEF FailHeader
  <2>3. CASE FailCollection
    <3>1. Len(output) + 1 <= chunkSize + 3 + 5 * Len(page)
      BY <1>p, <1>0, <2>3 DEF FailCollection, Running, Bounds, Room
    <3> QED BY <1>0, <1>f, <2>3, <3>1, CollectionTexts DEF FailCollection
  <2>4. CASE FailRead
    <3>1. Len(output) + 0 <= chunkSize + 3 + 5 * Len(page)
      BY <1>p, <1>0 DEF Bounds, BufferIsBounded
    <3> QED BY <1>f, <2>1, <2>4, <3>1 DEF FailRead
  <2>5. CASE FailFeature
    <3>1. at <= Len(page)
      BY <2>5 DEF FailFeature, Running, TypeInv, Positions
    <3>2. Len(output) + 2 <= chunkSize + 3 + 5 * Len(page)
      BY <1>p, <1>0, <2>5, <3>1 DEF FailFeature, Running, Bounds, Room
    <3> QED BY <1>0, <1>f, <2>5, <3>2, FeatureTexts DEF FailFeature
  <2>6. CASE FailFooter
    <3>1. Len(output) + 1 <= chunkSize + 3 + 5 * Len(page)
      BY <1>p, <1>0, <2>6 DEF FailFooter, Running, Bounds
    <3> QED BY <1>0, <1>f, <2>6, <3>1, FrameTexts DEF FailFooter
  <2> QED BY <1>10, <2>2, <2>3, <2>4, <2>5, <2>6 DEF Failing
<1>11. CASE HandOver
  BY <1>11 DEF HandOver, Bounds, Room, BufferIsBounded, request
<1>12. CASE Send
  BY <1>12 DEF Send, Bounds, Room, BufferIsBounded, request
<1>13. CASE Leave
  BY <1>13 DEF Leave, Bounds, Room, BufferIsBounded, request
<1>14. CASE UNCHANGED vars
  BY <1>14 DEF vars, Bounds, Room, BufferIsBounded, request
<1> QED
  BY <1>1, <1>2, <1>3, <1>4, <1>5, <1>6, <1>7, <1>8, <1>9, <1>10, <1>11, <1>12, <1>13, <1>14
  DEF Next, Render

(* Whatever the number of features: the buffer holds a chunk, a feature    *)
(* and the frames of the collections.                                      *)
THEOREM MemoryIsBounded == Spec => []BufferIsBounded
<1>1. Bounds => BufferIsBounded
  BY DEF Bounds
<1> QED
  BY <1>1, BoundsInit, BoundsStep, TypeInvariant, PTL DEF Spec

-----------------------------------------------------------------------------
(***************************************************************************)
(* What a text holds, of which kinds its tokens are and which features.    *)
(***************************************************************************)
Kinds(text) == {text[i].kind : i \in DOMAIN text}

LEMMA TokensOfConcat ==
    ASSUME NEW s \in Seq(Token), NEW t \in Seq(Token)
    PROVE  /\ s \o t \in Seq(Token)
           /\ DOMAIN s = 1..Len(s) /\ DOMAIN t = 1..Len(t)
           /\ DOMAIN (s \o t) = 1..(Len(s) + Len(t))
           /\ Len(s) \in Nat /\ Len(t) \in Nat
           /\ \A i \in 1..Len(s) : (s \o t)[i] = s[i]
           /\ \A i \in 1..Len(t) : (s \o t)[Len(s) + i] = t[i]
           /\ \A i \in 1..(Len(s) + Len(t)) :
                 i \notin 1..Len(s) => i - Len(s) \in 1..Len(t) /\ (s \o t)[i] = t[i - Len(s)]
<1>1. /\ s \o t \in Seq(Token)
      /\ DOMAIN s = 1..Len(s) /\ DOMAIN t = 1..Len(t)
      /\ Len(s) \in Nat /\ Len(t) \in Nat
      /\ Len(s \o t) = Len(s) + Len(t)
      /\ \A i \in 1..Len(s) : (s \o t)[i] = s[i]
      /\ \A i \in 1..(Len(s) + Len(t)) :
            (s \o t)[i] = IF i <= Len(s) THEN s[i] ELSE t[i - Len(s)]
  BY ConcatProperties, LenProperties
<1>2. DOMAIN (s \o t) = 1..(Len(s) + Len(t))
  BY <1>1, LenProperties
<1>3. \A i \in 1..Len(t) : (s \o t)[Len(s) + i] = t[i]
  BY <1>1
<1>4. ASSUME NEW i \in 1..(Len(s) + Len(t)), i \notin 1..Len(s)
      PROVE  i - Len(s) \in 1..Len(t) /\ (s \o t)[i] = t[i - Len(s)]
  BY <1>1, <1>4
<1> QED
  BY <1>1, <1>2, <1>3, <1>4

LEMMA KindsOfConcat ==
    ASSUME NEW s \in Seq(Token), NEW t \in Seq(Token)
    PROVE  Kinds(s \o t) = Kinds(s) \union Kinds(t)
<1>1. ASSUME NEW i \in DOMAIN (s \o t)
      PROVE  (s \o t)[i].kind \in Kinds(s) \union Kinds(t)
  <2>1. CASE i \in 1..Len(s)
    BY <2>1, TokensOfConcat DEF Kinds
  <2>2. CASE i \notin 1..Len(s)
    BY <2>2, <1>1, TokensOfConcat DEF Kinds
  <2> QED BY <2>1, <2>2
<1>2. ASSUME NEW i \in DOMAIN s PROVE s[i].kind \in Kinds(s \o t)
  <2>1. i \in DOMAIN (s \o t) /\ (s \o t)[i] = s[i]
    BY <1>2, TokensOfConcat
  <2> QED BY <2>1 DEF Kinds
<1>3. ASSUME NEW i \in DOMAIN t PROVE t[i].kind \in Kinds(s \o t)
  <2>1. Len(s) + i \in DOMAIN (s \o t) /\ (s \o t)[Len(s) + i] = t[i]
    BY <1>3, TokensOfConcat
  <2> QED BY <2>1 DEF Kinds
<1> QED
  BY <1>1, <1>2, <1>3 DEF Kinds

(* A text that is written between features.                                *)
Telling == {"truncated", "comment", "message"}
IsPlain(text) ==
    text \in Seq(Token) /\ Kinds(text) \intersect (Telling \union {"feature"}) = {}

PlainKinds == Writable \ Telling

LEMMA PlainToken == ASSUME NEW k \in PlainKinds PROVE IsPlain(<<Text(k)>>)
<1>1. Text(k) \in Token /\ Text(k).kind = k /\ k \notin Telling \union {"feature"}
  BY DEF Text, Token, PlainKinds, Writable, Telling
<1>2. <<Text(k)>> \in Seq(Token) /\ Kinds(<<Text(k)>>) = {k}
  BY <1>1 DEF Kinds
<1> QED
  BY <1>1, <1>2 DEF IsPlain

LEMMA PlainNothing == IsPlain(<<>>)
BY EmptySeq DEF IsPlain, Kinds

LEMMA PlainConcat ==
    ASSUME NEW s, NEW t, IsPlain(s), IsPlain(t)
    PROVE  IsPlain(s \o t)
<1>1. s \in Seq(Token) /\ t \in Seq(Token)
  BY DEF IsPlain
<1>2. s \o t \in Seq(Token) /\ Kinds(s \o t) = Kinds(s) \union Kinds(t)
  BY <1>1, KindsOfConcat, ConcatProperties
<1> QED
  BY <1>2 DEF IsPlain

LEMMA PlainIf == ASSUME NEW c, NEW s, IsPlain(s) PROVE IsPlain(OnlyIf(c, s))
BY PlainNothing DEF OnlyIf

LEMMA PlainTexts ==
    ASSUME format \in Formats
    PROVE  /\ IsPlain(Header) /\ IsPlain(Note) /\ IsPlain(Opening) /\ IsPlain(SubClosing)
           /\ IsPlain(Closing) /\ IsPlain(BeforeFeature) /\ IsPlain(AfterFeature)
           /\ IsPlain(BeforeFooter) /\ IsPlain(Footer)
<1>1. format \in {"gml", "geojson", "csv"}
  BY FormatsAssumption
<1>2. \A k \in PlainKinds : IsPlain(<<Text(k)>>)
  BY PlainToken
<1>3. PlainKinds = {"<collection>", "</collection>", "<sub>", "</sub>", "<member>", "</member>",
                    "<feature>", "note", "[", "]", "comma", "footer", "blank", "columns"}
  BY DEF PlainKinds, Writable, Telling
<1>4. IsPlain(<<Text("<collection>")>>) /\ IsPlain(<<Text("</collection>")>>)
  BY <1>2, <1>3
<1>5. IsPlain(<<Text("<sub>")>>) /\ IsPlain(<<Text("</sub>")>>)
  BY <1>2, <1>3
<1>6. IsPlain(<<Text("<member>")>>) /\ IsPlain(<<Text("</member>")>>)
  BY <1>2, <1>3
<1>7. IsPlain(<<Text("note")>>) /\ IsPlain(<<Text("[")>>) /\ IsPlain(<<Text("]")>>)
  BY <1>2, <1>3
<1>8. IsPlain(<<Text("comma")>>) /\ IsPlain(<<Text("footer")>>)
  BY <1>2, <1>3
<1>9. IsPlain(<<Text("blank")>>) /\ IsPlain(<<Text("columns")>>)
  BY <1>2, <1>3
<1>10. IsPlain(SubOpening)
  <2>1. SubOpening = <<Text("<member>")>> \o <<Text("<sub>")>>
    BY DEF SubOpening
  <2> QED BY <1>5, <1>6, <2>1, PlainConcat
<1>11. IsPlain(SubClosing)
  <2>1. SubClosing = <<Text("</sub>")>> \o <<Text("</member>")>>
    BY DEF SubClosing
  <2> QED BY <1>5, <1>6, <2>1, PlainConcat
<1>12. IsPlain(Note)
  BY <1>7, PlainIf DEF Note
<1>13. IsPlain(Opening)
  <2>1. IsPlain(Note \o OnlyIf(Multiple, SubOpening))
    BY <1>10, <1>12, PlainIf, PlainConcat
  <2>2. IsPlain(OnlyIf(at > 1, <<Text("comma")>>))
    BY <1>8, PlainIf
  <2>3. IsPlain(OnlyIf(at > 1, <<Text("blank")>>) \o <<Text("columns")>>)
    BY <1>9, PlainIf, PlainConcat
  <2> QED BY <1>1, <2>1, <2>2, <2>3 DEF Opening
<1>14. IsPlain(Header) /\ IsPlain(Footer)
  BY <1>1, <1>4, <1>7, <1>8, PlainNothing DEF Header, Footer
<1>15. IsPlain(Closing) /\ IsPlain(AfterFeature) /\ IsPlain(BeforeFooter)
  BY <1>6, <1>7, <1>11, PlainIf DEF Closing, AfterFeature, BeforeFooter
<1>16. IsPlain(BeforeFeature)
  <2>1. IsPlain(OnlyIf(read > 1, <<Text("comma")>>))
    BY <1>8, PlainIf
  <2> QED BY <1>1, <1>6, <2>1, PlainNothing DEF BeforeFeature
<1> QED
  BY <1>11, <1>12, <1>13, <1>14, <1>15, <1>16

(* render_exception() says that the response is truncated.                 *)
LEMMA TruncationTells ==
    ASSUME format \in Formats, NEW s
    PROVE  /\ Truncation(s) \in Seq(Token)
           /\ Kinds(Truncation(s)) \intersect Telling # {}
           /\ "feature" \notin Kinds(Truncation(s))
<1>1. format \in {"gml", "geojson", "csv"}
  BY FormatsAssumption
<1>2. Text("truncated") \in Token /\ Text("</collection>") \in Token
      /\ Text("comment") \in Token /\ Text("message") \in Token
  BY DEF Text, Token
<1>3. CASE format = "gml"
  <2> DEFINE head == OnlyIf(Multiple /\ ~IsSuffix(SubClosing, s), SubClosing)
             tail == <<Text("truncated"), Text("</collection>")>>
  <2>1. IsPlain(head)
    BY PlainTexts, PlainIf
  <2>2. tail \in Seq(Token) /\ Kinds(tail) = {"truncated", "</collection>"}
    BY <1>2 DEF Kinds, Text
  <2>3. Truncation(s) = head \o tail
    BY <1>3 DEF Truncation
  <2> HIDE DEF head, tail
  <2>4. head \in Seq(Token) /\ "feature" \notin Kinds(head)
    BY <2>1 DEF IsPlain
  <2>5. Kinds(head \o tail) = Kinds(head) \union Kinds(tail)
    BY <2>2, <2>4, KindsOfConcat
  <2>6. head \o tail \in Seq(Token)
    BY <2>2, <2>4, ConcatProperties
  <2> QED BY <2>2, <2>3, <2>4, <2>5, <2>6 DEF Telling
<1>4. CASE format = "geojson"
  <2>1. Truncation(s) = <<Text("comment")>>
    BY <1>4 DEF Truncation
  <2> QED BY <1>2, <2>1 DEF Kinds, Text, Telling
<1>5. CASE format = "csv"
  <2>1. Truncation(s) = <<Text("message")>>
    BY <1>5 DEF Truncation
  <2> QED BY <1>2, <2>1 DEF Kinds, Text, Telling
<1> QED
  BY <1>1, <1>3, <1>4, <1>5

LEMMA TellingIsSaid ==
    ASSUME NEW text
    PROVE  SaysTruncated(text) <=> Kinds(text) \intersect Telling # {}
BY DEF SaysTruncated, Kinds, Telling

(* Text without features leaves those of a text as they are.               *)
LEMMA NoFeatureAdded ==
    ASSUME NEW s \in Seq(Token), NEW t \in Seq(Token), "feature" \notin Kinds(t)
    PROVE  /\ FeaturesOf(s \o t) = FeaturesOf(s)
           /\ InOrder(s) => InOrder(s \o t)
<1>1. FeaturesAt(s \o t) = FeaturesAt(s)
  <2>1. ASSUME NEW i \in FeaturesAt(s \o t) PROVE i \in FeaturesAt(s)
    <3>1. i \in 1..(Len(s) + Len(t)) /\ (s \o t)[i].kind = "feature"
      BY <2>1, TokensOfConcat DEF FeaturesAt
    <3>2. CASE i \in 1..Len(s)
      BY <3>1, <3>2, TokensOfConcat DEF FeaturesAt
    <3>3. CASE i \notin 1..Len(s)
      <4>1. i - Len(s) \in DOMAIN t /\ t[i - Len(s)].kind = "feature"
        BY <3>1, <3>3, TokensOfConcat
      <4> QED BY <4>1 DEF Kinds
    <3> QED BY <3>2, <3>3
  <2>2. ASSUME NEW i \in FeaturesAt(s) PROVE i \in FeaturesAt(s \o t)
    BY <2>2, TokensOfConcat DEF FeaturesAt
  <2> QED BY <2>1, <2>2
<1>2. \A i \in FeaturesAt(s) : (s \o t)[i] = s[i] /\ i \in 1..Len(s)
  BY TokensOfConcat DEF FeaturesAt
<1>3. FeaturesOf(s \o t) = FeaturesOf(s)
  BY <1>1, <1>2 DEF FeaturesOf
<1>4. InOrder(s) => InOrder(s \o t)
  BY <1>1, <1>2 DEF InOrder
<1> QED
  BY <1>3, <1>4

LEMMA FeatureAdded ==
    ASSUME NEW s \in Seq(Token), NEW c \in Nat, NEW i \in Nat
    PROVE  /\ FeaturesOf(s \o <<Feature(c, i)>>) = FeaturesOf(s) \union {<<c, i>>}
           /\ InOrder(s) /\ (\A f \in FeaturesOf(s) : Precedes(f, <<c, i>>))
              => InOrder(s \o <<Feature(c, i)>>)
<1> DEFINE t == <<Feature(c, i)>>
           last == Len(s) + 1
<1>1. Feature(c, i) \in Token /\ Feature(c, i).kind = "feature" /\ Feature(c, i).of = <<c, i>>
  BY DEF Feature, Token
<1>2. t \in Seq(Token) /\ Len(t) = 1 /\ t[1] = Feature(c, i)
  BY <1>1
<1>3. DOMAIN (s \o t) = 1..last /\ (s \o t)[last] = Feature(c, i)
  BY <1>2, TokensOfConcat
<1>4. DOMAIN s = 1..Len(s) /\ Len(s) \in Nat /\ \A j \in 1..Len(s) : (s \o t)[j] = s[j]
  BY <1>2, TokensOfConcat
<1> HIDE DEF t
<1>5. FeaturesAt(s \o t) = FeaturesAt(s) \union {last}
  <2>1. 1..last = 1..Len(s) \union {last}
    BY <1>4
  <2> QED BY <1>1, <1>3, <1>4, <2>1 DEF FeaturesAt
<1>6. FeaturesAt(s) \subseteq 1..Len(s)
  BY <1>4 DEF FeaturesAt
<1>7. FeaturesOf(s \o t) = FeaturesOf(s) \union {<<c, i>>}
  BY <1>1, <1>3, <1>4, <1>5, <1>6 DEF FeaturesOf
<1>8. ASSUME InOrder(s), \A f \in FeaturesOf(s) : Precedes(f, <<c, i>>)
      PROVE  InOrder(s \o t)
  <2> SUFFICES ASSUME NEW j \in FeaturesAt(s \o t), NEW k \in FeaturesAt(s \o t), j < k
               PROVE  Precedes((s \o t)[j].of, (s \o t)[k].of)
    BY DEF InOrder
  <2>1. j \in FeaturesAt(s) /\ (s \o t)[j] = s[j]
    BY <1>4, <1>5, <1>6
  <2>2. CASE k = last
    <3>1. (s \o t)[k].of = <<c, i>>
      BY <1>1, <1>3, <2>2
    <3>2. s[j].of \in FeaturesOf(s)
      BY <2>1 DEF FeaturesOf
    <3> QED BY <1>8, <2>1, <3>1, <3>2
  <2>3. CASE k \in FeaturesAt(s)
    BY <1>4, <1>6, <1>8, <2>1, <2>3 DEF InOrder
  <2> QED BY <1>5, <2>2, <2>3
<1> QED
  BY <1>7, <1>8 DEF t

(* A part of a text that begins it has the features it begins with.        *)
LEMMA BeginningOfBeginning ==
    ASSUME NEW s \in Seq(Token), NEW t \in Seq(Token), IsBeginning(s \o t),
           AllFeatures \subseteq Nat \X Nat
    PROVE  IsBeginning(s)
<1>1. /\ DOMAIN s = 1..Len(s) /\ DOMAIN (s \o t) = 1..(Len(s) + Len(t))
      /\ Len(s) \in Nat /\ Len(t) \in Nat
      /\ \A i \in 1..Len(s) : (s \o t)[i] = s[i]
  BY TokensOfConcat
<1>2. \A i \in FeaturesAt(s) :
         i \in FeaturesAt(s \o t) /\ (s \o t)[i] = s[i] /\ i \in 1..Len(s)
  BY <1>1 DEF FeaturesAt
<1>3. FeaturesOf(s) \subseteq FeaturesOf(s \o t)
  BY <1>2 DEF FeaturesOf
<1>4. InOrder(s)
  BY <1>2 DEF IsBeginning, InOrder
<1>5. ASSUME NEW g \in FeaturesOf(s), NEW f \in AllFeatures, Precedes(f, g)
      PROVE  f \in FeaturesOf(s)
  <2>1. PICK i \in FeaturesAt(s) : g = s[i].of
    BY DEF FeaturesOf
  <2>2. f \in FeaturesOf(s \o t)
    BY <1>3, <1>5 DEF IsBeginning, NoneIsSkipped
  <2>3. PICK j \in FeaturesAt(s \o t) : f = (s \o t)[j].of
    BY <2>2 DEF FeaturesOf
  <2>4. i \in FeaturesAt(s \o t) /\ (s \o t)[i] = s[i] /\ i \in 1..Len(s)
    BY <1>2
  <2>5. j \in 1..(Len(s) + Len(t)) /\ (s \o t)[j].kind = "feature"
    BY <1>1 DEF FeaturesAt
  <2>6. f \in Nat \X Nat /\ g \in Nat \X Nat
    BY <1>3 DEF IsBeginning
  <2>7. ~Precedes(g, f)
    BY <1>5, <2>6 DEF Precedes
  <2>8. ~(i < j)
    BY <2>1, <2>3, <2>4, <2>7 DEF IsBeginning, InOrder
  <2>9. j \in 1..Len(s)
    BY <1>1, <2>4, <2>5, <2>8
  <2>10. j \in FeaturesAt(s) /\ s[j] = (s \o t)[j]
    BY <1>1, <2>5, <2>9 DEF FeaturesAt
  <2> QED BY <2>3, <2>10 DEF FeaturesOf
<1> QED
  BY <1>3, <1>4, <1>5 DEF IsBeginning, NoneIsSkipped

(* The features up to one of a collection.                                 *)
UpTo(c, r) == {f \in AllFeatures : f[1] < c \/ (f[1] = c /\ f[2] <= r)}

LEMMA FeaturesOfPage ==
    ASSUME TypeOK
    PROVE  /\ AllFeatures \subseteq Nat \X Nat
           /\ \A f \in AllFeatures : /\ f[1] \in 1..Len(page) /\ f[2] \in 1..page[f[1]]
                                     /\ f = <<f[1], f[2]>>
           /\ \A c \in 1..Len(page) : \A i \in 1..page[c] : <<c, i>> \in AllFeatures
<1>0. Len(page) \in Nat /\ DOMAIN page = 1..Len(page) /\ \A c \in 1..Len(page) : page[c] \in Nat
  BY PageIsSequence, PagesAssumption, LenProperties DEF TypeOK
<1>1. ASSUME NEW f \in AllFeatures
      PROVE  /\ f[1] \in 1..Len(page) /\ f[2] \in 1..page[f[1]]
             /\ f = <<f[1], f[2]>> /\ f \in Nat \X Nat
  <2>1. PICK c \in 1..Len(page) : f \in {c} \X (1..page[c])
    BY <1>0 DEF AllFeatures
  <2>2. f[1] = c /\ f[2] \in 1..page[c] /\ f = <<f[1], f[2]>>
    BY <2>1
  <2> QED BY <1>0, <2>2
<1>2. ASSUME NEW c \in 1..Len(page), NEW i \in 1..page[c] PROVE <<c, i>> \in AllFeatures
  BY <1>0 DEF AllFeatures
<1> QED
  BY <1>1, <1>2

LEMMA UpToSteps ==
    ASSUME TypeOK
    PROVE  /\ UpTo(1, 0) = {}
           /\ UpTo(Len(page) + 1, 0) = AllFeatures
           /\ ~HasFeatures => AllFeatures = {}
           /\ at <= Len(page) => UpTo(at, page[at]) = UpTo(at + 1, 0)
           /\ at <= Len(page) /\ read >= 1 =>
                 /\ UpTo(at, read) = UpTo(at, read - 1) \union {<<at, read>>}
                 /\ \A f \in UpTo(at, read - 1) : Precedes(f, <<at, read>>)
<1>0. /\ Len(page) \in Nat /\ DOMAIN page = 1..Len(page)
      /\ \A c \in 1..Len(page) : page[c] \in Nat
  BY PageIsSequence, PagesAssumption, LenProperties DEF TypeOK
<1>1. /\ \A f \in AllFeatures : /\ f[1] \in 1..Len(page) /\ f[2] \in 1..page[f[1]]
                                /\ f = <<f[1], f[2]>>
      /\ \A c \in 1..Len(page) : \A i \in 1..page[c] : <<c, i>> \in AllFeatures
  BY FeaturesOfPage
<1>2. \A f \in AllFeatures : f[1] \in Nat /\ f[1] >= 1 /\ f[2] \in Nat /\ f[2] >= 1
                             /\ f[1] <= Len(page) /\ f[2] <= page[f[1]]
  BY <1>0, <1>1
<1>3. UpTo(1, 0) = {}
  BY <1>2 DEF UpTo
<1>4. UpTo(Len(page) + 1, 0) = AllFeatures
  BY <1>0, <1>2 DEF UpTo
<1>5. ~HasFeatures => AllFeatures = {}
  BY <1>0, <1>2, <1>1 DEF HasFeatures
<1>6. at \in Nat /\ at >= 1 /\ read \in Nat
  BY PositionIsNumber
<1>7. at <= Len(page) => UpTo(at, page[at]) = UpTo(at + 1, 0)
  BY <1>0, <1>2, <1>6 DEF UpTo
<1>8. ASSUME at <= Len(page), read >= 1
      PROVE  UpTo(at, read) = UpTo(at, read - 1) \union {<<at, read>>}
  <2>1. at \in 1..Len(page) /\ read \in 1..page[at]
    <3>1. read <= page[at]
      BY <1>8 DEF TypeOK
    <3>2. at \in 1..Len(page) /\ page[at] \in Nat
      BY <1>0, <1>6, <1>8
    <3> QED BY <1>6, <1>8, <3>1, <3>2
  <2>2. <<at, read>> \in AllFeatures
    BY <1>1, <2>1
  <2>3. \A f \in AllFeatures : f[1] = at /\ f[2] = read => f = <<at, read>>
    BY <1>1
  <2>4. ASSUME NEW f \in UpTo(at, read) PROVE f \in UpTo(at, read - 1) \union {<<at, read>>}
    BY <1>2, <1>6, <2>3 DEF UpTo
  <2>5. ASSUME NEW f \in UpTo(at, read - 1) PROVE f \in UpTo(at, read)
    BY <1>2, <1>6 DEF UpTo
  <2>6. <<at, read>> \in UpTo(at, read)
    BY <1>6, <2>2 DEF UpTo
  <2> QED BY <2>4, <2>5, <2>6
<1>9. ASSUME at <= Len(page), read >= 1, NEW f \in UpTo(at, read - 1)
      PROVE  Precedes(f, <<at, read>>)
  BY <1>2, <1>6, <1>9 DEF UpTo, Precedes
<1> QED
  BY <1>3, <1>4, <1>5, <1>7, <1>8, <1>9

(* What is written up to a feature is a beginning.                         *)
LEMMA UpToIsBeginning ==
    ASSUME TypeOK, NEW text, InOrder(text), NEW c \in Nat, NEW r \in Int,
           FeaturesOf(text) = UpTo(c, r)
    PROVE  IsBeginning(text)
<1>1. \A f \in AllFeatures : f[1] \in Nat /\ f[2] \in Nat
  <2>1. AllFeatures \subseteq Nat \X Nat
    BY FeaturesOfPage
  <2> QED BY <2>1
<1>2. UpTo(c, r) \subseteq AllFeatures
  BY DEF UpTo
<1>3. \A g \in UpTo(c, r) : \A f \in AllFeatures : Precedes(f, g) => f \in UpTo(c, r)
  BY <1>1 DEF UpTo, Precedes
<1> QED
  BY <1>2, <1>3 DEF IsBeginning, NoneIsSkipped

LEMMA SameFeaturesSameBeginning ==
    ASSUME NEW s, NEW t, FeaturesOf(s) = FeaturesOf(t), InOrder(t), IsBeginning(s)
    PROVE  IsBeginning(t)
BY DEF IsBeginning, NoneIsSkipped

-----------------------------------------------------------------------------
(* The features the generator has written, by where it is.                 *)
Written ==
    IF pc = "write" THEN UpTo(at, read - 1)
    ELSE IF pc \in {"header", "collection", "read", "flush"} THEN UpTo(at, read)
    ELSE AllFeatures

FeaturesInv ==
    /\ InOrder(document)
    /\ pc # "raised" =>
          FeaturesOf(document) = Written /\ Kinds(document) \intersect Telling = {}
    /\ pc = "raised" => IsBeginning(document)
    /\ pc = "collection" => read = 0
    /\ pc = "write" => read >= 1

(* What the status, the exception and the turns have to do with it.        *)
StatusInv ==
    /\ status = "none" => sent = <<>> /\ turn \in {"renderer", "view"}
    /\ status \in {"client error", "server error"} =>
          sent = <<>> /\ turn = "nobody" /\ failure \in {"filter", "other"}
    /\ pc = "raised" => turn \in {"server", "nobody"} /\ failure # "none"
    /\ pc = "raised" /\ status = "ok" => Kinds(document) \intersect Telling # {}
    /\ pc # "raised" => failure \in {"none", "left"}
    /\ failure = "left" => turn = "nobody"
    /\ turn = "nobody" /\ failure # "left" => pc \in {"exhausted", "raised"} /\ chunk = <<>>
    /\ turn = "nobody" => status # "none"
    /\ pc = "header" => status = "none" /\ turn = "renderer"

LEMMA DocumentIsBeginning ==
    ASSUME TypeInv, FeaturesInv
    PROVE  IsBeginning(document)
<1>1. CASE pc = "raised"
  BY <1>1 DEF FeaturesInv
<1>2. CASE pc # "raised"
  <2>1. at \in Nat /\ read \in Nat /\ Len(page) + 1 \in Nat
    BY PositionIsNumber, PageIsSequence DEF TypeInv
  <2>2. AllFeatures = UpTo(Len(page) + 1, 0)
    BY UpToSteps DEF TypeInv
  <2>3. \E c \in Nat, r \in Int : Written = UpTo(c, r)
    BY <2>1, <2>2 DEF Written
  <2> QED BY <1>2, <2>3, UpToIsBeginning DEF FeaturesInv, TypeInv
<1> QED BY <1>1, <1>2

(* When the last chunk is sent, the client has the document.               *)
LEMMA CompleteWhenEnded ==
    ASSUME TypeInv, NothingIsLostOrRepeated, StatusInv,
           Ended, failure # "left", status = "ok"
    PROVE  /\ sent = document /\ pc \in {"exhausted", "raised"}
           /\ pc = "raised" <=> failure # "none"
<1>1. pc \in {"exhausted", "raised"} /\ chunk = <<>> /\ Buffered = <<>>
  BY DEF StatusInv, Ended, Buffered
<1>2. sent \o <<>> \o <<>> = document
  BY <1>1 DEF NothingIsLostOrRepeated
<1>3. sent \in Seq(Token)
  BY DEF TypeInv, TypeOK
<1>4. sent = document
  BY <1>2, <1>3, EmptyEnd
<1> QED
  BY <1>1, <1>4 DEF StatusInv

LEMMA ToldWhenEnded ==
    ASSUME TypeInv, NothingIsLostOrRepeated, FeaturesInv, StatusInv
    PROVE  TruncationIsTold
<1>1. /\ sent \in Seq(Token) /\ chunk \in Seq(Token) /\ Buffered \in Seq(Token)
      /\ AllFeatures \subseteq Nat \X Nat
  <2>1. <<>> \in Seq(Token)
    BY EmptySeq
  <2> QED BY <2>1, FeaturesOfPage DEF TypeInv, TypeOK, Buffered
<1>2. IsBeginning(document)
  BY DocumentIsBeginning
<1>3. IsBeginning(sent)
  <2>1. CASE status \in {"none", "ok"}
    <3>1. chunk \o Buffered \in Seq(Token)
      BY <1>1, ConcatProperties
    <3>2. sent \o (chunk \o Buffered) = document
      BY <1>1, <2>1, Associative DEF NothingIsLostOrRepeated
    <3> QED BY <1>1, <1>2, <3>1, <3>2, BeginningOfBeginning
  <2>2. CASE status \in {"client error", "server error"}
    <3>1. sent = <<>>
      BY <2>2 DEF StatusInv
    <3>2. FeaturesAt(<<>>) = {}
      BY EmptySeq DEF FeaturesAt
    <3> QED BY <3>1, <3>2 DEF IsBeginning, FeaturesOf, InOrder, NoneIsSkipped
  <2> QED BY <2>1, <2>2 DEF TypeInv, TypeOK
<1>5. ASSUME Ended, failure # "left", status = "ok", failure = "none"
      PROVE  FeaturesOf(sent) = AllFeatures /\ ~SaysTruncated(sent)
  <2>1. sent = document /\ pc = "exhausted"
    BY <1>5, CompleteWhenEnded
  <2> QED BY <2>1, TellingIsSaid DEF FeaturesInv, Written
<1>6. ASSUME Ended, failure # "left", status = "ok", failure # "none"
      PROVE  SaysTruncated(sent)
  <2>1. sent = document /\ pc = "raised"
    BY <1>6, CompleteWhenEnded
  <2> QED BY <1>6, <2>1, TellingIsSaid DEF StatusInv
<1>7. status \in {"ok", "client error", "server error"} \/ ~Ended
  BY DEF StatusInv, TypeInv, TypeOK, Ended
<1>8. status \in {"client error", "server error"} => failure # "none" /\ sent = <<>>
  BY DEF StatusInv
<1> QED
  BY <1>3, <1>5, <1>6, <1>7, <1>8 DEF TruncationIsTold

LEMMA StatusInit == Init => StatusInv
BY DEF Init, StatusInv

LEMMA FeaturesInit == Init => FeaturesInv
<1> SUFFICES ASSUME Init PROVE FeaturesInv
  OBVIOUS
<1>1. TypeOK
  BY TypeInit DEF TypeInv
<1>2. UpTo(at, read) = {}
  BY <1>1, UpToSteps DEF Init
<1>3. document = <<>> /\ FeaturesAt(<<>>) = {} /\ Kinds(<<>>) = {}
  BY EmptySeq DEF Init, FeaturesAt, Kinds
<1>4. FeaturesOf(document) = {} /\ InOrder(document) /\ Kinds(document) = {}
  BY <1>3 DEF FeaturesOf, InOrder
<1> QED
  BY <1>2, <1>4 DEF Init, FeaturesInv, Written

(* An exception after the first chunk is told in the text.                 *)
LEMMA FailTells ==
    ASSUME TypeInv, NEW kind, NEW text, text \in Seq(Token), Fail(kind, text), status # "none"
    PROVE  Kinds(document') \intersect Telling # {}
<1> DEFINE told == Truncation(output \o text)
<1>1. document' = (document \o text) \o told
  BY DEF Fail
<1>2. told \in Seq(Token) /\ Kinds(told) \intersect Telling # {}
  BY TruncationTells DEF TypeInv, TypeOK
<1>3. document \o text \in Seq(Token)
  BY ConcatProperties DEF TypeInv, TypeOK
<1> HIDE DEF told
<1>4. Kinds(document') = Kinds(document \o text) \union Kinds(told)
  BY <1>1, <1>2, <1>3, KindsOfConcat
<1> QED
  BY <1>2, <1>4

LEMMA StatusWhenFailing ==
    ASSUME TypeInv, StatusInv, NEW kind \in {"filter", "other"}, NEW text,
           text \in Seq(Token), Fail(kind, text), turn = "renderer"
    PROVE  StatusInv'
<1>1. CASE status = "none"
  BY <1>1 DEF StatusInv, Fail, HttpStatus, TypeInv, Positions
<1>2. CASE status # "none"
  <2>1. Kinds(document') \intersect Telling # {}
    BY <1>2, FailTells
  <2> QED BY <1>2, <2>1 DEF StatusInv, Fail
<1> QED
  BY <1>1, <1>2

(* Wherever an exception comes, what it leaves written holds no feature.   *)
LEMMA FailingIsFail ==
    ASSUME TypeInv, Failing
    PROVE  /\ turn = "renderer"
           /\ \E kind \in {"filter", "other"} : \E text : IsPlain(text) /\ Fail(kind, text)
<1>1. IsPlain(<<>>) /\ IsPlain(Note) /\ IsPlain(BeforeFooter)
  BY PlainNothing, PlainTexts DEF TypeInv, TypeOK
<1>2. IsPlain(BeforeFeature \o OnlyIf(format = "gml", <<Text("<feature>")>>))
  <2>1. "<feature>" \in PlainKinds
    BY DEF PlainKinds, Writable, Telling
  <2>2. IsPlain(OnlyIf(format = "gml", <<Text("<feature>")>>))
    BY <2>1, PlainToken, PlainIf
  <2> QED BY <2>2, PlainTexts, PlainConcat DEF TypeInv, TypeOK
<1> QED
  BY <1>1, <1>2 DEF Failing, FailHeader, FailCollection, FailRead, FailFeature, FailFooter,
                    QueryErrors, RenderErrors, Running

LEMMA StatusStep == TypeInv /\ StatusInv /\ [Next]_vars => StatusInv'
<1> SUFFICES ASSUME TypeInv, StatusInv, [Next]_vars PROVE StatusInv'
  OBVIOUS
<1>1. CASE WriteHeader
  BY <1>1 DEF WriteHeader, Running, Writes, StatusInv
<1>2. CASE OpenCollection
  BY <1>2 DEF OpenCollection, Running, Writes, StatusInv
<1>3. CASE ReadFeature
  BY <1>3 DEF ReadFeature, Running, StatusInv
<1>4. CASE WriteFeature
  BY <1>4 DEF WriteFeature, Running, Writes, StatusInv
<1>5. CASE Flush
  BY <1>5 DEF Flush, Yields, Running, StatusInv, TypeInv, TypeOK
<1>6. CASE CloseCollection
  BY <1>6 DEF CloseCollection, Running, Writes, StatusInv
<1>7. CASE EndCollections
  BY <1>7 DEF EndCollections, Running, StatusInv
<1>8. CASE WriteFooter
  BY <1>8 DEF WriteFooter, Running, Writes, StatusInv
<1>9. CASE YieldLast
  BY <1>9 DEF YieldLast, Yields, Running, StatusInv, TypeInv, TypeOK
<1>10. CASE Failing
  BY <1>10, FailingIsFail, StatusWhenFailing DEF IsPlain
<1>11. CASE HandOver
  BY <1>11 DEF HandOver, StatusInv, TypeInv, Positions
<1>12. CASE Send
  BY <1>12 DEF Send, StatusInv
<1>13. CASE Leave
  BY <1>13 DEF Leave, StatusInv
<1>14. CASE UNCHANGED vars
  BY <1>14 DEF vars, StatusInv
<1> QED
  BY <1>1, <1>2, <1>3, <1>4, <1>5, <1>6, <1>7, <1>8, <1>9, <1>10, <1>11, <1>12, <1>13, <1>14
  DEF Next, Render

(* What a step that writes no feature does to the text.                    *)
LEMMA PlainWritten ==
    ASSUME TypeInv, NEW text, IsPlain(text), Writes(text)
    PROVE  /\ FeaturesOf(document') = FeaturesOf(document)
           /\ InOrder(document) => InOrder(document')
           /\ Kinds(document) \intersect Telling = {} => Kinds(document') \intersect Telling = {}
<1>1. document \in Seq(Token) /\ text \in Seq(Token) /\ "feature" \notin Kinds(text)
  BY DEF TypeInv, TypeOK, IsPlain
<1>2. document' = document \o text
  BY DEF Writes
<1>3. Kinds(document') = Kinds(document) \union Kinds(text)
  BY <1>1, <1>2, KindsOfConcat
<1>4. Kinds(text) \intersect Telling = {}
  BY DEF IsPlain
<1> QED
  BY <1>1, <1>2, <1>3, <1>4, NoFeatureAdded

LEMMA FeatureWritten ==
    ASSUME TypeInv, FeaturesInv, WriteFeature
    PROVE  /\ FeaturesOf(document') = UpTo(at, read)
           /\ InOrder(document')
           /\ Kinds(document') \intersect Telling = {}
<1> DEFINE before == document \o BeforeFeature
           with == before \o <<Feature(at, read)>>
<1>1. /\ document \in Seq(Token) /\ IsPlain(BeforeFeature) /\ IsPlain(AfterFeature)
      /\ BeforeFeature \in Seq(Token) /\ AfterFeature \in Seq(Token)
      /\ at \in Nat /\ read \in Nat
  BY PlainTexts, PositionIsNumber DEF TypeInv, TypeOK, IsPlain
<1>2. Feature(at, read) \in Token /\ <<Feature(at, read)>> \in Seq(Token)
  BY <1>1 DEF Feature, Token
<1>3. before \in Seq(Token) /\ with \in Seq(Token)
  BY <1>1, <1>2, ConcatProperties
<1>4. document' = with \o AfterFeature
  <2>1. document' = document \o (BeforeFeature \o <<Feature(at, read)>> \o AfterFeature)
    BY DEF WriteFeature, Writes
  <2>2. BeforeFeature \o <<Feature(at, read)>> \in Seq(Token)
    BY <1>1, <1>2, ConcatProperties
  <2>3. document' = (document \o (BeforeFeature \o <<Feature(at, read)>>)) \o AfterFeature
    BY <1>1, <2>1, <2>2, Associative
  <2>4. document \o (BeforeFeature \o <<Feature(at, read)>>) = with
    BY <1>1, <1>2, Associative
  <2> QED BY <2>3, <2>4
<1>5. pc = "write" /\ at <= Len(page) /\ read >= 1
  BY DEF WriteFeature, Running, TypeInv, Positions, FeaturesInv
<1>6. /\ FeaturesOf(document) = UpTo(at, read - 1) /\ InOrder(document)
      /\ Kinds(document) \intersect Telling = {}
  BY <1>5 DEF FeaturesInv, Written
<1>7. /\ "feature" \notin Kinds(BeforeFeature) /\ Kinds(BeforeFeature) \intersect Telling = {}
      /\ "feature" \notin Kinds(AfterFeature) /\ Kinds(AfterFeature) \intersect Telling = {}
  BY <1>1 DEF IsPlain
<1>8. FeaturesOf(before) = UpTo(at, read - 1) /\ InOrder(before)
  BY <1>1, <1>6, <1>7, NoFeatureAdded
<1>9. UpTo(at, read) = UpTo(at, read - 1) \union {<<at, read>>}
      /\ \A f \in UpTo(at, read - 1) : Precedes(f, <<at, read>>)
  BY <1>5, UpToSteps DEF TypeInv
<1>10. Kinds(with) = Kinds(document) \union Kinds(BeforeFeature) \union {"feature"}
  <2>1. Kinds(<<Feature(at, read)>>) = {"feature"}
    BY DEF Kinds, Feature
  <2>2. Kinds(before) = Kinds(document) \union Kinds(BeforeFeature)
    BY <1>1, KindsOfConcat
  <2> HIDE DEF before
  <2>3. Kinds(with) = Kinds(before) \union Kinds(<<Feature(at, read)>>)
    BY <1>2, <1>3, KindsOfConcat
  <2> QED BY <2>1, <2>2, <2>3
<1> HIDE DEF before
<1>11. FeaturesOf(with) = UpTo(at, read) /\ InOrder(with)
  BY <1>1, <1>3, <1>8, <1>9, FeatureAdded
<1>12. Kinds(with) \intersect Telling = {}
  BY <1>6, <1>7, <1>10 DEF Telling
<1> HIDE DEF with
<1>13. Kinds(document') = Kinds(with) \union Kinds(AfterFeature)
  BY <1>1, <1>3, <1>4, KindsOfConcat
<1>14. FeaturesOf(document') = FeaturesOf(with) /\ InOrder(document')
  BY <1>1, <1>3, <1>4, <1>7, <1>11, NoFeatureAdded
<1> QED
  BY <1>7, <1>11, <1>12, <1>13, <1>14

(* An exception leaves the features that were written.                     *)
LEMMA FeaturesWhenFailing ==
    ASSUME TypeInv, FeaturesInv, IsBeginning(document), NEW kind, NEW text,
           IsPlain(text), Fail(kind, text)
    PROVE  FeaturesInv'
<1>1. pc' = "raised"
  BY DEF Fail
<1>2. AllFeatures' = AllFeatures
  BY DEF Fail, request, AllFeatures
<1>3. FeaturesOf(document') = FeaturesOf(document) /\ InOrder(document')
  <2>1. CASE status = "none"
    BY <2>1 DEF Fail, FeaturesInv
  <2>2. CASE status # "none"
    <3> DEFINE told == Truncation(output \o text)
               begun == document \o text
    <3>1. /\ document \in Seq(Token) /\ text \in Seq(Token) /\ "feature" \notin Kinds(text)
          /\ told \in Seq(Token) /\ "feature" \notin Kinds(told)
      BY TruncationTells DEF TypeInv, TypeOK, IsPlain
    <3>2. document' = begun \o told
      BY <2>2 DEF Fail
    <3> HIDE DEF told
    <3>3. begun \in Seq(Token)
      BY <3>1, ConcatProperties
    <3>4. FeaturesOf(begun) = FeaturesOf(document) /\ InOrder(begun)
      BY <3>1, NoFeatureAdded DEF FeaturesInv
    <3> HIDE DEF begun
    <3>5. FeaturesOf(document') = FeaturesOf(begun) /\ InOrder(document')
      BY <3>1, <3>2, <3>3, <3>4, NoFeatureAdded
    <3> QED BY <3>4, <3>5
  <2> QED BY <2>1, <2>2
<1>4. IsBeginning(document)'
  BY <1>2, <1>3 DEF IsBeginning, NoneIsSkipped
<1> QED
  BY <1>1, <1>3, <1>4 DEF FeaturesInv

LEMMA FeaturesStep == TypeInv /\ FeaturesInv /\ [Next]_vars => FeaturesInv'
<1> SUFFICES ASSUME TypeInv, FeaturesInv, [Next]_vars PROVE FeaturesInv'
  OBVIOUS
<1> USE DEF TypeInv
<1>0. /\ at \in Nat /\ at >= 1 /\ at <= Len(page) + 1 /\ read \in Nat /\ Len(page) \in Nat
      /\ format \in Formats
  BY PositionIsNumber, PageIsSequence DEF TypeOK
<1>u. ASSUME page' = page
      PROVE  /\ AllFeatures' = AllFeatures
             /\ \A c, r : UpTo(c, r)' = UpTo(c, r)
  BY <1>u DEF AllFeatures, UpTo
<1>v. ASSUME page' = page
      PROVE  Written' = IF pc' = "write" THEN UpTo(at', read' - 1)
                        ELSE IF pc' \in {"header", "collection", "read", "flush"}
                             THEN UpTo(at', read') ELSE AllFeatures
  BY <1>v DEF AllFeatures, UpTo, Written
<1>w. ASSUME NEW text, IsPlain(text), Writes(text)
      PROVE  /\ FeaturesOf(document') = FeaturesOf(document) /\ InOrder(document')
             /\ Kinds(document) \intersect Telling = {} => Kinds(document') \intersect Telling = {}
  BY <1>w, PlainWritten DEF FeaturesInv
<1>1. CASE WriteHeader
  <2>1. Written' = Written
    BY <1>0, <1>1, <1>v, UpToSteps DEF WriteHeader, Running, request, Written, Positions
  <2> QED BY <1>0, <1>1, <1>w, <2>1, PlainTexts DEF WriteHeader, Running, FeaturesInv, Positions
<1>2. CASE OpenCollection
  <2>1. Written' = Written
    BY <1>2, <1>v DEF OpenCollection, Running, request, Written, FeaturesInv
  <2> QED BY <1>0, <1>2, <1>w, <2>1, PlainTexts DEF OpenCollection, Running, FeaturesInv
<1>3. CASE ReadFeature
  <2>1. Written' = Written
    BY <1>0, <1>3, <1>v DEF ReadFeature, Running, request, Written
  <2> QED BY <1>0, <1>3, <2>1 DEF ReadFeature, Running, FeaturesInv
<1>4. CASE WriteFeature
  <2>1. Written' = UpTo(at, read)
    BY <1>4, <1>v DEF WriteFeature, Running, request
  <2> QED BY <1>4, <2>1, FeatureWritten DEF WriteFeature, FeaturesInv
<1>5. CASE Flush
  <2>1. Written' = Written
    BY <1>5, <1>v DEF Flush, Running, request, Written
  <2> QED BY <1>5, <2>1 DEF Flush, Running, FeaturesInv
<1>6. CASE CloseCollection
  <2>1. at <= Len(page)
    BY <1>6 DEF CloseCollection, Running, Positions
  <2>2. UpTo(at, page[at]) = UpTo(at + 1, 0)
    BY <2>1, UpToSteps
  <2>3. Written' = Written
    BY <1>6, <1>v, <2>2 DEF CloseCollection, Running, request, Written
  <2> QED BY <1>0, <1>6, <1>w, <2>3, PlainTexts DEF CloseCollection, Running, FeaturesInv
<1>7. CASE EndCollections
  <2>1. at = Len(page) + 1 /\ read = 0
    BY <1>0, <1>7 DEF EndCollections, Running, FeaturesInv
  <2>2. UpTo(Len(page) + 1, 0) = AllFeatures
    BY UpToSteps
  <2>3. Written' = Written
    BY <1>7, <1>v, <2>1, <2>2 DEF EndCollections, Running, request, Written
  <2> QED BY <1>7, <2>3 DEF EndCollections, Running, FeaturesInv
<1>8. CASE WriteFooter
  <2>1. Written' = Written
    BY <1>8, <1>v DEF WriteFooter, Running, request, Written
  <2>2. IsPlain(BeforeFooter \o Footer)
    BY <1>0, PlainTexts, PlainConcat
  <2> QED BY <1>8, <1>w, <2>1, <2>2 DEF WriteFooter, Running, FeaturesInv
<1>9. CASE YieldLast
  <2>1. Written' = Written
    BY <1>9, <1>v DEF YieldLast, Running, request, Written
  <2> QED BY <1>9, <2>1 DEF YieldLast, Running, FeaturesInv
<1>10. CASE Failing
  BY <1>10, FailingIsFail, FeaturesWhenFailing, DocumentIsBeginning
<1>s. ASSUME UNCHANGED <<request, pc, at, read, document>>
      PROVE  FeaturesInv'
  <2>1. Written' = Written
    BY <1>s, <1>v DEF request, Written
  <2>2. IsBeginning(document)' <=> IsBeginning(document)
    BY <1>s, <1>u DEF request, IsBeginning, NoneIsSkipped
  <2> QED BY <1>s, <2>1, <2>2 DEF FeaturesInv
<1>11. CASE HandOver
  BY <1>11, <1>s DEF HandOver
<1>12. CASE Send
  BY <1>12, <1>s DEF Send
<1>13. CASE Leave
  BY <1>13, <1>s DEF Leave
<1>14. CASE UNCHANGED vars
  BY <1>14, <1>s DEF vars
<1> QED
  BY <1>1, <1>2, <1>3, <1>4, <1>5, <1>6, <1>7, <1>8, <1>9, <1>10, <1>11, <1>12, <1>13, <1>14
  DEF Next, Render

LEMMA ToldInvariant == Spec => [](FeaturesInv /\ StatusInv)
<1>1. Init => FeaturesInv /\ StatusInv
  BY FeaturesInit, StatusInit
<1>2. TypeInv /\ FeaturesInv /\ StatusInv /\ [Next]_vars => (FeaturesInv /\ StatusInv)'
  BY FeaturesStep, StatusStep
<1> QED
  BY <1>1, <1>2, TypeInvariant, PTL DEF Spec

(* A client that was not cut off knows what it has: nothing but an error   *)
(* status, every feature in order, or a beginning of them and a note that  *)
(* the rest is missing.                                                    *)
THEOREM ResponsesTellWhatIsMissing == Spec => []TruncationIsTold
BY ToldWhenEnded, ToldInvariant, TextIsPreserved, TypeInvariant, PTL

-----------------------------------------------------------------------------
(***************************************************************************)
(* Induction over the natural numbers, for a set instead of a predicate:   *)
(* what OpenTags computes for every text is proved with it.                *)
(***************************************************************************)
IsBelow == {p \in Nat \X Nat : p[1] < p[2]}

LEMMA BelowIsWellFounded == IsWellFoundedOn(IsBelow, Nat)
BY NatLessThanWellFounded, Zenon DEF OpToRel, IsBelow

LEMMA Induction ==
    ASSUME NEW S, 0 \in S, \A n \in Nat : n \in S => n + 1 \in S
    PROVE  Nat \subseteq S
<1> DEFINE T == Nat \ S
<1> SUFFICES ASSUME T # {} PROVE FALSE
  OBVIOUS
<1>1. T \subseteq Nat
  OBVIOUS
<1>2. PICK x \in T : \A y \in T : <<y, x>> \notin IsBelow
  <2> HIDE DEF T
  <2> QED BY <1>1, BelowIsWellFounded, WFMin
<1>3. x \in Nat /\ x # 0
  BY <1>2
<1>4. x - 1 \in Nat /\ <<x - 1, x>> \in IsBelow
  BY <1>3 DEF IsBelow
<1>5. x - 1 \in S
  BY <1>2, <1>4
<1>6. (x - 1) + 1 \in S
  BY <1>4, <1>5
<1> QED
  BY <1>2, <1>3, <1>6

(* The open tags after each token of a text.                               *)
IsRun(f, text, m) ==
    f = [n \in 0..m |-> IF n = 0 THEN <<>> ELSE Parse(f[n - 1], text[n].kind)]

LEMMA RunAt ==
    ASSUME NEW f, NEW text, NEW m \in Nat, IsRun(f, text, m)
    PROVE  /\ f[0] = <<>>
           /\ \A n \in 1..m : f[n] = Parse(f[n - 1], text[n].kind)
<1>1. f = [n \in 0..m |-> IF n = 0 THEN <<>> ELSE Parse(f[n - 1], text[n].kind)]
  BY DEF IsRun
<1>2. \A n \in 0..m : f[n] = IF n = 0 THEN <<>> ELSE Parse(f[n - 1], text[n].kind)
  BY <1>1
<1> QED
  BY <1>2

LEMMA RunExists == ASSUME NEW text, NEW m \in Nat PROVE \E f : IsRun(f, text, m)
<1> DEFINE S == {k \in Nat : \E f : IsRun(f, text, k)}
<1>1. 0 \in S
  <2> DEFINE f == [n \in 0..0 |-> IF n = 0 THEN <<>> ELSE {}]
  <2>1. f = [n \in 0..0 |-> IF n = 0 THEN <<>> ELSE Parse(f[n - 1], text[n].kind)]
    <3>1. \A n \in 0..0 : n = 0
      OBVIOUS
    <3> QED BY <3>1
  <2>2. IsRun(f, text, 0)
    BY <2>1 DEF IsRun
  <2> QED BY <2>2
<1>2. ASSUME NEW k \in Nat, k \in S PROVE k + 1 \in S
  <2>1. PICK f : IsRun(f, text, k)
    BY <1>2
  <2> DEFINE g == [n \in 0..(k + 1) |-> IF n = k + 1 THEN Parse(f[k], text[k + 1].kind) ELSE f[n]]
  <2>2. /\ f[0] = <<>>
        /\ \A n \in 1..k : f[n] = Parse(f[n - 1], text[n].kind)
    BY <2>1, RunAt
  <2>3. ASSUME NEW n \in 0..(k + 1)
        PROVE  g[n] = IF n = 0 THEN <<>> ELSE Parse(g[n - 1], text[n].kind)
    <3>1. CASE n = 0
      BY <2>2, <3>1
    <3>2. CASE n = k + 1
      <4>1. n # 0 /\ n - 1 = k /\ k \in 0..(k + 1) /\ k # k + 1
        BY <3>2
      <4>2. g[n - 1] = f[k] /\ g[n] = Parse(f[k], text[k + 1].kind)
        BY <3>2, <4>1
      <4> QED BY <3>2, <4>1, <4>2
    <3>3. CASE n # 0 /\ n # k + 1
      <4>1. n \in 1..k /\ n - 1 \in 0..(k + 1) /\ n - 1 # k + 1
        BY <3>3
      <4>2. g[n] = f[n] /\ g[n - 1] = f[n - 1]
        BY <3>3, <4>1
      <4> QED BY <2>2, <3>3, <4>1, <4>2
    <3> QED BY <3>1, <3>2, <3>3
  <2>4. g = [n \in 0..(k + 1) |-> g[n]]
    OBVIOUS
  <2> HIDE DEF g
  <2>5. g = [n \in 0..(k + 1) |-> IF n = 0 THEN <<>> ELSE Parse(g[n - 1], text[n].kind)]
    BY <2>3, <2>4
  <2>6. IsRun(g, text, k + 1)
    BY <2>5 DEF IsRun
  <2> QED BY <2>6
<1>3. Nat \subseteq S
  <2> HIDE DEF S
  <2> QED BY <1>1, <1>2, Induction
<1> QED
  BY <1>3

LEMMA RunsAgree ==
    ASSUME NEW f, NEW g, NEW s, NEW t, NEW m \in Nat, NEW k \in Nat, m <= k,
           IsRun(f, s, m), IsRun(g, t, k), \A n \in 1..m : s[n] = t[n]
    PROVE  f[m] = g[m]
<1> DEFINE S == {n \in Nat : n <= m => f[n] = g[n]}
<1>1. /\ f[0] = <<>> /\ \A n \in 1..m : f[n] = Parse(f[n - 1], s[n].kind)
      /\ g[0] = <<>> /\ \A n \in 1..k : g[n] = Parse(g[n - 1], t[n].kind)
  BY RunAt
<1>2. 0 \in S
  BY <1>1
<1>3. ASSUME NEW n \in Nat, n \in S PROVE n + 1 \in S
  <2> SUFFICES ASSUME n + 1 <= m PROVE f[n + 1] = g[n + 1]
    OBVIOUS
  <2>1. f[n] = g[n]
    BY <1>3
  <2>2. n + 1 \in 1..m /\ n + 1 \in 1..k /\ (n + 1) - 1 = n
    OBVIOUS
  <2>3. f[n + 1] = Parse(f[n], s[n + 1].kind) /\ g[n + 1] = Parse(g[n], t[n + 1].kind)
    BY <1>1, <2>2
  <2> QED BY <2>1, <2>2, <2>3
<1>4. Nat \subseteq S
  <2> HIDE DEF S
  <2> QED BY <1>2, <1>3, Induction
<1> QED
  BY <1>4

LEMMA OpenTagsIsRun ==
    ASSUME NEW text, Len(text) \in Nat
    PROVE  \E f : IsRun(f, text, Len(text)) /\ OpenTags(text) = f[Len(text)]
<1>1. \E f : IsRun(f, text, Len(text))
  BY RunExists
<1>2. OpenTags(text) = (CHOOSE f : IsRun(f, text, Len(text)))[Len(text)]
  BY DEF OpenTags, IsRun
<1> QED
  BY <1>1, <1>2

(* A parser that reads one token more.                                     *)
LEMMA OpenTagsOfMore ==
    ASSUME NEW s \in Seq(Token), NEW t \in Token
    PROVE  OpenTags(s \o <<t>>) = Parse(OpenTags(s), t.kind)
<1> DEFINE st == s \o <<t>>
           last == Len(s) + 1
<1>1. <<t>> \in Seq(Token) /\ Len(<<t>>) = 1
  OBVIOUS
<1>2. Len(s) \in Nat /\ \A n \in 1..Len(s) : st[n] = s[n]
  BY <1>1, TokensOfConcat
<1>3. st[last] = t /\ Len(st) = last
  BY <1>1, TokensOfConcat, ConcatProperties
<1> HIDE DEF st
<1>4. PICK f : IsRun(f, s, Len(s)) /\ OpenTags(s) = f[Len(s)]
  BY <1>2, OpenTagsIsRun
<1>5. PICK g : IsRun(g, st, last) /\ OpenTags(st) = g[last]
  BY <1>2, <1>3, OpenTagsIsRun
<1>6. f[Len(s)] = g[Len(s)]
  BY <1>2, <1>4, <1>5, RunsAgree
<1>7. g[last] = Parse(g[last - 1], st[last].kind)
  BY <1>2, <1>5, RunAt
<1>8. last - 1 = Len(s)
  BY <1>2
<1> QED
  BY <1>3, <1>4, <1>5, <1>6, <1>7, <1>8 DEF st

LEMMA OpenTagsOfNothing == OpenTags(<<>>) = <<>>
<1>1. Len(<<>>) = 0
  BY EmptySeq
<1>2. PICK f : IsRun(f, <<>>, 0) /\ OpenTags(<<>>) = f[0]
  BY <1>1, OpenTagsIsRun
<1> QED
  BY <1>2, RunAt

-----------------------------------------------------------------------------
(***************************************************************************)
(* GeoJSON: the features are separated by single commas.                   *)
(***************************************************************************)
NoGaps == ~Multiple \/ \A c \in DOMAIN page : page[c] > 0

(* A document that was begun: its bracket, and what follows in turns.      *)
IsJsonBody(text) ==
    /\ Len(text) >= 1
    /\ text[1].kind = "["
    /\ \A i \in 2..Len(text) : text[i].kind = IF i % 2 = 0 THEN "feature" ELSE "comma"

IsJson(text) ==
    /\ Head(text).kind = "["
    /\ SeparatedByCommas(SubSeq(text, 2, Len(text) - 2))
    /\ text[Len(text) - 1].kind = "]" /\ Last(text).kind = "footer"

EndsInFeature(text) == Len(text) % 2 = 0

JsonInv ==
    format = "geojson" /\ NoGaps =>
    /\ pc = "header" => document = <<>>
    /\ pc \in {"collection", "read", "write", "flush", "footer"} => IsJsonBody(document)
    /\ pc = "collection" =>
          IF at = 1 THEN Len(document) = 1
          ELSE EndsInFeature(document) \/ (~Multiple /\ Len(document) = 1)
    /\ pc \in {"read", "flush"} =>
          IF read = 0 THEN ~EndsInFeature(document) /\ (~Multiple => Len(document) = 1)
          ELSE EndsInFeature(document)
    /\ pc = "write" => (read = 1 <=> ~EndsInFeature(document))
    /\ pc = "footer" => EndsInFeature(document) \/ Len(document) = 1
    /\ pc \in {"last", "exhausted"} => IsJson(document)

LEMMA BodyIsContinued ==
    ASSUME NEW s \in Seq(Token), IsJsonBody(s), NEW t \in Token,
           t.kind = IF EndsInFeature(s) THEN "comma" ELSE "feature"
    PROVE  /\ IsJsonBody(s \o <<t>>)
           /\ EndsInFeature(s \o <<t>>) <=> ~EndsInFeature(s)
           /\ Len(s \o <<t>>) = Len(s) + 1
<1> DEFINE st == s \o <<t>>
           last == Len(s) + 1
<1>1. <<t>> \in Seq(Token) /\ Len(<<t>>) = 1
  OBVIOUS
<1>2. Len(s) \in Nat /\ \A n \in 1..Len(s) : st[n] = s[n]
  BY <1>1, TokensOfConcat
<1>3. st[last] = t /\ Len(st) = last
  BY <1>1, TokensOfConcat, ConcatProperties
<1> HIDE DEF st
<1>4. EndsInFeature(st) <=> ~EndsInFeature(s)
  BY <1>2, <1>3 DEF EndsInFeature
<1>5. t.kind = IF last % 2 = 0 THEN "feature" ELSE "comma"
  BY <1>2 DEF EndsInFeature
<1>6. ASSUME NEW i \in 2..last
      PROVE  st[i].kind = IF i % 2 = 0 THEN "feature" ELSE "comma"
  <2>1. CASE i = last
    BY <1>3, <1>5, <2>1
  <2>2. CASE i # last
    <3>1. i \in 2..Len(s) /\ i \in 1..Len(s)
      BY <1>2, <2>2
    <3> QED BY <1>2, <3>1 DEF IsJsonBody
  <2> QED BY <2>1, <2>2
<1>7. 1 \in 1..Len(s) /\ last >= 1
  BY <1>2 DEF IsJsonBody
<1>8. st[1].kind = "["
  BY <1>2, <1>7 DEF IsJsonBody
<1> QED
  BY <1>3, <1>4, <1>6, <1>7, <1>8 DEF st, IsJsonBody

LEMMA BodyIsClosed ==
    ASSUME NEW s \in Seq(Token), IsJsonBody(s), EndsInFeature(s) \/ Len(s) = 1
    PROVE  IsJson(s \o <<Text("]"), Text("footer")>>)
<1> DEFINE t == <<Text("]"), Text("footer")>>
           st == s \o t
           body == SubSeq(st, 2, Len(st) - 2)
<1>1. t \in Seq(Token) /\ Len(t) = 2 /\ t[1].kind = "]" /\ t[2].kind = "footer"
  BY DEF Text, Token
<1>2. Len(s) \in Nat /\ \A n \in 1..Len(s) : st[n] = s[n]
  BY <1>1, TokensOfConcat
<1>3. /\ \A n \in 1..Len(t) : st[Len(s) + n] = t[n]
      /\ st \in Seq(Token) /\ Len(st) = Len(s) + Len(t)
  BY <1>1, TokensOfConcat, ConcatProperties
<1> HIDE DEF st, t
<1>4. Len(st) = Len(s) + 2 /\ st[Len(s) + 1].kind = "]" /\ st[Len(s) + 2].kind = "footer"
  BY <1>1, <1>3
<1>5. st[Len(st) - 1].kind = "]" /\ Last(st).kind = "footer"
  BY <1>2, <1>4 DEF Last
<1>6. Len(s) >= 1 /\ st[1].kind = "["
  BY <1>2 DEF IsJsonBody
<1>7. Head(st).kind = "["
  BY <1>2, <1>3, <1>4, <1>6
<1>8. SeparatedByCommas(body)
  <2>1. Len(st) - 2 = Len(s)
    BY <1>2, <1>4
  <2>2. Len(body) = Len(s) - 1 /\ \A i \in 1..(Len(s) - 1) : body[i] = st[i + 1]
    <3>1. 2 \in 1..(Len(st) + 1) /\ Len(s) \in 1..Len(st) /\ Len(st) \in Nat
      BY <1>2, <1>4, <1>6
    <3>2. /\ Len(body) = IF 2 <= Len(s) THEN Len(s) - 2 + 1 ELSE 0
          /\ \A i \in 1..(Len(s) - 2 + 1) : body[i] = st[2 + i - 1]
      <4>1. \A i \in 2..Len(s) : st[i] \in Token
        BY <1>2, <1>3, <3>1, ElementOfSeq
      <4> QED BY <2>1, <3>1, <4>1, SubSeqProperties
    <3> HIDE DEF body
    <3>3. Len(body) = Len(s) - 1
      <4>1. PICK n \in Nat : n = Len(s)
        BY <1>2
      <4>2. Len(body) = IF 2 <= n THEN n - 2 + 1 ELSE 0
        BY <3>2, <4>1
      <4>3. Len(body) = n - 1
        BY <1>6, <4>1, <4>2
      <4> QED BY <4>1, <4>3
    <3>4. ASSUME NEW i \in 1..(Len(s) - 1) PROVE body[i] = st[i + 1]
      <4>1. i \in 1..(Len(s) - 2 + 1) /\ 2 + i - 1 = i + 1
        BY <1>2
      <4>2. body[i] = st[2 + i - 1]
        BY <3>2, <4>1
      <4> QED BY <4>1, <4>2
    <3> QED BY <3>3, <3>4
  <2>3. body \in Seq(Token) /\ DOMAIN body = 1..(Len(s) - 1)
    <3>1. body \in Seq(Token)
      BY <1>2, <1>3, <1>4, <1>6, <2>1, SubSeqProperties
    <3> HIDE DEF body
    <3> QED BY <2>2, <3>1, LenProperties
  <2>4. ASSUME NEW i \in DOMAIN body
        PROVE  body[i].kind = IF i % 2 = 1 THEN "feature" ELSE "comma"
    <3>1. i \in Nat /\ i + 1 \in 2..Len(s) /\ i + 1 \in 1..Len(s) /\ i \in 1..(Len(s) - 1)
      BY <1>2, <2>3
    <3>2. body[i] = s[i + 1]
      BY <1>2, <2>2, <3>1
    <3>3. s[i + 1].kind = IF (i + 1) % 2 = 0 THEN "feature" ELSE "comma"
      BY <3>1 DEF IsJsonBody
    <3>4. (i + 1) % 2 = 0 <=> i % 2 = 1
      BY <3>1
    <3> QED BY <3>2, <3>3, <3>4
  <2>5. body # <<>> => Len(body) % 2 = 1
    <3>1. CASE Len(s) = 1
      BY <1>2, <2>2, <2>3, <3>1, EmptySeq
    <3>2. CASE Len(s) % 2 = 0
      <4>1. (Len(s) - 1) % 2 = 1
        BY <1>2, <1>6, <3>2
      <4> QED BY <2>2, <4>1
    <3> QED BY <3>1, <3>2 DEF EndsInFeature
  <2> HIDE DEF body
  <2> QED BY <2>4, <2>5 DEF SeparatedByCommas
<1> QED
  BY <1>5, <1>7, <1>8 DEF IsJson, st, t

LEMMA OneBefore ==
    ASSUME NEW S, NEW a \in S, NEW s \in Seq(S), NEW u \in Seq(S),
           Len(u) = Len(s) + 1, u[1] = a, \A i \in 1..Len(s) : u[i + 1] = s[i]
    PROVE  <<a>> \o s = u
<1> DEFINE t == <<a>>
           ts == t \o s
<1>1. t \in Seq(S) /\ Len(t) = 1 /\ t[1] = a /\ Len(s) \in Nat
  BY LenProperties
<1> HIDE DEF t
<1>2. /\ ts \in Seq(S) /\ Len(ts) = Len(t) + Len(s)
      /\ \A i \in 1 .. Len(t) + Len(s) : ts[i] = IF i <= Len(t) THEN t[i] ELSE s[i - Len(t)]
  BY <1>1, ConcatProperties
<1> HIDE DEF ts
<1>3. Len(ts) = Len(u)
  BY <1>1, <1>2
<1>4. ASSUME NEW i \in 1..Len(ts) PROVE ts[i] = u[i]
  <2>1. ts[i] = IF i <= 1 THEN t[i] ELSE s[i - 1]
    BY <1>1, <1>2
  <2>2. CASE i = 1
    BY <1>1, <2>1, <2>2
  <2>3. CASE i # 1
    <3>1. i - 1 \in 1..Len(s) /\ (i - 1) + 1 = i /\ ~(i <= 1)
      BY <1>1, <1>2, <2>3
    <3> QED BY <2>1, <3>1
  <2> QED BY <2>2, <2>3
<1>5. ts = u
  BY <1>2, <1>3, <1>4, SeqEqual
<1> QED
  BY <1>5 DEF t, ts

LEMMA TwoTokens == ASSUME NEW a, NEW b PROVE <<a>> \o <<b>> = <<a, b>>
<1> DEFINE S == {a, b}
           s == <<b>>
           u == <<a, b>>
<1>1. s \in Seq(S) /\ Len(s) = 1 /\ s[1] = b
  OBVIOUS
<1>2. u \in Seq(S) /\ Len(u) = 2 /\ u[1] = a /\ u[2] = b
  OBVIOUS
<1>3. a \in S
  OBVIOUS
<1> HIDE DEF S, s, u
<1>4. \A i \in 1..Len(s) : u[i + 1] = s[i]
  BY <1>1, <1>2
<1>5. Len(u) = Len(s) + 1
  BY <1>1, <1>2
<1>6. s \in Seq(S) /\ u \in Seq(S) /\ u[1] = a
  BY <1>1, <1>2
<1>7. <<a>> \o s = u
  BY <1>3, <1>4, <1>5, <1>6, OneBefore
<1> QED
  BY <1>7 DEF s, u

LEMMA JsonStep == TypeInv /\ FeaturesInv /\ JsonInv /\ [Next]_vars => JsonInv'
<1> SUFFICES ASSUME TypeInv, FeaturesInv, JsonInv, [Next]_vars, format' = "geojson", NoGaps'
             PROVE  JsonInv'
  BY DEF JsonInv
<1> USE DEF TypeInv
<1>r. format = "geojson" /\ NoGaps /\ page' = page
  BY DEF Next, Render, Failing, WriteHeader, OpenCollection, ReadFeature, WriteFeature, Flush,
         CloseCollection, EndCollections, WriteFooter, YieldLast, FailHeader, FailCollection,
         FailRead, FailFeature, FailFooter, Fail, HandOver, Send, Leave, vars, request, NoGaps,
         Multiple
<1>m. Multiple' <=> Multiple
  BY <1>r DEF Multiple
<1>0. /\ at \in Nat /\ at >= 1 /\ at <= Len(page) + 1 /\ read \in Nat /\ Len(page) \in Nat
      /\ document \in Seq(Token) /\ Len(page) >= 1
  BY PositionIsNumber, PageIsSequence DEF TypeOK
<1>i. /\ pc = "header" => document = <<>>
      /\ pc \in {"collection", "read", "write", "flush", "footer"} => IsJsonBody(document)
      /\ pc = "collection" =>
            IF at = 1 THEN Len(document) = 1
            ELSE EndsInFeature(document) \/ (~Multiple /\ Len(document) = 1)
      /\ pc \in {"read", "flush"} =>
            IF read = 0 THEN ~EndsInFeature(document) /\ (~Multiple => Len(document) = 1)
            ELSE EndsInFeature(document)
      /\ pc = "write" => (read = 1 <=> ~EndsInFeature(document))
      /\ pc = "footer" => EndsInFeature(document) \/ Len(document) = 1
      /\ pc \in {"last", "exhausted"} => IsJson(document)
  BY <1>r DEF JsonInv
<1>c. Text("comma") \in Token /\ Text("comma").kind = "comma"
      /\ Text("[") \in Token /\ Text("[").kind = "["
  BY DEF Text, Token
<1>1. CASE WriteHeader
  <2>1. document' = <<Text("[")>> /\ pc' = "collection" /\ at' = 1
    <3>1. document' = <<>> \o <<Text("[")>> /\ pc' = "collection" /\ at' = 1
      BY <1>1, <1>r, <1>i DEF WriteHeader, Running, Writes, Header, Positions
    <3>2. <<Text("[")>> \in Seq(Token)
      BY <1>c
    <3> QED BY <3>1, <3>2, ConcatEmptySeq
  <2>2. Len(document') = 1 /\ document'[1].kind = "["
    BY <1>c, <2>1
  <2>3. IsJsonBody(document')
    BY <2>2 DEF IsJsonBody
  <2> QED BY <2>1, <2>2, <2>3 DEF JsonInv
<1>2. CASE OpenCollection
  <2>1. /\ document' = document \o OnlyIf(at > 1, <<Text("comma")>>) /\ pc' = "read"
        /\ read' = 0 /\ at' = at /\ at <= Len(page) /\ pc = "collection"
    <3>1. Opening = OnlyIf(at > 1, <<Text("comma")>>)
      BY <1>r DEF Opening
    <3> QED BY <1>2, <3>1 DEF OpenCollection, Running, Writes
  <2>2. CASE at = 1
    <3>1. document' = document
      BY <1>0, <2>1, <2>2, ConcatEmptySeq DEF OnlyIf
    <3>2. Len(document) = 1 /\ IsJsonBody(document)
      BY <1>i, <2>1, <2>2
    <3>3. ~EndsInFeature(document)
      BY <3>2 DEF EndsInFeature
    <3> QED BY <2>1, <3>1, <3>2, <3>3 DEF JsonInv
  <2>3. CASE at > 1
    <3>1. document' = document \o <<Text("comma")>>
      BY <2>1, <2>3 DEF OnlyIf
    <3>2. Multiple
      BY <1>0, <2>1, <2>3 DEF Multiple
    <3>3. EndsInFeature(document) /\ IsJsonBody(document)
      BY <1>i, <2>1, <2>3, <3>2
    <3>4. IsJsonBody(document') /\ ~EndsInFeature(document')
      BY <1>0, <1>c, <3>1, <3>3, BodyIsContinued
    <3> QED BY <1>m, <2>1, <3>2, <3>4 DEF JsonInv
  <2> QED BY <1>0, <2>2, <2>3
<1>3. CASE ReadFeature
  BY <1>0, <1>3, <1>i DEF ReadFeature, Running, JsonInv
<1>4. CASE WriteFeature
  <2> DEFINE f == Feature(at, read)
  <2>1. /\ document' = document \o (OnlyIf(read > 1, <<Text("comma")>>) \o <<f>> \o <<>>)
        /\ pc' \in {"read", "flush"} /\ read' = read /\ pc = "write" /\ read >= 1
    BY <1>4, <1>r DEF WriteFeature, Running, Writes, BeforeFeature, AfterFeature, OnlyIf,
                      FeaturesInv
  <2>2. f \in Token /\ f.kind = "feature" /\ <<f>> \in Seq(Token)
    BY <1>0 DEF Feature, Token
  <2> HIDE DEF f
  <2>3. CASE read = 1
    <3>1. document' = document \o <<f>>
      <4>1. document' = document \o (<<>> \o <<f>> \o <<>>)
        BY <2>1, <2>3 DEF OnlyIf
      <4> QED BY <2>2, <4>1, ConcatEmptySeq
    <3>2. ~EndsInFeature(document) /\ IsJsonBody(document)
      BY <1>i, <2>1, <2>3
    <3>3. IsJsonBody(document') /\ EndsInFeature(document')
      BY <1>0, <2>2, <3>1, <3>2, BodyIsContinued
    <3> QED BY <2>1, <2>3, <3>3 DEF JsonInv
  <2>4. CASE read > 1
    <3> DEFINE d == document \o <<Text("comma")>>
    <3>1. document' = d \o <<f>>
      <4>0. <<Text("comma")>> \in Seq(Token)
        BY <1>c
      <4>1. document' = document \o (<<Text("comma")>> \o <<f>> \o <<>>)
        BY <2>1, <2>4 DEF OnlyIf
      <4>2. <<Text("comma")>> \o <<f>> \in Seq(Token)
        BY <2>2, <4>0, ConcatProperties
      <4>3. document' = document \o (<<Text("comma")>> \o <<f>>)
        BY <4>1, <4>2, ConcatEmptySeq
      <4> QED BY <1>0, <2>2, <4>0, <4>3, Associative
    <3>2. EndsInFeature(document) /\ IsJsonBody(document)
      BY <1>i, <2>1, <2>4
    <3>3. IsJsonBody(d) /\ ~EndsInFeature(d)
      BY <1>0, <1>c, <3>2, BodyIsContinued
    <3>4. d \in Seq(Token)
      <4>1. <<Text("comma")>> \in Seq(Token)
        BY <1>c
      <4> QED BY <1>0, <4>1, ConcatProperties
    <3> HIDE DEF d
    <3>5. IsJsonBody(document') /\ EndsInFeature(document')
      BY <2>2, <3>1, <3>3, <3>4, BodyIsContinued
    <3> QED BY <2>1, <2>4, <3>5 DEF JsonInv
  <2> QED BY <1>0, <2>1, <2>3, <2>4
<1>5. CASE Flush
  BY <1>5, <1>i, <1>m DEF Flush, Running, JsonInv
<1>6. CASE CloseCollection
  <2>1. /\ document' = document /\ pc' = "collection" /\ at' = at + 1
        /\ pc = "read" /\ read = page[at] /\ at <= Len(page)
    <3>0. Closing = <<>>
      BY <1>r DEF Closing, OnlyIf
    <3>1. document' = document \o <<>>
      BY <1>6, <3>0 DEF CloseCollection, Writes
    <3>2. document' = document
      BY <1>0, <3>1, ConcatEmptySeq
    <3> QED BY <1>6, <3>2 DEF CloseCollection, Running, Positions
  <2>2. Multiple => read > 0
    <3>0. page \in Seq(Nat)
      BY PagesAssumption DEF TypeOK
    <3>1. at \in DOMAIN page
      BY <1>0, <2>1, <3>0, LenProperties
    <3> QED BY <1>r, <2>1, <3>1 DEF NoGaps
  <2>3. at' # 1
    BY <1>0, <2>1
  <2>4. EndsInFeature(document) \/ (~Multiple /\ Len(document) = 1)
    BY <1>0, <1>i, <2>1, <2>2
  <2> QED BY <1>i, <1>m, <2>1, <2>3, <2>4 DEF JsonInv
<1>7. CASE EndCollections
  <2>1. at # 1 /\ pc = "collection" /\ pc' = "footer" /\ document' = document
    BY <1>0, <1>7 DEF EndCollections, Running
  <2> QED BY <1>i, <2>1 DEF JsonInv
<1>8. CASE WriteFooter
  <2>1. document' = document \o <<Text("]"), Text("footer")>> /\ pc' = "last" /\ pc = "footer"
    <3>1. BeforeFooter \o Footer = <<Text("]")>> \o <<Text("footer")>>
      BY <1>r DEF BeforeFooter, Footer, OnlyIf
    <3>2. BeforeFooter \o Footer = <<Text("]"), Text("footer")>>
      BY <3>1, TwoTokens
    <3> QED BY <1>8, <3>2 DEF WriteFooter, Writes, Running
  <2>2. IsJson(document')
    BY <1>0, <1>i, <2>1, BodyIsClosed
  <2> QED BY <2>1, <2>2 DEF JsonInv
<1>9. CASE YieldLast
  BY <1>9, <1>i DEF YieldLast, Running, JsonInv
<1>10. CASE Failing
  <2>1. pc' = "raised"
    BY <1>10, FailingIsFail DEF Fail
  <2> QED BY <2>1 DEF JsonInv
<1>s. ASSUME UNCHANGED <<pc, at, read, document>> PROVE JsonInv'
  BY <1>s, <1>i, <1>m DEF JsonInv
<1>11. CASE HandOver
  BY <1>11, <1>s DEF HandOver
<1>12. CASE Send
  BY <1>12, <1>s DEF Send
<1>13. CASE Leave
  BY <1>13, <1>s DEF Leave
<1>14. CASE UNCHANGED vars
  BY <1>14, <1>s DEF vars
<1> QED
  BY <1>1, <1>2, <1>3, <1>4, <1>5, <1>6, <1>7, <1>8, <1>9, <1>10, <1>11, <1>12, <1>13, <1>14
  DEF Next, Render

-----------------------------------------------------------------------------
(***************************************************************************)
(* GML: which tags are open, wherever the generator is.                    *)
(***************************************************************************)
InCollection == <<"<collection>">>
InMember == <<"<member>", "<collection>">>
InSub == IF Multiple THEN <<"<sub>", "<member>", "<collection>">> ELSE InCollection

(* The exceptions to well-formedness that XmlIsWellFormed names, in a text.*)
BrokenOff(text) ==
    \/ \E i \in DOMAIN text : text[i].kind = "<feature>"
    \/ Multiple /\ \E i \in 2..Len(text) : text[i - 1].kind = "note" /\ text[i].kind = "</sub>"

XmlInv ==
    format = "gml" =>
    /\ pc = "header" => document = <<>>
    /\ pc \in {"collection", "footer"} => OpenTags(document) = InCollection
    /\ pc \in {"read", "write", "flush"} => OpenTags(document) = InSub
    /\ pc \in {"last", "exhausted"} => OpenTags(document) = <<>>
    /\ pc = "collection" /\ at = 1 => status = "none" /\ turn = "renderer"
    /\ pc = "collection" /\ at > 1 /\ Multiple => IsSuffix(SubClosing, output)
    /\ pc = "read" /\ Multiple => ~IsSuffix(SubClosing, output)
    /\ pc = "raised" /\ status = "ok" => OpenTags(document) = <<>> \/ BrokenOff(document)

LEMMA IsToken == ASSUME NEW k \in Writable PROVE Text(k) \in Token /\ Text(k).kind = k
BY DEF Text, Token, Writable

LEMMA OneMoreTag ==
    ASSUME NEW s \in Seq(Token), NEW k \in Writable
    PROVE  /\ s \o <<Text(k)>> \in Seq(Token)
           /\ OpenTags(s \o <<Text(k)>>) = Parse(OpenTags(s), k)
<1>1. Text(k) \in Token /\ Text(k).kind = k /\ <<Text(k)>> \in Seq(Token)
  BY IsToken
<1> QED
  BY <1>1, OpenTagsOfMore, ConcatProperties

LEMMA TwoMoreTags ==
    ASSUME NEW s \in Seq(Token), NEW k \in Writable, NEW l \in Writable
    PROVE  /\ s \o <<Text(k), Text(l)>> \in Seq(Token)
           /\ OpenTags(s \o <<Text(k), Text(l)>>) = Parse(Parse(OpenTags(s), k), l)
<1> DEFINE sk == s \o <<Text(k)>>
<1>1. sk \in Seq(Token) /\ OpenTags(sk) = Parse(OpenTags(s), k)
  BY OneMoreTag
<1>2. <<Text(k)>> \in Seq(Token) /\ <<Text(l)>> \in Seq(Token)
  BY IsToken
<1>3. s \o <<Text(k), Text(l)>> = sk \o <<Text(l)>>
  <2>1. <<Text(k), Text(l)>> = <<Text(k)>> \o <<Text(l)>>
    BY TwoTokens
  <2> QED BY <1>2, <2>1, Associative
<1> HIDE DEF sk
<1>4. sk \o <<Text(l)>> \in Seq(Token) /\ OpenTags(sk \o <<Text(l)>>) = Parse(OpenTags(sk), l)
  BY <1>1, OneMoreTag
<1> QED
  BY <1>1, <1>3, <1>4

LEMMA OneMoreOpen ==
    /\ <<"<sub>">> \o InMember = <<"<sub>", "<member>", "<collection>">>
    /\ <<"<member>">> \o <<"<sub>", "<member>", "<collection>">>
          = <<"<member>", "<sub>", "<member>", "<collection>">>
<1> DEFINE S == {"<sub>", "<member>", "<collection>"}
           two == <<"<member>", "<collection>">>
           three == <<"<sub>", "<member>", "<collection>">>
           four == <<"<member>", "<sub>", "<member>", "<collection>">>
<1>1. two \in Seq(S) /\ Len(two) = 2 /\ two[1] = "<member>" /\ two[2] = "<collection>"
  OBVIOUS
<1>2. /\ three \in Seq(S) /\ Len(three) = 3
      /\ three[1] = "<sub>" /\ three[2] = "<member>" /\ three[3] = "<collection>"
  OBVIOUS
<1>3. /\ four \in Seq(S) /\ Len(four) = 4
      /\ four[1] = "<member>" /\ four[2] = "<sub>" /\ four[3] = "<member>"
      /\ four[4] = "<collection>"
  OBVIOUS
<1>s. "<member>" \in S /\ "<sub>" \in S
  OBVIOUS
<1> HIDE DEF S, two, three, four
<1>4. <<"<sub>">> \o two = three
  <2>1. \A i \in 1..Len(two) : three[i + 1] = two[i]
    BY <1>1, <1>2
  <2>2. Len(three) = Len(two) + 1 /\ three[1] = "<sub>"
    BY <1>1, <1>2
  <2>3. two \in Seq(S) /\ three \in Seq(S)
    BY <1>1, <1>2
  <2> QED BY <1>s, <2>1, <2>2, <2>3, OneBefore
<1>5. <<"<member>">> \o three = four
  <2>1. \A i \in 1..Len(three) : four[i + 1] = three[i]
    BY <1>2, <1>3
  <2>2. Len(four) = Len(three) + 1 /\ four[1] = "<member>"
    BY <1>2, <1>3
  <2>3. three \in Seq(S) /\ four \in Seq(S)
    BY <1>2, <1>3
  <2> QED BY <1>s, <2>1, <2>2, <2>3, OneBefore
<1> QED
  BY <1>4, <1>5 DEF two, three, four, InMember

(* What each token does to the tags that are open here.                    *)
LEMMA ParseTags ==
    /\ Parse(<<>>, "<collection>") = InCollection
    /\ Parse(InCollection, "</collection>") = <<>>
    /\ Parse(InCollection, "<member>") = InMember
    /\ Parse(InMember, "</member>") = InCollection
    /\ Parse(InMember, "<sub>") = <<"<sub>", "<member>", "<collection>">>
    /\ Parse(<<"<sub>", "<member>", "<collection>">>, "</sub>") = InMember
    /\ Parse(<<"<sub>", "<member>", "<collection>">>, "<member>")
          = <<"<member>", "<sub>", "<member>", "<collection>">>
    /\ Parse(<<"<member>", "<sub>", "<member>", "<collection>">>, "</member>")
          = <<"<sub>", "<member>", "<collection>">>
    /\ Parse(InMember, "feature") = InMember
    /\ Parse(<<"<member>", "<sub>", "<member>", "<collection>">>, "feature")
          = <<"<member>", "<sub>", "<member>", "<collection>">>
    /\ Parse(InCollection, "truncated") = InCollection
    /\ \A stack : Parse(stack, "note") = stack
<1> USE DEF Parse, Closes, Parent, InCollection, InMember, OnlyIf
<1>1. Parse(<<>>, "<collection>") = InCollection
  OBVIOUS
<1>2. Parse(InCollection, "</collection>") = <<>>
  OBVIOUS
<1>3. Parse(InCollection, "<member>") = InMember
  BY TwoTokens
<1>4. Parse(InMember, "</member>") = InCollection
  OBVIOUS
<1>5. Parse(InMember, "<sub>") = <<"<sub>", "<member>", "<collection>">>
  <2>1. <<"<sub>">> \o InMember = <<"<sub>", "<member>", "<collection>">>
    BY OneMoreOpen
  <2> QED BY <2>1
<1>6. Parse(<<"<sub>", "<member>", "<collection>">>, "</sub>") = InMember
  OBVIOUS
<1>7. Parse(<<"<sub>", "<member>", "<collection>">>, "<member>")
         = <<"<member>", "<sub>", "<member>", "<collection>">>
  <2>1. <<"<member>">> \o <<"<sub>", "<member>", "<collection>">>
           = <<"<member>", "<sub>", "<member>", "<collection>">>
    BY OneMoreOpen
  <2> QED BY <2>1
<1>8. Parse(<<"<member>", "<sub>", "<member>", "<collection>">>, "</member>")
         = <<"<sub>", "<member>", "<collection>">>
  OBVIOUS
<1>9. Parse(InMember, "feature") = InMember
  OBVIOUS
<1>10. Parse(<<"<member>", "<sub>", "<member>", "<collection>">>, "feature")
          = <<"<member>", "<sub>", "<member>", "<collection>">>
  OBVIOUS
<1>11. Parse(InCollection, "truncated") = InCollection
  OBVIOUS
<1>12. \A stack : Parse(stack, "note") = stack
  OBVIOUS
<1> QED
  BY <1>1, <1>2, <1>3, <1>4, <1>5, <1>6, <1>7, <1>8, <1>9, <1>10, <1>11, <1>12

(* The end of a text, which render_exception() looks at.                   *)
LEMMA SubClosingAtEnd ==
    ASSUME NEW s \in Seq(Token)
    PROVE  IsSuffix(SubClosing, s) <=>
              Len(s) >= 2 /\ s[Len(s) - 1] = Text("</sub>") /\ s[Len(s)] = Text("</member>")
<1> DEFINE c == SubClosing
           rc == Reverse(c)
           rs == Reverse(s)
<1>1. c \in Seq(Token) /\ Len(c) = 2 /\ c[1] = Text("</sub>") /\ c[2] = Text("</member>")
  BY IsToken DEF SubClosing, Writable
<1>2. Len(s) \in Nat /\ DOMAIN s = 1..Len(s)
  BY LenProperties
<1> HIDE DEF c
<1>3. rc \in Seq(Token) /\ Len(rc) = 2 /\ rc[1] = Text("</member>") /\ rc[2] = Text("</sub>")
  <2>1. rc = [i \in 1..2 |-> c[(2 - i) + 1]]
    BY <1>1 DEF Reverse
  <2>2. rc[1] = c[2] /\ rc[2] = c[1]
    BY <2>1
  <2>3. rc \in Seq(Token) /\ Len(rc) = 2
    <3>1. \A i \in 1..2 : c[(2 - i) + 1] \in Token
      <4>1. c[1] \in Token /\ c[2] \in Token
        <5>1. 1 \in 1..Len(c) /\ 2 \in 1..Len(c)
          BY <1>1
        <5> QED BY <1>1, <5>1, ElementOfSeq
      <4>2. \A i \in 1..2 : (2 - i) + 1 \in {1, 2}
        OBVIOUS
      <4> QED BY <4>1, <4>2
    <3> QED BY <2>1, <3>1, IsASeq
  <2> QED BY <1>1, <2>2, <2>3
<1>4. rs \in Seq(Token) /\ Len(rs) = Len(s)
      /\ (Len(s) >= 2 => rs[1] = s[Len(s)] /\ rs[2] = s[Len(s) - 1])
  <2>1. rs = [i \in 1..Len(s) |-> s[(Len(s) - i) + 1]]
    BY DEF Reverse
  <2>2. \A i \in 1..Len(s) : s[(Len(s) - i) + 1] \in Token
    <3>1. \A i \in 1..Len(s) : (Len(s) - i) + 1 \in 1..Len(s)
      BY <1>2
    <3> QED BY <3>1, ElementOfSeq
  <2>3. rs \in Seq(Token) /\ Len(rs) = Len(s)
    BY <1>2, <2>1, <2>2, IsASeq
  <2>4. Len(s) >= 2 => rs[1] = s[(Len(s) - 1) + 1] /\ rs[2] = s[(Len(s) - 2) + 1]
    BY <1>2, <2>1
  <2>5. (Len(s) - 1) + 1 = Len(s) /\ (Len(s) - 2) + 1 = Len(s) - 1
    BY <1>2
  <2> QED BY <2>3, <2>4, <2>5
<1> HIDE DEF rc, rs
<1>5. IsSuffix(c, s) <=> 2 <= Len(rs) /\ SubSeq(rc, 1, 2) = SubSeq(rs, 1, 2)
  BY <1>3 DEF IsSuffix, IsPrefix, rc, rs
<1>6. ASSUME Len(s) >= 2
      PROVE  SubSeq(rc, 1, 2) = SubSeq(rs, 1, 2) <=> rc[1] = rs[1] /\ rc[2] = rs[2]
  <2> DEFINE a == SubSeq(rc, 1, 2)
             b == SubSeq(rs, 1, 2)
  <2>1. \A i \in 1..2 : rc[i] \in Token /\ rs[i] \in Token
    <3>1. 1 \in 1..Len(rs) /\ 2 \in 1..Len(rs) /\ 1 \in 1..Len(rc) /\ 2 \in 1..Len(rc)
      BY <1>2, <1>3, <1>4, <1>6
    <3>2. rc[1] \in Token /\ rc[2] \in Token /\ rs[1] \in Token /\ rs[2] \in Token
      BY <1>3, <1>4, <3>1, ElementOfSeq
    <3> QED BY <3>2
  <2>2. a \in Seq(Token) /\ Len(a) = 2 /\ a[1] = rc[1] /\ a[2] = rc[2]
    <3>1. /\ a \in Seq(Token) /\ Len(a) = IF 1 <= 2 THEN 2 - 1 + 1 ELSE 0
          /\ \A i \in 1 .. 2 - 1 + 1 : a[i] = rc[1 + i - 1]
      BY <2>1, SubSeqProperties
    <3> HIDE DEF a
    <3> QED BY <3>1
  <2>3. b \in Seq(Token) /\ Len(b) = 2 /\ b[1] = rs[1] /\ b[2] = rs[2]
    <3>1. /\ b \in Seq(Token) /\ Len(b) = IF 1 <= 2 THEN 2 - 1 + 1 ELSE 0
          /\ \A i \in 1 .. 2 - 1 + 1 : b[i] = rs[1 + i - 1]
      BY <2>1, SubSeqProperties
    <3> HIDE DEF b
    <3> QED BY <3>1
  <2> HIDE DEF a, b
  <2>4. a = b => a[1] = b[1] /\ a[2] = b[2]
    OBVIOUS
  <2>5. ASSUME a[1] = b[1], a[2] = b[2] PROVE a = b
    <3>1. \A i \in 1..Len(a) : a[i] = b[i]
      BY <2>2, <2>5
    <3> QED BY <2>2, <2>3, <3>1, SeqEqual
  <2> QED BY <2>2, <2>3, <2>4, <2>5 DEF a, b
<1> QED
  BY <1>2, <1>3, <1>4, <1>5, <1>6 DEF c

LEMMA LastTwo ==
    ASSUME NEW s \in Seq(Token), NEW a \in Token, NEW b \in Token
    PROVE  /\ s \o <<a, b>> \in Seq(Token)
           /\ IsSuffix(SubClosing, s \o <<a, b>>) <=> a = Text("</sub>") /\ b = Text("</member>")
<1> DEFINE t == <<a, b>>
           st == s \o t
<1>1. t \in Seq(Token) /\ Len(t) = 2 /\ t[1] = a /\ t[2] = b
  OBVIOUS
<1> HIDE DEF t
<1>2. /\ st \in Seq(Token) /\ Len(st) = Len(s) + Len(t) /\ Len(s) \in Nat
      /\ \A i \in 1..Len(t) : st[Len(s) + i] = t[i]
  <2>1. st \in Seq(Token) /\ Len(st) = Len(s) + Len(t)
    BY <1>1, ConcatProperties
  <2>2. Len(s) \in Nat /\ \A i \in 1..Len(t) : st[Len(s) + i] = t[i]
    BY <1>1, TokensOfConcat
  <2> QED BY <2>1, <2>2
<1>3. st[Len(s) + 1] = a /\ st[Len(s) + 2] = b /\ Len(st) = Len(s) + 2
  BY <1>1, <1>2
<1> HIDE DEF st
<1>4. Len(st) - 1 = Len(s) + 1 /\ Len(st) >= 2
  BY <1>2, <1>3
<1> QED
  BY <1>2, <1>3, <1>4, SubClosingAtEnd DEF st, t

LEMMA NoteOpensNothing ==
    ASSUME NEW s \in Seq(Token)
    PROVE  s \o Note \in Seq(Token) /\ OpenTags(s \o Note) = OpenTags(s)
<1>1. CASE Note = <<Text("note")>>
  <2>1. "note" \in Writable
    BY DEF Writable
  <2> QED BY <1>1, <2>1, OneMoreTag, ParseTags
<1>2. CASE Note = <<>>
  BY <1>2, ConcatEmptySeq
<1> QED
  BY <1>1, <1>2 DEF Note, OnlyIf

Sub == <<"<sub>", "<member>", "<collection>">>

(* A collection that is opened and one that is closed.                     *)
LEMMA SubFrames ==
    ASSUME NEW s \in Seq(Token)
    PROVE  /\ s \o SubOpening \in Seq(Token) /\ s \o SubClosing \in Seq(Token)
           /\ OpenTags(s) = InCollection => OpenTags(s \o SubOpening) = Sub
           /\ OpenTags(s) = Sub => OpenTags(s \o SubClosing) = InCollection
           /\ IsSuffix(SubClosing, s \o SubClosing)
           /\ ~IsSuffix(SubClosing, s \o SubOpening)
<1>1. /\ "<member>" \in Writable /\ "<sub>" \in Writable
      /\ "</member>" \in Writable /\ "</sub>" \in Writable
  BY DEF Writable
<1>2. s \o SubOpening \in Seq(Token)
      /\ OpenTags(s \o SubOpening) = Parse(Parse(OpenTags(s), "<member>"), "<sub>")
  BY <1>1, TwoMoreTags DEF SubOpening
<1>3. s \o SubClosing \in Seq(Token)
      /\ OpenTags(s \o SubClosing) = Parse(Parse(OpenTags(s), "</sub>"), "</member>")
  BY <1>1, TwoMoreTags DEF SubClosing
<1>4. /\ Text("<member>") \in Token /\ Text("<sub>") \in Token
      /\ Text("</member>") \in Token /\ Text("</sub>") \in Token
  BY <1>1, IsToken
<1>5. IsSuffix(SubClosing, s \o SubClosing)
  BY <1>4, LastTwo DEF SubClosing
<1>6. ~IsSuffix(SubClosing, s \o SubOpening)
  <2>1. Text("<member>") # Text("</sub>")
    BY DEF Text
  <2> QED BY <1>4, <2>1, LastTwo DEF SubOpening
<1> QED
  BY <1>2, <1>3, <1>5, <1>6, ParseTags DEF Sub

(* A whole feature leaves open what was open before it.                    *)
LEMMA FeatureFrame ==
    ASSUME NEW s \in Seq(Token), NEW c \in Nat, NEW r \in Nat,
           OpenTags(s) = Sub \/ OpenTags(s) = InCollection
    PROVE  OpenTags(s \o (<<Text("<member>")>> \o <<Feature(c, r)>> \o <<Text("</member>")>>))
              = OpenTags(s)
<1> DEFINE f == Feature(c, r)
           t1 == <<Text("<member>")>>
           t2 == <<f>>
           t3 == <<Text("</member>")>>
           s1 == s \o t1
           s2 == s1 \o t2
<1>1. f \in Token /\ f.kind = "feature"
  BY DEF Feature, Token, Text
<1>2. "<member>" \in Writable /\ "</member>" \in Writable
  BY DEF Writable
<1>3. /\ Text("<member>") \in Token /\ Text("</member>") \in Token
      /\ t1 \in Seq(Token) /\ t2 \in Seq(Token) /\ t3 \in Seq(Token)
  BY <1>1, <1>2, IsToken
<1>4. s1 \in Seq(Token) /\ OpenTags(s1) = Parse(OpenTags(s), "<member>")
  BY <1>2, OneMoreTag
<1> HIDE DEF f
<1>5. s2 \in Seq(Token) /\ OpenTags(s2) = Parse(OpenTags(s1), "feature")
  <2> HIDE DEF s1
  <2> QED BY <1>1, <1>3, <1>4, OpenTagsOfMore, ConcatProperties
<1>6. OpenTags(s2 \o t3) = Parse(OpenTags(s2), "</member>")
  <2> HIDE DEF s2
  <2> QED BY <1>2, <1>5, OneMoreTag
<1>7. s \o (t1 \o t2 \o t3) = s2 \o t3
  <2> HIDE DEF t1, t2, t3
  <2>1. t1 \o t2 \in Seq(Token)
    BY <1>3, ConcatProperties
  <2>2. s \o ((t1 \o t2) \o t3) = (s \o (t1 \o t2)) \o t3
    BY ZenonT(30), <1>3, <2>1, Associative
  <2>3. s \o (t1 \o t2) = (s \o t1) \o t2
    BY <1>3, Associative
  <2> QED BY <2>2, <2>3 DEF s1, s2
<1>8. Parse(Parse(Parse(OpenTags(s), "<member>"), "feature"), "</member>") = OpenTags(s)
  BY ParseTags DEF Sub
<1> HIDE DEF t1, t2, t3, s1, s2
<1>9. OpenTags(s2 \o t3) = OpenTags(s)
  BY <1>4, <1>5, <1>6, <1>8
<1> QED
  BY <1>7, <1>9 DEF f, t1, t2, t3

LEMMA FeatureEnds ==
    ASSUME NEW s \in Seq(Token), NEW c \in Nat, NEW r \in Nat
    PROVE  ~IsSuffix(SubClosing,
                 s \o (<<Text("<member>")>> \o <<Feature(c, r)>> \o <<Text("</member>")>>))
<1> DEFINE f == Feature(c, r)
           t1 == <<Text("<member>")>>
           t2 == <<f>>
           t3 == <<Text("</member>")>>
           s1 == s \o t1
<1>1. f \in Token /\ f # Text("</sub>")
  BY DEF Feature, Token, Text
<1>2. /\ Text("<member>") \in Token /\ Text("</member>") \in Token
      /\ t1 \in Seq(Token) /\ t2 \in Seq(Token) /\ t3 \in Seq(Token)
  <2>1. "<member>" \in Writable /\ "</member>" \in Writable
    BY DEF Writable
  <2> QED BY <1>1, <2>1, IsToken
<1>3. t2 \o t3 = <<f, Text("</member>")>>
  BY TwoTokens
<1> HIDE DEF f, t1, t2, t3
<1>4. s1 \in Seq(Token) /\ t2 \o t3 \in Seq(Token)
  BY <1>2, ConcatProperties
<1>5. (t1 \o t2) \o t3 = t1 \o (t2 \o t3)
  BY <1>2, Associative
<1>6. s \o (t1 \o (t2 \o t3)) = s1 \o (t2 \o t3)
  BY <1>2, <1>4, Associative
<1> HIDE DEF s1
<1>7. ~IsSuffix(SubClosing, s1 \o (t2 \o t3))
  BY <1>1, <1>2, <1>3, <1>4, LastTwo
<1> QED
  BY <1>5, <1>6, <1>7 DEF f, t1, t2, t3

(* render_exception() at the top level.                                    *)
LEMMA Truncated ==
    ASSUME NEW s \in Seq(Token), OpenTags(s) = InCollection
    PROVE  OpenTags(s \o <<Text("truncated"), Text("</collection>")>>) = <<>>
<1>1. "truncated" \in Writable /\ "</collection>" \in Writable
  BY DEF Writable
<1> QED
  BY <1>1, TwoMoreTags, ParseTags

(* Where the text of an exception report goes: after the tags that were    *)
(* open are closed, unless the document is broken off inside a feature, or *)
(* after the note before a later collection.                               *)
LEMMA ReportAtTopLevel ==
    ASSUME NEW d \in Seq(Token), NEW buffer \in Seq(Token), format = "gml",
           OpenTags(d) = InCollection \/ (Multiple /\ OpenTags(d) = Sub),
           Multiple /\ ~IsSuffix(SubClosing, buffer) <=> Multiple /\ OpenTags(d) = Sub
    PROVE  OpenTags(d \o Truncation(buffer)) = <<>>
<1> DEFINE rest == <<Text("truncated"), Text("</collection>")>>
<1>0. rest \in Seq(Token)
  <2>1. "truncated" \in Writable /\ "</collection>" \in Writable
    BY DEF Writable
  <2> QED BY <2>1, IsToken
<1>1. CASE Multiple /\ OpenTags(d) = Sub
  <2>1. Truncation(buffer) = SubClosing \o rest
    BY <1>1 DEF Truncation, OnlyIf
  <2>2. SubClosing \in Seq(Token) /\ d \o SubClosing \in Seq(Token)
        /\ OpenTags(d \o SubClosing) = InCollection
    <3>1. SubClosing \in Seq(Token)
      <4>1. "</sub>" \in Writable /\ "</member>" \in Writable
        BY DEF Writable
      <4> QED BY <4>1, IsToken DEF SubClosing
    <3> QED BY <1>1, <3>1, SubFrames
  <2>3. OpenTags((d \o SubClosing) \o rest) = <<>>
    BY <2>2, Truncated
  <2> HIDE DEF rest
  <2>4. d \o (SubClosing \o rest) = (d \o SubClosing) \o rest
    BY SMTT(30), <1>0, <2>2, Associative
  <2> QED BY <2>1, <2>3, <2>4
<1>2. CASE ~(Multiple /\ OpenTags(d) = Sub)
  <2>1. Truncation(buffer) = <<>> \o rest
    BY <1>2 DEF Truncation, OnlyIf
  <2>2. <<>> \o rest = rest
    <3> HIDE DEF rest
    <3> QED BY <1>0, ConcatEmptySeq
  <2>3. OpenTags(d) = InCollection
    BY <1>2
  <2> QED BY <2>1, <2>2, <2>3, Truncated
<1> QED
  BY <1>1, <1>2

(* A note before a later collection, and the tags that are closed after it.*)
LEMMA ReportAfterNote ==
    ASSUME NEW d \in Seq(Token), NEW buffer, format = "gml", Multiple,
           ~IsSuffix(SubClosing, buffer)
    PROVE  BrokenOff((d \o <<Text("note")>>) \o Truncation(buffer))
<1> DEFINE rest == <<Text("truncated"), Text("</collection>")>>
           n == d \o <<Text("note")>>
           t == Truncation(buffer)
<1>1. /\ Text("note") \in Token /\ Text("truncated") \in Token /\ Text("</collection>") \in Token
      /\ Text("</sub>") \in Token /\ Text("</member>") \in Token
  BY IsToken DEF Writable
<1>2. t = SubClosing \o rest
  BY DEF Truncation, OnlyIf
<1>3. SubClosing \in Seq(Token) /\ Len(SubClosing) = 2 /\ SubClosing[1] = Text("</sub>")
  BY <1>1 DEF SubClosing
<1>4. rest \in Seq(Token)
  BY <1>1
<1> HIDE DEF rest, t
<1>5. t \in Seq(Token) /\ Len(t) >= 2 /\ t[1] = Text("</sub>")
  <2>1. t \in Seq(Token) /\ Len(t) = Len(SubClosing) + Len(rest) /\ Len(rest) \in Nat
    BY <1>2, <1>3, <1>4, ConcatProperties, LenProperties
  <2>2. \A i \in 1..Len(SubClosing) : t[i] = SubClosing[i]
    BY <1>2, <1>3, <1>4, TokensOfConcat
  <2> QED BY <1>3, <2>1, <2>2
<1>6. <<Text("note")>> \in Seq(Token) /\ Len(<<Text("note")>>) = 1
      /\ <<Text("note")>>[1] = Text("note")
  BY <1>1
<1>7. n \in Seq(Token) /\ Len(n) \in Nat /\ Len(n) >= 1 /\ n[Len(n)] = Text("note")
  <2> DEFINE note == <<Text("note")>>
  <2> HIDE DEF note
  <2>1. d \o note \in Seq(Token) /\ Len(d \o note) = Len(d) + 1 /\ Len(d) \in Nat
    BY <1>6, ConcatProperties, LenProperties DEF note
  <2>2. (d \o note)[Len(d) + 1] = Text("note")
    <3>1. \A i \in 1..Len(note) : (d \o note)[Len(d) + i] = note[i]
      BY <1>6, TokensOfConcat DEF note
    <3> QED BY <1>6, <3>1 DEF note
  <2> QED BY <2>1, <2>2 DEF note
<1> DEFINE all == n \o t
<1> HIDE DEF n
<1>8. Len(all) = Len(n) + Len(t) /\ Len(t) \in Nat
  BY <1>5, <1>7, ConcatProperties, LenProperties
<1>9. all[Len(n)] = n[Len(n)] /\ all[Len(n) + 1] = t[1]
  <2>1. \A i \in 1..Len(n) : all[i] = n[i]
    BY <1>5, <1>7, TokensOfConcat
  <2>2. \A i \in 1..Len(t) : all[Len(n) + i] = t[i]
    BY <1>5, <1>7, TokensOfConcat
  <2> HIDE DEF all
  <2>3. Len(n) \in 1..Len(n) /\ 1 \in 1..Len(t)
    BY <1>5, <1>7, <1>8
  <2> QED BY <2>1, <2>2, <2>3
<1> HIDE DEF all
<1>10. Len(n) + 1 \in 2..Len(all) /\ (Len(n) + 1) - 1 = Len(n)
  BY <1>5, <1>7, <1>8
<1>11. all[(Len(n) + 1) - 1].kind = "note" /\ all[Len(n) + 1].kind = "</sub>"
  BY <1>5, <1>7, <1>9, <1>10 DEF Text
<1>12. BrokenOff(all)
  BY <1>10, <1>11 DEF BrokenOff
<1> QED
  BY <1>12 DEF all, n, t

(* How a GML document fails, at each of the four places where it may.      *)
LEMMA XmlWhenFailing ==
    ASSUME TypeInv, StatusInv, XmlInv, Failing, format = "gml", status = "ok"
    PROVE  OpenTags(document') = <<>> \/ BrokenOff(document')
<1> USE DEF TypeInv
<1>0. document \in Seq(Token) /\ output \in Seq(Token) /\ at \in Nat /\ at >= 1
  BY PositionIsNumber DEF TypeOK
<1>n. Note \in Seq(Token)
  BY PlainTexts DEF TypeOK, IsPlain
<1>1. CASE FailHeader
  BY <1>1 DEF FailHeader, Running, StatusInv
<1>2. CASE FailCollection
  <2>1. document' = (document \o Note) \o Truncation(output \o Note)
    BY <1>2 DEF FailCollection, Fail
  <2>2. /\ OpenTags(document) = InCollection
        /\ Multiple => IsSuffix(SubClosing, output)
    BY <1>0, <1>2 DEF FailCollection, Running, XmlInv
  <2>3. document \o Note \in Seq(Token) /\ OpenTags(document \o Note) = InCollection
        /\ output \o Note \in Seq(Token)
    BY <1>0, <2>2, NoteOpensNothing
  <2>4. InCollection # Sub
    BY DEF InCollection, Sub
  <2>5. CASE Multiple /\ ~IsSuffix(SubClosing, output \o Note)
    <3>1. Note = <<Text("note")>>
      <4>1. Note # <<>>
        BY <1>0, <2>2, <2>5, ConcatEmptySeq
      <4> QED BY <4>1 DEF Note, OnlyIf
    <3> QED BY <1>0, <2>1, <2>5, <3>1, ReportAfterNote
  <2>6. CASE ~(Multiple /\ ~IsSuffix(SubClosing, output \o Note))
    BY <2>1, <2>3, <2>4, <2>6, ReportAtTopLevel
  <2> QED BY <2>5, <2>6
<1>3. CASE FailRead
  <2>1. document' = (document \o <<>>) \o Truncation(output \o <<>>)
    BY <1>3 DEF FailRead, Fail
  <2>2. document' = document \o Truncation(output)
    BY <1>0, <2>1, EmptyEnd
  <2>3. pc = "read" /\ OpenTags(document) = InSub /\ (Multiple => ~IsSuffix(SubClosing, output))
    BY <1>3 DEF FailRead, Running, XmlInv
  <2>4. InCollection # Sub
    BY DEF InCollection, Sub
  <2> QED BY <1>0, <2>2, <2>3, <2>4, ReportAtTopLevel DEF InSub, Sub
<1>4. CASE FailFeature
  <2> DEFINE told == Truncation(output \o (<<Text("<member>")>> \o <<Text("<feature>")>>))
             begun == <<Text("<member>")>> \o <<Text("<feature>")>>
  <2>1. document' = (document \o begun) \o told
    BY <1>4 DEF FailFeature, Fail, BeforeFeature, OnlyIf
  <2>2. told \in Seq(Token)
    BY TruncationTells DEF TypeOK
  <2>3. "<feature>" \in Kinds(begun) /\ begun \in Seq(Token)
    <3>1. begun = <<Text("<member>"), Text("<feature>")>>
      BY TwoTokens
    <3>2. "<member>" \in Writable /\ "<feature>" \in Writable
      BY DEF Writable
    <3>3. Text("<member>") \in Token /\ Text("<feature>") \in Token
          /\ Text("<feature>").kind = "<feature>"
      BY <3>2, IsToken
    <3> HIDE DEF begun
    <3>4. begun \in Seq(Token) /\ 2 \in DOMAIN begun /\ begun[2].kind = "<feature>"
      BY <3>1, <3>3
    <3> QED BY <3>4 DEF Kinds
  <2> HIDE DEF told, begun
  <2>4. document \o begun \in Seq(Token)
        /\ Kinds(document \o begun) = Kinds(document) \union Kinds(begun)
    BY <1>0, <2>3, KindsOfConcat, ConcatProperties
  <2>5. Kinds(document') = Kinds(document \o begun) \union Kinds(told)
    BY <2>1, <2>2, <2>4, KindsOfConcat
  <2>6. "<feature>" \in Kinds(document')
    BY <2>3, <2>4, <2>5
  <2> QED BY <2>6 DEF Kinds, BrokenOff
<1>5. CASE FailFooter
  BY <1>5 DEF FailFooter
<1> QED
  BY <1>1, <1>2, <1>3, <1>4, <1>5 DEF Failing

LEMMA XmlStep == TypeInv /\ StatusInv /\ XmlInv /\ [Next]_vars => XmlInv'
<1> SUFFICES ASSUME TypeInv, StatusInv, XmlInv, [Next]_vars, format' = "gml" PROVE XmlInv'
  BY DEF XmlInv
<1> USE DEF TypeInv
<1>r. format = "gml" /\ page' = page
  BY DEF Next, Render, Failing, WriteHeader, OpenCollection, ReadFeature, WriteFeature, Flush,
         CloseCollection, EndCollections, WriteFooter, YieldLast, FailHeader, FailCollection,
         FailRead, FailFeature, FailFooter, Fail, HandOver, Send, Leave, vars, request
<1>m. (Multiple' <=> Multiple) /\ InSub' = InSub /\ InSub = IF Multiple THEN Sub ELSE InCollection
  BY <1>r DEF Multiple, InSub, Sub, InCollection
<1>0. /\ at \in Nat /\ at >= 1 /\ at <= Len(page) + 1 /\ read \in Nat /\ Len(page) \in Nat
      /\ document \in Seq(Token) /\ output \in Seq(Token) /\ Len(page) >= 1
  BY PositionIsNumber, PageIsSequence DEF TypeOK
<1>i. /\ pc = "header" => document = <<>>
      /\ pc \in {"collection", "footer"} => OpenTags(document) = InCollection
      /\ pc \in {"read", "write", "flush"} => OpenTags(document) = InSub
      /\ pc \in {"last", "exhausted"} => OpenTags(document) = <<>>
      /\ pc = "collection" /\ at = 1 => status = "none" /\ turn = "renderer"
      /\ pc = "collection" /\ at > 1 /\ Multiple => IsSuffix(SubClosing, output)
      /\ pc = "read" /\ Multiple => ~IsSuffix(SubClosing, output)
      /\ pc = "raised" /\ status = "ok" => OpenTags(document) = <<>> \/ BrokenOff(document)
  BY <1>r DEF XmlInv
<1>1. CASE WriteHeader
  <2>1. document' = document \o <<Text("<collection>")>> /\ at' = at /\ at = 1
        /\ status' = "none" /\ turn' = "renderer" /\ pc' \in {"collection", "footer"}
        /\ document = <<>>
    BY <1>1, <1>r, <1>i DEF WriteHeader, Running, Writes, Header, Positions, StatusInv
  <2>2. OpenTags(document') = InCollection
    <3>1. "<collection>" \in Writable
      BY DEF Writable
    <3> QED BY <1>0, <2>1, <3>1, OneMoreTag, OpenTagsOfNothing, ParseTags
  <2> QED BY <2>1, <2>2 DEF XmlInv
<1>2. CASE OpenCollection
  <2>0. Opening = Note \o OnlyIf(Multiple, SubOpening) /\ Note \in Seq(Token)
    BY <1>r, PlainTexts DEF Opening, TypeOK, IsPlain
  <2>1. document' = document \o Opening /\ output' = output \o Opening /\ pc' = "read"
        /\ pc = "collection"
    BY <1>2 DEF OpenCollection, Writes, Running
  <2>2. /\ document \o Note \in Seq(Token) /\ OpenTags(document \o Note) = InCollection
        /\ output \o Note \in Seq(Token)
    BY <1>0, <1>i, <2>1, NoteOpensNothing
  <2>3. CASE Multiple
    <3>1. Opening = Note \o SubOpening
      BY <2>0, <2>3 DEF OnlyIf
    <3>2. SubOpening \in Seq(Token)
      <4>1. "<sub>" \in Writable /\ "<member>" \in Writable
        BY DEF Writable
      <4> QED BY <4>1, IsToken DEF SubOpening
    <3>3. document' = (document \o Note) \o SubOpening /\ output' = (output \o Note) \o SubOpening
      <4> DEFINE open == SubOpening
                 note == Note
      <4>1. document' = document \o (note \o open) /\ output' = output \o (note \o open)
        BY <2>1, <3>1
      <4>2. note \in Seq(Token) /\ open \in Seq(Token)
        BY <2>0, <3>2
      <4> HIDE DEF open, note
      <4>3. document \o (note \o open) = (document \o note) \o open
        BY <1>0, <4>2, Associative
      <4>4. output \o (note \o open) = (output \o note) \o open
        BY <1>0, <4>2, Associative
      <4> QED BY <4>1, <4>3, <4>4 DEF open, note
    <3>4. OpenTags(document') = Sub /\ ~IsSuffix(SubClosing, output')
      BY <2>2, <3>3, SubFrames
    <3>5. (~IsSuffix(SubClosing, output))'
      BY <3>4 DEF SubClosing
    <3> QED BY <1>m, <2>1, <2>3, <3>4, <3>5 DEF XmlInv
  <2>4. CASE ~Multiple
    <3>1. Opening = Note \o <<>>
      BY <2>0, <2>4 DEF OnlyIf
    <3>2. Opening = Note
      BY <2>0, <3>1, EmptyEnd
    <3>3. OpenTags(document') = InCollection
      BY <2>1, <2>2, <3>2
    <3> QED BY <1>m, <2>1, <2>4, <3>3 DEF XmlInv
  <2> QED BY <2>3, <2>4
<1>3. CASE ReadFeature
  BY <1>3, <1>i, <1>m DEF ReadFeature, Running, XmlInv
<1>4. CASE WriteFeature
  <2> DEFINE whole == <<Text("<member>")>> \o <<Feature(at, read)>> \o <<Text("</member>")>>
  <2>1. BeforeFeature = <<Text("<member>")>> /\ AfterFeature = <<Text("</member>")>>
    BY <1>r DEF BeforeFeature, AfterFeature, OnlyIf
  <2>2. document' = document \o whole /\ output' = output \o whole
        /\ pc' \in {"read", "flush"} /\ pc = "write"
    BY <1>4, <2>1 DEF WriteFeature, Writes, Running
  <2>3. OpenTags(document) = InSub
    BY <1>i, <2>2
  <2>4. OpenTags(document \o whole) = InSub
    BY <1>0, <1>m, <2>3, FeatureFrame
  <2>5. Multiple => ~IsSuffix(SubClosing, output \o whole)
    <3>1. OpenTags(document) = Sub \/ OpenTags(document) = InCollection
      BY <1>m, <2>3
    <3> QED BY <1>0, FeatureEnds
  <2>6. Multiple => (~IsSuffix(SubClosing, output))'
    BY <2>2, <2>5 DEF SubClosing
  <2> QED BY <1>m, <2>2, <2>4, <2>6 DEF XmlInv
<1>5. CASE Flush
  <2>1. output' = <<>> /\ pc' = "read" /\ pc = "flush" /\ document' = document
    BY <1>5 DEF Flush, Running
  <2>2. (~IsSuffix(SubClosing, output))'
    <3>1. <<>> \in Seq(Token) /\ Len(<<>>) = 0
      BY EmptySeq
    <3>2. ~IsSuffix(SubClosing, <<>>)
      <4>1. ~(Len(<<>>) >= 2)
        BY <3>1
      <4> QED BY <3>1, <4>1, SubClosingAtEnd
    <3> QED BY <2>1, <3>2 DEF SubClosing
  <2> QED BY <1>i, <1>m, <2>1, <2>2 DEF XmlInv
<1>6. CASE CloseCollection
  <2>1. document' = document \o Closing /\ output' = output \o Closing /\ pc' = "collection"
        /\ pc = "read" /\ at' = at + 1
    BY <1>6 DEF CloseCollection, Writes, Running
  <2>2. at' # 1
    BY <1>0, <2>1
  <2>3. CASE Multiple
    <3>1. Closing = SubClosing
      BY <1>r, <2>3 DEF Closing, OnlyIf
    <3>2. OpenTags(document') = InCollection /\ IsSuffix(SubClosing, output')
      BY <1>0, <1>i, <1>m, <2>1, <2>3, <3>1, SubFrames
    <3>3. IsSuffix(SubClosing, output)'
      BY <3>2 DEF SubClosing
    <3> QED BY <2>1, <2>2, <3>2, <3>3 DEF XmlInv
  <2>4. CASE ~Multiple
    <3>1. Closing = <<>>
      BY <2>4 DEF Closing, OnlyIf
    <3>2. document' = document
      BY <1>0, <2>1, <3>1, EmptyEnd
    <3> QED BY <1>i, <1>m, <2>1, <2>2, <2>4, <3>2 DEF XmlInv
  <2> QED BY <2>3, <2>4
<1>7. CASE EndCollections
  BY <1>7, <1>i DEF EndCollections, Running, XmlInv
<1>8. CASE WriteFooter
  <2>1. document' = document \o <<Text("</collection>")>> /\ pc' = "last" /\ pc = "footer"
    <3>1. BeforeFooter = <<>> /\ Footer = <<Text("</collection>")>>
      BY <1>r DEF BeforeFooter, Footer, OnlyIf
    <3>2. <<Text("</collection>")>> \in Seq(Token)
      BY IsToken DEF Writable
    <3>3. <<>> \o <<Text("</collection>")>> = <<Text("</collection>")>>
      BY <3>2, ConcatEmptySeq
    <3> QED BY <1>8, <3>1, <3>3 DEF WriteFooter, Writes, Running
  <2>2. "</collection>" \in Writable
    BY DEF Writable
  <2>3. OpenTags(document') = <<>>
    BY <1>0, <1>i, <2>1, <2>2, OneMoreTag, ParseTags
  <2> QED BY <2>1, <2>3 DEF XmlInv
<1>9. CASE YieldLast
  BY <1>9, <1>i DEF YieldLast, Running, XmlInv
<1>b. ASSUME BrokenOff(document') PROVE BrokenOff(document)'
  BY <1>b, <1>m DEF BrokenOff
<1>10. CASE Failing
  <2>1. pc' = "raised" /\ status' = (IF status = "none" THEN status' ELSE status)
        /\ (status = "none" => status' # "ok")
    <3>1. \E kind \in {"filter", "other"} : \E text : Fail(kind, text)
      BY <1>10, FailingIsFail
    <3> QED BY <3>1 DEF Fail, HttpStatus
  <2>2. status' = "ok" => OpenTags(document') = <<>> \/ BrokenOff(document')
    BY <1>10, <1>r, <2>1, XmlWhenFailing
  <2> QED BY <1>b, <2>1, <2>2 DEF XmlInv
<1>u. BrokenOff(document)' <=> BrokenOff(document')
  BY <1>m DEF BrokenOff
<1>s. ASSUME UNCHANGED <<pc, at, document, output>>,
             status' = status \/ pc # "raised",
             pc = "collection" /\ at = 1 => UNCHANGED <<status, turn>>
      PROVE  XmlInv'
  <2>1. IsSuffix(SubClosing, output)' <=> IsSuffix(SubClosing, output)
    BY <1>s DEF SubClosing
  <2>2. BrokenOff(document)' <=> BrokenOff(document)
    BY <1>s, <1>m DEF BrokenOff
  <2> QED BY <1>s, <1>i, <1>m, <2>1, <2>2 DEF XmlInv
<1>11. CASE HandOver
  BY <1>11, <1>s, <1>i DEF HandOver, StatusInv
<1>12. CASE Send
  BY <1>12, <1>s, <1>i DEF Send, StatusInv
<1>13. CASE Leave
  BY <1>13, <1>s, <1>i DEF Leave, StatusInv
<1>14. CASE UNCHANGED vars
  BY <1>14, <1>s DEF vars
<1> QED
  BY <1>1, <1>2, <1>3, <1>4, <1>5, <1>6, <1>7, <1>8, <1>9, <1>10, <1>11, <1>12, <1>13, <1>14
  DEF Next, Render

LEMMA DocumentInit == Init => JsonInv /\ XmlInv
<1> SUFFICES ASSUME Init PROVE JsonInv /\ XmlInv
  OBVIOUS
<1> QED
  BY DEF Init, JsonInv, XmlInv

LEMMA WellFormedWhenEnded ==
    ASSUME TypeInv, NothingIsLostOrRepeated, StatusInv, JsonInv, XmlInv
    PROVE  DocumentIsWellFormed
<1>1. XmlIsWellFormed
  <2> SUFFICES ASSUME format = "gml", Ended, status = "ok", failure # "left",
                      ~FailedInFeature, ~FailedAfterNote
               PROVE  OpenTags(sent) = <<>>
    BY DEF XmlIsWellFormed, WellFormed
  <2>1. sent = document /\ pc \in {"exhausted", "raised"}
    BY CompleteWhenEnded
  <2>2. ~BrokenOff(sent)
    BY DEF FailedInFeature, FailedAfterNote, BrokenOff
  <2> QED BY <2>1, <2>2 DEF XmlInv
<1>2. JsonIsValid
  <2> SUFFICES ASSUME format = "geojson", Ended, status = "ok", failure = "none",
                      ~Multiple \/ \A c \in DOMAIN page : page[c] > 0
               PROVE  IsJson(sent)
    BY DEF JsonIsValid, IsJson
  <2>1. sent = document /\ pc = "exhausted"
    BY CompleteWhenEnded
  <2> QED BY <2>1 DEF JsonInv, NoGaps
<1> QED
  BY <1>1, <1>2 DEF DocumentIsWellFormed

(* Whatever the collections hold and wherever the text is cut, the client  *)
(* has a document of the format it asked for, whole or truncated.          *)
THEOREM DocumentsAreWellFormed == Spec => []DocumentIsWellFormed
<1>1. Init => JsonInv /\ XmlInv
  BY DocumentInit
<1>2. TypeInv /\ FeaturesInv /\ StatusInv /\ JsonInv /\ XmlInv /\ [Next]_vars
      => (JsonInv /\ XmlInv)'
  BY JsonStep, XmlStep
<1>3. TypeInv /\ NothingIsLostOrRepeated /\ StatusInv /\ JsonInv /\ XmlInv => DocumentIsWellFormed
  BY WellFormedWhenEnded
<1> QED
  BY <1>1, <1>2, <1>3, ToldInvariant, TextIsPreserved, TypeInvariant, PTL DEF Spec
=============================================================================
