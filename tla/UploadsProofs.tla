--------------------------- MODULE UploadsProofs ----------------------------
(* Theorems about Uploads, for any users, items and number of handlers.    *)
EXTENDS Uploads, Integers, SequenceTheorems, TLAPS

-----------------------------------------------------------------------------
(* What a handler has left to do.                                          *)

StepsOf(todo) == {todo[k] : k \in DOMAIN todo}

\* What is left of confirmSteps(i), and what a refused upload leaves to do.
confirmTodos(i) ==
    {<<"confirmRow">>}
    \cup (IF i \in Patterns
          THEN {<<"fetchObject", "putThumbnail", "confirmRow">>, <<"putThumbnail", "confirmRow">>}
          ELSE {<<"fetchRaw", "putThumbnail", "deleteRaw", "confirmRow">>,
                <<"putThumbnail", "deleteRaw", "confirmRow">>,
                <<"deleteRaw", "confirmRow">>, <<"deleteRaw">>})
    \cup (IF i \in Models
          THEN {<<"fetchObject", "fetchRaw", "putThumbnail", "deleteRaw", "confirmRow">>}
          ELSE {})
    \cup (IF i \in Parts THEN {<<"deleteObject">>} ELSE {})

\* What is left of deleteSteps(i).
deleteTodos(i) ==
    {<<"deleteThumbnail", "deleteRow">>, <<"deleteRow">>}
    \cup (IF i \in Parts
          THEN {<<"deleteObject", "deleteThumbnail", "deleteRow">>,
                <<"deleteObject", "deleteRow">>}
          ELSE {})

Todos(i) == confirmTodos(i) \cup deleteTodos(i)

\* The order of the steps: what may come first, and what is still to come then.
LEMMA TodoFacts ==
    ASSUME NEW i \in Items, NEW todo \in Todos(i)
    PROVE  /\ todo # <<>> /\ todo \in Seq(Steps) /\ Head(todo) \in StepsOf(todo)
           /\ Tail(todo) = <<>> \/ Tail(todo) \in Todos(i)
           /\ StepsOf(Tail(todo)) = StepsOf(todo) \ {Head(todo)}
           /\ Tail(todo) = <<>> => StepsOf(todo) = {Head(todo)}
           /\ Head(todo) \in {"confirmRow", "deleteRow"} => Tail(todo) = <<>>
           /\ "confirmRow" \in StepsOf(todo) => "deleteRow" \notin StepsOf(todo)
           /\ Head(todo) = "deleteObject" => "confirmRow" \notin StepsOf(todo)
           /\ "deleteThumbnail" \in StepsOf(todo) => "deleteRow" \in StepsOf(todo)
           /\ "putThumbnail" \in StepsOf(todo) \/ "fetchObject" \in StepsOf(todo)
                => "confirmRow" \in StepsOf(todo)
           /\ Head(todo) \in {"fetchObject", "fetchRaw"}
                => "putThumbnail" \in StepsOf(todo)
           /\ Head(todo) \in {"fetchObject", "deleteObject"} => i \in Parts
           /\ Head(todo) \in {"fetchRaw", "deleteRaw"} => i \in Models \cup Looks
<1> DEFINE F(t) ==
      /\ t # <<>> /\ t \in Seq(Steps) /\ Head(t) \in StepsOf(t)
      /\ StepsOf(Tail(t)) = StepsOf(t) \ {Head(t)}
      /\ Tail(t) = <<>> => StepsOf(t) = {Head(t)}
      /\ Head(t) \in {"confirmRow", "deleteRow"} => Tail(t) = <<>>
      /\ "confirmRow" \in StepsOf(t) => "deleteRow" \notin StepsOf(t)
      /\ Head(t) = "deleteObject" => "confirmRow" \notin StepsOf(t)
      /\ "deleteThumbnail" \in StepsOf(t) => "deleteRow" \in StepsOf(t)
      /\ "putThumbnail" \in StepsOf(t) \/ "fetchObject" \in StepsOf(t) => "confirmRow" \in StepsOf(t)
      /\ Head(t) \in {"fetchObject", "fetchRaw"} => "putThumbnail" \in StepsOf(t)
<1>1. /\ F(<<"confirmRow">>) /\ Head(<<"confirmRow">>) = "confirmRow"
      /\ Tail(<<"confirmRow">>) = <<>>
  <2>1. /\ <<"confirmRow">> # <<>> /\ Head(<<"confirmRow">>) = "confirmRow"
        /\ Tail(<<"confirmRow">>) = <<>>
    OBVIOUS
  <2>2. /\ StepsOf(<<"confirmRow">>) = {"confirmRow"}
        /\ StepsOf(<<>>) = {}
    BY DEF StepsOf
  <2>3. <<"confirmRow">> \in Seq(Steps)
    BY DEF Steps
  <2>4. QED
    BY <2>1, <2>2, <2>3
<1>2. /\ F(<<"fetchObject", "putThumbnail", "confirmRow">>) /\ Head(<<"fetchObject", "putThumbnail", "confirmRow">>) = "fetchObject"
      /\ Tail(<<"fetchObject", "putThumbnail", "confirmRow">>) = <<"putThumbnail", "confirmRow">>
  <2>1. /\ <<"fetchObject", "putThumbnail", "confirmRow">> # <<>> /\ Head(<<"fetchObject", "putThumbnail", "confirmRow">>) = "fetchObject"
        /\ Tail(<<"fetchObject", "putThumbnail", "confirmRow">>) = <<"putThumbnail", "confirmRow">>
    OBVIOUS
  <2>2. /\ StepsOf(<<"fetchObject", "putThumbnail", "confirmRow">>) = {"fetchObject", "putThumbnail", "confirmRow"}
        /\ StepsOf(<<"putThumbnail", "confirmRow">>) = {"putThumbnail", "confirmRow"}
    BY DEF StepsOf
  <2>3. <<"fetchObject", "putThumbnail", "confirmRow">> \in Seq(Steps)
    BY DEF Steps
  <2>4. QED
    BY <2>1, <2>2, <2>3
<1>3. /\ F(<<"putThumbnail", "confirmRow">>) /\ Head(<<"putThumbnail", "confirmRow">>) = "putThumbnail"
      /\ Tail(<<"putThumbnail", "confirmRow">>) = <<"confirmRow">>
  <2>1. /\ <<"putThumbnail", "confirmRow">> # <<>> /\ Head(<<"putThumbnail", "confirmRow">>) = "putThumbnail"
        /\ Tail(<<"putThumbnail", "confirmRow">>) = <<"confirmRow">>
    OBVIOUS
  <2>2. /\ StepsOf(<<"putThumbnail", "confirmRow">>) = {"putThumbnail", "confirmRow"}
        /\ StepsOf(<<"confirmRow">>) = {"confirmRow"}
    BY DEF StepsOf
  <2>3. <<"putThumbnail", "confirmRow">> \in Seq(Steps)
    BY DEF Steps
  <2>4. QED
    BY <2>1, <2>2, <2>3
<1>4. /\ F(<<"fetchRaw", "putThumbnail", "deleteRaw", "confirmRow">>) /\ Head(<<"fetchRaw", "putThumbnail", "deleteRaw", "confirmRow">>) = "fetchRaw"
      /\ Tail(<<"fetchRaw", "putThumbnail", "deleteRaw", "confirmRow">>) = <<"putThumbnail", "deleteRaw", "confirmRow">>
  <2>1. /\ <<"fetchRaw", "putThumbnail", "deleteRaw", "confirmRow">> # <<>> /\ Head(<<"fetchRaw", "putThumbnail", "deleteRaw", "confirmRow">>) = "fetchRaw"
        /\ Tail(<<"fetchRaw", "putThumbnail", "deleteRaw", "confirmRow">>) = <<"putThumbnail", "deleteRaw", "confirmRow">>
    OBVIOUS
  <2>2. /\ StepsOf(<<"fetchRaw", "putThumbnail", "deleteRaw", "confirmRow">>) = {"fetchRaw", "putThumbnail", "deleteRaw", "confirmRow"}
        /\ StepsOf(<<"putThumbnail", "deleteRaw", "confirmRow">>) = {"putThumbnail", "deleteRaw", "confirmRow"}
    BY DEF StepsOf
  <2>3. <<"fetchRaw", "putThumbnail", "deleteRaw", "confirmRow">> \in Seq(Steps)
    BY DEF Steps
  <2>4. QED
    BY <2>1, <2>2, <2>3
<1>5. /\ F(<<"putThumbnail", "deleteRaw", "confirmRow">>) /\ Head(<<"putThumbnail", "deleteRaw", "confirmRow">>) = "putThumbnail"
      /\ Tail(<<"putThumbnail", "deleteRaw", "confirmRow">>) = <<"deleteRaw", "confirmRow">>
  <2>1. /\ <<"putThumbnail", "deleteRaw", "confirmRow">> # <<>> /\ Head(<<"putThumbnail", "deleteRaw", "confirmRow">>) = "putThumbnail"
        /\ Tail(<<"putThumbnail", "deleteRaw", "confirmRow">>) = <<"deleteRaw", "confirmRow">>
    OBVIOUS
  <2>2. /\ StepsOf(<<"putThumbnail", "deleteRaw", "confirmRow">>) = {"putThumbnail", "deleteRaw", "confirmRow"}
        /\ StepsOf(<<"deleteRaw", "confirmRow">>) = {"deleteRaw", "confirmRow"}
    BY DEF StepsOf
  <2>3. <<"putThumbnail", "deleteRaw", "confirmRow">> \in Seq(Steps)
    BY DEF Steps
  <2>4. QED
    BY <2>1, <2>2, <2>3
<1>6. /\ F(<<"deleteRaw", "confirmRow">>) /\ Head(<<"deleteRaw", "confirmRow">>) = "deleteRaw"
      /\ Tail(<<"deleteRaw", "confirmRow">>) = <<"confirmRow">>
  <2>1. /\ <<"deleteRaw", "confirmRow">> # <<>> /\ Head(<<"deleteRaw", "confirmRow">>) = "deleteRaw"
        /\ Tail(<<"deleteRaw", "confirmRow">>) = <<"confirmRow">>
    OBVIOUS
  <2>2. /\ StepsOf(<<"deleteRaw", "confirmRow">>) = {"deleteRaw", "confirmRow"}
        /\ StepsOf(<<"confirmRow">>) = {"confirmRow"}
    BY DEF StepsOf
  <2>3. <<"deleteRaw", "confirmRow">> \in Seq(Steps)
    BY DEF Steps
  <2>4. QED
    BY <2>1, <2>2, <2>3
<1>7. /\ F(<<"deleteRaw">>) /\ Head(<<"deleteRaw">>) = "deleteRaw"
      /\ Tail(<<"deleteRaw">>) = <<>>
  <2>1. /\ <<"deleteRaw">> # <<>> /\ Head(<<"deleteRaw">>) = "deleteRaw"
        /\ Tail(<<"deleteRaw">>) = <<>>
    OBVIOUS
  <2>2. /\ StepsOf(<<"deleteRaw">>) = {"deleteRaw"}
        /\ StepsOf(<<>>) = {}
    BY DEF StepsOf
  <2>3. <<"deleteRaw">> \in Seq(Steps)
    BY DEF Steps
  <2>4. QED
    BY <2>1, <2>2, <2>3
<1>8. /\ F(<<"fetchObject", "fetchRaw", "putThumbnail", "deleteRaw", "confirmRow">>) /\ Head(<<"fetchObject", "fetchRaw", "putThumbnail", "deleteRaw", "confirmRow">>) = "fetchObject"
      /\ Tail(<<"fetchObject", "fetchRaw", "putThumbnail", "deleteRaw", "confirmRow">>) = <<"fetchRaw", "putThumbnail", "deleteRaw", "confirmRow">>
  <2>1. /\ <<"fetchObject", "fetchRaw", "putThumbnail", "deleteRaw", "confirmRow">> # <<>> /\ Head(<<"fetchObject", "fetchRaw", "putThumbnail", "deleteRaw", "confirmRow">>) = "fetchObject"
        /\ Tail(<<"fetchObject", "fetchRaw", "putThumbnail", "deleteRaw", "confirmRow">>) = <<"fetchRaw", "putThumbnail", "deleteRaw", "confirmRow">>
    OBVIOUS
  <2>2. /\ StepsOf(<<"fetchObject", "fetchRaw", "putThumbnail", "deleteRaw", "confirmRow">>) = {"fetchObject", "fetchRaw", "putThumbnail", "deleteRaw", "confirmRow"}
        /\ StepsOf(<<"fetchRaw", "putThumbnail", "deleteRaw", "confirmRow">>) = {"fetchRaw", "putThumbnail", "deleteRaw", "confirmRow"}
    BY DEF StepsOf
  <2>3. <<"fetchObject", "fetchRaw", "putThumbnail", "deleteRaw", "confirmRow">> \in Seq(Steps)
    BY DEF Steps
  <2>4. QED
    BY <2>1, <2>2, <2>3
<1>9. /\ F(<<"deleteObject">>) /\ Head(<<"deleteObject">>) = "deleteObject"
      /\ Tail(<<"deleteObject">>) = <<>>
  <2>1. /\ <<"deleteObject">> # <<>> /\ Head(<<"deleteObject">>) = "deleteObject"
        /\ Tail(<<"deleteObject">>) = <<>>
    OBVIOUS
  <2>2. /\ StepsOf(<<"deleteObject">>) = {"deleteObject"}
        /\ StepsOf(<<>>) = {}
    BY DEF StepsOf
  <2>3. <<"deleteObject">> \in Seq(Steps)
    BY DEF Steps
  <2>4. QED
    BY <2>1, <2>2, <2>3
<1>10. /\ F(<<"deleteThumbnail", "deleteRow">>) /\ Head(<<"deleteThumbnail", "deleteRow">>) = "deleteThumbnail"
      /\ Tail(<<"deleteThumbnail", "deleteRow">>) = <<"deleteRow">>
  <2>1. /\ <<"deleteThumbnail", "deleteRow">> # <<>> /\ Head(<<"deleteThumbnail", "deleteRow">>) = "deleteThumbnail"
        /\ Tail(<<"deleteThumbnail", "deleteRow">>) = <<"deleteRow">>
    OBVIOUS
  <2>2. /\ StepsOf(<<"deleteThumbnail", "deleteRow">>) = {"deleteThumbnail", "deleteRow"}
        /\ StepsOf(<<"deleteRow">>) = {"deleteRow"}
    BY DEF StepsOf
  <2>3. <<"deleteThumbnail", "deleteRow">> \in Seq(Steps)
    BY DEF Steps
  <2>4. QED
    BY <2>1, <2>2, <2>3
<1>11. /\ F(<<"deleteRow">>) /\ Head(<<"deleteRow">>) = "deleteRow"
      /\ Tail(<<"deleteRow">>) = <<>>
  <2>1. /\ <<"deleteRow">> # <<>> /\ Head(<<"deleteRow">>) = "deleteRow"
        /\ Tail(<<"deleteRow">>) = <<>>
    OBVIOUS
  <2>2. /\ StepsOf(<<"deleteRow">>) = {"deleteRow"}
        /\ StepsOf(<<>>) = {}
    BY DEF StepsOf
  <2>3. <<"deleteRow">> \in Seq(Steps)
    BY DEF Steps
  <2>4. QED
    BY <2>1, <2>2, <2>3
<1>12. /\ F(<<"deleteObject", "deleteThumbnail", "deleteRow">>) /\ Head(<<"deleteObject", "deleteThumbnail", "deleteRow">>) = "deleteObject"
      /\ Tail(<<"deleteObject", "deleteThumbnail", "deleteRow">>) = <<"deleteThumbnail", "deleteRow">>
  <2>1. /\ <<"deleteObject", "deleteThumbnail", "deleteRow">> # <<>> /\ Head(<<"deleteObject", "deleteThumbnail", "deleteRow">>) = "deleteObject"
        /\ Tail(<<"deleteObject", "deleteThumbnail", "deleteRow">>) = <<"deleteThumbnail", "deleteRow">>
    OBVIOUS
  <2>2. /\ StepsOf(<<"deleteObject", "deleteThumbnail", "deleteRow">>) = {"deleteObject", "deleteThumbnail", "deleteRow"}
        /\ StepsOf(<<"deleteThumbnail", "deleteRow">>) = {"deleteThumbnail", "deleteRow"}
    BY DEF StepsOf
  <2>3. <<"deleteObject", "deleteThumbnail", "deleteRow">> \in Seq(Steps)
    BY DEF Steps
  <2>4. QED
    BY <2>1, <2>2, <2>3
<1>13. /\ F(<<"deleteObject", "deleteRow">>) /\ Head(<<"deleteObject", "deleteRow">>) = "deleteObject"
      /\ Tail(<<"deleteObject", "deleteRow">>) = <<"deleteRow">>
  <2>1. /\ <<"deleteObject", "deleteRow">> # <<>> /\ Head(<<"deleteObject", "deleteRow">>) = "deleteObject"
        /\ Tail(<<"deleteObject", "deleteRow">>) = <<"deleteRow">>
    OBVIOUS
  <2>2. /\ StepsOf(<<"deleteObject", "deleteRow">>) = {"deleteObject", "deleteRow"}
        /\ StepsOf(<<"deleteRow">>) = {"deleteRow"}
    BY DEF StepsOf
  <2>3. <<"deleteObject", "deleteRow">> \in Seq(Steps)
    BY DEF Steps
  <2>4. QED
    BY <2>1, <2>2, <2>3
<1> HIDE DEF F
<1>14. F(todo)
  <2>1. CASE todo \in deleteTodos(i)
    BY <1>10, <1>11, <1>12, <1>13, <2>1 DEF deleteTodos
  <2>2. CASE todo \in confirmTodos(i)
    BY <1>1, <1>2, <1>3, <1>4, <1>5, <1>6, <1>7, <1>8, <1>9, <2>2 DEF confirmTodos
  <2>3. QED
    BY <2>1, <2>2 DEF Todos
<1>15. i \in Models \cup Looks => i \notin Patterns
  BY UploadsAssumption DEF Parts
<1>16. /\ Tail(todo) = <<>> \/ Tail(todo) \in Todos(i)
       /\ Head(todo) \in {"fetchObject", "deleteObject"} => i \in Parts
       /\ Head(todo) \in {"fetchRaw", "deleteRaw"} => i \in Models \cup Looks
  <2>1. CASE todo \in deleteTodos(i)
    BY <1>10, <1>11, <1>12, <1>13, <2>1 DEF Todos, deleteTodos
  <2>2. CASE todo \in confirmTodos(i)
    BY <1>1, <1>2, <1>3, <1>4, <1>5, <1>6, <1>7, <1>8, <1>9, <1>15, <2>2
       DEF Todos, confirmTodos, Items, Parts
  <2>3. QED
    BY <2>1, <2>2 DEF Todos
<1>17. QED
  BY <1>14, <1>16 DEF F

LEMMA Kinds ==
    ASSUME NEW i \in Items
    PROVE  \/ i \in Patterns /\ i \in Parts /\ i \notin Models /\ i \notin Looks
           \/ i \in Models /\ i \in Parts /\ i \notin Patterns /\ i \notin Looks
           \/ i \in Looks /\ i \notin Parts /\ i \notin Patterns /\ i \notin Models
BY UploadsAssumption DEF Items, Parts

\* How confirm and confirmPreview begin.
LEMMA ConfirmTodos ==
    ASSUME NEW i \in Items
    PROVE  /\ confirmSteps(i) \in Todos(i)
           /\ "putThumbnail" \in StepsOf(confirmSteps(i))
           /\ i \in Parts => "fetchObject" \in StepsOf(confirmSteps(i))
           /\ "deleteRow" \notin StepsOf(confirmSteps(i))
<1>1. CASE i \in Patterns
  <2>1. confirmSteps(i) = <<"fetchObject", "putThumbnail", "confirmRow">>
    BY <1>1, Kinds DEF confirmSteps
  <2>2. StepsOf(confirmSteps(i)) = {"fetchObject", "putThumbnail", "confirmRow"}
    BY <2>1 DEF StepsOf
  <2>3. confirmSteps(i) \in Todos(i)
    BY <1>1, <2>1 DEF Todos, confirmTodos
  <2>4. QED
    BY <2>2, <2>3
<1>2. CASE i \in Models
  <2>0. i \notin Patterns
    BY <1>2, Kinds
  <2>1. confirmSteps(i) = <<"fetchObject", "fetchRaw", "putThumbnail", "deleteRaw", "confirmRow">>
    BY <1>2, <2>0 DEF confirmSteps
  <2>2. StepsOf(confirmSteps(i))
          = {"fetchObject", "fetchRaw", "putThumbnail", "deleteRaw", "confirmRow"}
    BY <2>1 DEF StepsOf
  <2>3. confirmSteps(i) \in Todos(i)
    BY <1>2, <2>1 DEF Todos, confirmTodos
  <2>4. QED
    BY <2>2, <2>3
<1>3. CASE i \in Looks
  <2>0. i \notin Patterns /\ i \notin Models /\ i \notin Parts
    BY <1>3, Kinds
  <2>1. confirmSteps(i) = <<"fetchRaw", "putThumbnail", "deleteRaw", "confirmRow">>
    BY <2>0 DEF confirmSteps
  <2>2. StepsOf(confirmSteps(i)) = {"fetchRaw", "putThumbnail", "deleteRaw", "confirmRow"}
    BY <2>1 DEF StepsOf
  <2>3. confirmSteps(i) \in Todos(i)
    BY <2>0, <2>1 DEF Todos, confirmTodos
  <2>4. QED
    BY <2>0, <2>2, <2>3
<1>4. QED
  BY <1>1, <1>2, <1>3, Kinds

LEMMA TwoJoined ==
    ASSUME NEW a, NEW b
    PROVE  <<a>> \o <<b>> = <<a, b>>
<1> DEFINE S == {a, b}
           s == <<a>> \o <<b>>
<1>1. /\ <<a>> \in Seq(S) /\ <<b>> \in Seq(S) /\ <<a, b>> \in Seq(S)
      /\ Len(<<a>>) = 1 /\ Len(<<b>>) = 1 /\ Len(<<a, b>>) = 2
  OBVIOUS
<1>2. s \in Seq(S) /\ Len(s) = 2 /\ s[1] = a /\ s[2] = b
  <2> HIDE DEF S
  <2> QED
    BY <1>1
<1> HIDE DEF S, s
<1>3. \A k \in 1..Len(s) : s[k] = <<a, b>>[k]
  BY <1>2
<1>4. s = <<a, b>>
  BY <1>1, <1>2, <1>3, SeqEqual
<1>5. QED
  BY <1>4 DEF s

LEMMA ThreeJoined ==
    ASSUME NEW a, NEW b, NEW c
    PROVE  <<a, b>> \o <<c>> = <<a, b, c>>
<1> DEFINE S == {a, b, c}
           s == <<a, b>> \o <<c>>
<1>1. /\ <<a, b>> \in Seq(S) /\ <<c>> \in Seq(S) /\ <<a, b, c>> \in Seq(S)
      /\ Len(<<a, b>>) = 2 /\ Len(<<c>>) = 1 /\ Len(<<a, b, c>>) = 3
  OBVIOUS
<1>2. s \in Seq(S) /\ Len(s) = 3 /\ s[1] = a /\ s[2] = b /\ s[3] = c
  <2> HIDE DEF S
  <2> QED
    BY <1>1
<1> HIDE DEF S, s
<1>3. \A k \in 1..Len(s) : s[k] = <<a, b, c>>[k]
  BY <1>2
<1>4. s = <<a, b, c>>
  BY <1>1, <1>2, <1>3, SeqEqual
<1>5. QED
  BY <1>4 DEF s

LEMMA NothingJoined ==
    /\ <<>> \o <<>> = <<>>
    /\ \A a : <<a>> \o <<>> = <<a>> /\ <<>> \o <<a>> = <<a>>
<1>1. <<>> \in Seq({1})
  OBVIOUS
<1>2. ASSUME NEW a PROVE <<a>> \in Seq({a})
  OBVIOUS
<1>3. QED
  BY <1>1, <1>2, ConcatEmptySeq

LEMMA DeleteTodos ==
    ASSUME NEW i \in Items
    PROVE  /\ deleteSteps(i) \in Todos(i)
           /\ "deleteRow" \in StepsOf(deleteSteps(i))
           /\ row[i].confirmed => "deleteThumbnail" \in StepsOf(deleteSteps(i))
<1> DEFINE O == IF i \in Parts THEN <<"deleteObject">> ELSE <<>>
           T == IF row[i].confirmed THEN <<"deleteThumbnail">> ELSE <<>>
<1>1. deleteSteps(i) = O \o T \o <<"deleteRow">>
  BY DEF deleteSteps
<1>2. /\ <<"deleteObject">> \o <<"deleteThumbnail">> \o <<"deleteRow">>
           = <<"deleteObject", "deleteThumbnail", "deleteRow">>
      /\ <<"deleteObject">> \o <<>> \o <<"deleteRow">> = <<"deleteObject", "deleteRow">>
      /\ <<>> \o <<"deleteThumbnail">> \o <<"deleteRow">> = <<"deleteThumbnail", "deleteRow">>
      /\ <<>> \o <<>> \o <<"deleteRow">> = <<"deleteRow">>
  <2>1. <<"deleteObject">> \o <<"deleteThumbnail">> = <<"deleteObject", "deleteThumbnail">>
    BY TwoJoined, Zenon
  <2>2. <<"deleteObject", "deleteThumbnail">> \o <<"deleteRow">>
          = <<"deleteObject", "deleteThumbnail", "deleteRow">>
    BY ThreeJoined, Zenon
  <2>3. <<"deleteObject">> \o <<"deleteRow">> = <<"deleteObject", "deleteRow">>
    BY TwoJoined, Zenon
  <2>4. <<"deleteThumbnail">> \o <<"deleteRow">> = <<"deleteThumbnail", "deleteRow">>
    BY TwoJoined, Zenon
  <2>5. <<"deleteObject">> \o <<>> = <<"deleteObject">>
    BY NothingJoined, Zenon
  <2>6. /\ <<>> \o <<"deleteThumbnail">> = <<"deleteThumbnail">>
        /\ <<>> \o <<"deleteRow">> = <<"deleteRow">> /\ <<>> \o <<>> = <<>>
    BY NothingJoined, Zenon
  <2>7. QED
    BY <2>1, <2>2, <2>3, <2>4, <2>5, <2>6, Zenon
<1>3. /\ StepsOf(<<"deleteObject", "deleteThumbnail", "deleteRow">>)
           = {"deleteObject", "deleteThumbnail", "deleteRow"}
      /\ StepsOf(<<"deleteObject", "deleteRow">>) = {"deleteObject", "deleteRow"}
      /\ StepsOf(<<"deleteThumbnail", "deleteRow">>) = {"deleteThumbnail", "deleteRow"}
      /\ StepsOf(<<"deleteRow">>) = {"deleteRow"}
  BY DEF StepsOf
<1>4. \/ i \in Parts /\ deleteSteps(i) = <<"deleteObject", "deleteThumbnail", "deleteRow">>
      \/ i \in Parts /\ ~row[i].confirmed /\ deleteSteps(i) = <<"deleteObject", "deleteRow">>
      \/ deleteSteps(i) = <<"deleteThumbnail", "deleteRow">>
      \/ ~row[i].confirmed /\ deleteSteps(i) = <<"deleteRow">>
  BY <1>1, <1>2
<1>5. deleteSteps(i) \in Todos(i)
  BY <1>4 DEF Todos, deleteTodos
<1>6. QED
  BY <1>3, <1>4, <1>5

-----------------------------------------------------------------------------
(* Types.                                                                  *)

OfItem(h, i) == Running(h, "item") /\ req[h].id = i

Removing(h) == req[h].op \in {"findModelKeys", "removeAssets"}

\* The steps that h, at work on an item, has left.
StepsLeft(h) == StepsOf(req[h].todo)

TodosFit == \A h \in Handlers : Running(h, "item") => req[h].todo \in Todos(req[h].id)

Typed == TypeOK /\ TodosFit

LEMMA KeysDiffer ==
    /\ \A i \in Parts : ObjectKey(i) \in Keys
    /\ \A u \in Users, i \in Models \cup Looks : RawKey(u, i) \in Keys
    /\ \A i \in Items : ThumbnailKey(i) \in Keys
    /\ \A i, j : /\ ObjectKey(i) # ThumbnailKey(j)
                 /\ ObjectKey(i) = ObjectKey(j) => i = j
                 /\ ThumbnailKey(i) = ThumbnailKey(j) => i = j
    /\ \A u, i, j : RawKey(u, i) # ThumbnailKey(j) /\ RawKey(u, i) # ObjectKey(j)
BY DEF Keys, ObjectKey, RawKey, ThumbnailKey

LEMMA RequestFields ==
    ASSUME NEW r \in Request
    PROVE  /\ r = Idle \/ r.op \in {"item", "findModelKeys", "removeAssets"}
           /\ r.op = "item" => r.id \in Items /\ r.sub \in Users
           /\ r.op \in {"findModelKeys", "removeAssets"} => r.sub \in Users /\ r.keys \subseteq Keys
           /\ r.op = "idle" <=> r = Idle
<1> DEFINE Q == Seq(Steps)
<1>1. Request = {Idle}
                \cup [op : {"item"}, id : Items, sub : Users, todo : Q]
                \cup [op : {"findModelKeys", "removeAssets"}, sub : Users, keys : SUBSET Keys]
  BY DEF Request
<1> HIDE DEF Q
<1>2. QED
  BY <1>1 DEF Idle

\* The records that handlers take on.
LEMMA NewRequests ==
    /\ Idle \in Request
    /\ \A u \in Users, i \in Items : \A todo \in Todos(i) :
         [op |-> "item", id |-> i, sub |-> u, todo |-> todo] \in Request
    /\ \A u \in Users, keys \in SUBSET Keys :
         /\ [op |-> "findModelKeys", sub |-> u, keys |-> keys] \in Request
         /\ [op |-> "removeAssets", sub |-> u, keys |-> keys] \in Request
    /\ \A r \in Request : r.op = "item" =>
         /\ \A todo \in Todos(r.id) :
              /\ [r EXCEPT !.todo = todo] \in Request
              /\ [r EXCEPT !.todo = todo].todo = todo
              /\ [r EXCEPT !.todo = todo].id = r.id
              /\ [r EXCEPT !.todo = todo].sub = r.sub
              /\ [r EXCEPT !.todo = todo].op = "item"
    /\ \A r \in Request : r.op \in {"findModelKeys", "removeAssets"} =>
         \A key : /\ [r EXCEPT !.keys = @ \ {key}] \in Request
                  /\ [r EXCEPT !.keys = @ \ {key}].keys = r.keys \ {key}
                  /\ [r EXCEPT !.keys = @ \ {key}].sub = r.sub
                  /\ [r EXCEPT !.keys = @ \ {key}].op = r.op
<1> DEFINE Q == Seq(Steps)
<1>1. Request = {Idle}
                \cup [op : {"item"}, id : Items, sub : Users, todo : Q]
                \cup [op : {"findModelKeys", "removeAssets"}, sub : Users, keys : SUBSET Keys]
  BY DEF Request
<1>2. \A i \in Items : \A todo \in Todos(i) : todo \in Q
  BY TodoFacts
<1> HIDE DEF Q
<1>3. ASSUME NEW r \in Request, r.op = "item", NEW todo \in Todos(r.id)
      PROVE  /\ [r EXCEPT !.todo = todo] \in Request
             /\ [r EXCEPT !.todo = todo].todo = todo
             /\ [r EXCEPT !.todo = todo].id = r.id
             /\ [r EXCEPT !.todo = todo].sub = r.sub
             /\ [r EXCEPT !.todo = todo].op = "item"
  <2>1. r \in [op : {"item"}, id : Items, sub : Users, todo : Q]
    BY <1>1, <1>3 DEF Idle
  <2>2. todo \in Q
    BY <1>2, <1>3, <2>1
  <2>3. QED
    BY <1>1, <2>1, <2>2
<1>4. ASSUME NEW r \in Request, r.op \in {"findModelKeys", "removeAssets"}, NEW key
      PROVE  /\ [r EXCEPT !.keys = @ \ {key}] \in Request
             /\ [r EXCEPT !.keys = @ \ {key}].keys = r.keys \ {key}
             /\ [r EXCEPT !.keys = @ \ {key}].sub = r.sub
             /\ [r EXCEPT !.keys = @ \ {key}].op = r.op
  <2>1. r \in [op : {"findModelKeys", "removeAssets"}, sub : Users, keys : SUBSET Keys]
    BY <1>1, <1>4 DEF Idle
  <2>2. r.keys \ {key} \in SUBSET Keys
    BY <2>1
  <2>3. QED
    BY <1>1, <2>1, <2>2
<1>5. \A u \in Users, i \in Items : \A todo \in Todos(i) :
        [op |-> "item", id |-> i, sub |-> u, todo |-> todo] \in Request
  BY <1>1, <1>2
<1>6. Idle \in Request /\ \A u \in Users, keys \in SUBSET Keys :
        /\ [op |-> "findModelKeys", sub |-> u, keys |-> keys] \in Request
        /\ [op |-> "removeAssets", sub |-> u, keys |-> keys] \in Request
  BY <1>1
<1>7. QED
  BY <1>3, <1>4, <1>5, <1>6

LEMMA RowFields ==
    ASSUME Typed, NEW i \in Items
    PROVE  /\ row[i] = NoRow \/ row[i].row \in {"live", "gone"}
           /\ Live(i) => row[i] # NoRow
           /\ row[i] # NoRow => row[i].ownerId \in Users
           /\ Live(i) => row[i] \in [row : {"live"}, ownerId : Users, confirmed : BOOLEAN,
                                     uses : SUBSET Models]
<1>1. row[i] \in {NoRow}
                 \cup [row : {"live"}, ownerId : Users, confirmed : BOOLEAN,
                       uses : SUBSET Models]
                 \cup [row : {"gone"}, ownerId : Users]
  BY DEF Typed, TypeOK, Row
<1>2. CASE row[i] = NoRow
  BY <1>2 DEF NoRow, Live
<1>3. CASE row[i] \in [row : {"live"}, ownerId : Users, confirmed : BOOLEAN, uses : SUBSET Models]
  BY <1>3 DEF NoRow, Live
<1>4. CASE row[i] \in [row : {"gone"}, ownerId : Users]
  BY <1>4 DEF NoRow, Live
<1>5. QED
  BY <1>1, <1>2, <1>3, <1>4

\* A handler that takes on a record leaves the others as they are.
LEMMA TakesOn ==
    ASSUME Typed, NEW h \in Handlers, NEW r \in Request,
           r.op = "item" => r.todo \in Todos(r.id),
           req' = [req EXCEPT ![h] = r]
    PROVE  /\ req' \in [Handlers -> Request] /\ TodosFit'
           /\ req'[h] = r
           /\ \A g \in Handlers : g # h => req'[g] = req[g]
<1>1. req \in [Handlers -> Request]
  BY DEF Typed, TypeOK
<1>2. /\ req' \in [Handlers -> Request]
      /\ \A g \in Handlers : req'[g] = IF g = h THEN r ELSE req[g]
  BY <1>1
<1>3. QED
  BY <1>2 DEF Typed, TodosFit, Running

LEMMA IdleOp == Idle.op = "idle"
BY DEF Idle

\* What a handler at work on an item becomes when it goes on with todo.
LEMMA ContinuingEffect ==
    ASSUME Typed, NEW h \in Handlers, NEW i \in Items, OfItem(h, i),
           NEW todo, todo = <<>> \/ todo \in Todos(i), Continuing(h, todo)
    PROVE  /\ req' \in [Handlers -> Request] /\ TodosFit' /\ cut' = cut
           /\ \A g \in Handlers : g # h => req'[g] = req[g]
           /\ \/ req'[h] = Idle /\ todo = <<>>
              \/ /\ OfItem(h, i)' /\ req'[h].sub = req[h].sub
                 /\ req'[h].todo = todo
<1>1. req[h] \in Request /\ req[h].op = "item" /\ req[h].id = i
  BY DEF Typed, TypeOK, OfItem, Running
<1>2. CASE todo = <<>>
  <2>1. req' = [req EXCEPT ![h] = Idle] /\ cut' = cut
    BY <1>2 DEF Continuing, Proceed
  <2>2. QED
    BY <1>2, <2>1, TakesOn, NewRequests, IdleOp
<1>3. CASE todo # <<>>
  <2> DEFINE r == [req[h] EXCEPT !.todo = todo]
  <2>1. req' = [req EXCEPT ![h] = r] /\ cut' = cut
    BY <1>3 DEF Continuing, Proceed
  <2>2. /\ r \in Request /\ r.op = "item" /\ r.id = i /\ r.todo = todo /\ r.sub = req[h].sub
        /\ todo \in Todos(i)
    BY <1>1, <1>3, NewRequests
  <2> HIDE DEF r
  <2>3. QED
    BY <2>1, <2>2, TakesOn DEF OfItem, Running
<1>4. QED
  BY <1>2, <1>3

LEMMA TodoOfItem ==
    ASSUME Typed, NEW h \in Handlers, NEW i \in Items, OfItem(h, i)
    PROVE  req[h].todo \in Todos(i) /\ req[h].sub \in Users
BY RequestFields DEF Typed, TypeOK, TodosFit, OfItem, Running

LEMMA AtItem ==
    ASSUME Typed, NEW h \in Handlers, NEW step, At(h, step)
    PROVE  /\ req[h].id \in Items /\ OfItem(h, req[h].id)
           /\ req[h].todo \in Todos(req[h].id) /\ Head(req[h].todo) = step
           /\ req[h].sub \in Users
BY RequestFields DEF Typed, TypeOK, TodosFit, OfItem, Running, At

\* A handler that has done the first of its steps has the others left.
LEMMA DoneEffect ==
    ASSUME Typed, NEW h \in Handlers, NEW i \in Items, OfItem(h, i), Done(h)
    PROVE  /\ req' \in [Handlers -> Request] /\ TodosFit' /\ cut' = cut
           /\ \A g \in Handlers : g # h => req'[g] = req[g]
           /\ \/ req'[h] = Idle /\ StepsLeft(h) = {Head(req[h].todo)}
              \/ /\ OfItem(h, i)' /\ req'[h].sub = req[h].sub
                 /\ StepsLeft(h)' = StepsLeft(h) \ {Head(req[h].todo)}
<1> DEFINE todo == Tail(req[h].todo)
<1>1. req[h].todo \in Todos(i)
  BY TodoOfItem
<1>2. /\ todo = <<>> \/ todo \in Todos(i)
      /\ StepsOf(todo) = StepsLeft(h) \ {Head(req[h].todo)}
      /\ todo = <<>> => StepsLeft(h) = {Head(req[h].todo)}
  BY <1>1, TodoFacts DEF StepsLeft
<1>3. Continuing(h, todo)
  BY DEF Done
<1> HIDE DEF todo
<1>4. QED
  BY <1>2, <1>3, ContinuingEffect DEF StepsLeft

LEMMA ReturnEffect ==
    ASSUME Typed, NEW h \in Handlers, Return(h)
    PROVE  /\ req' \in [Handlers -> Request] /\ TodosFit' /\ cut' = cut
           /\ \A g \in Handlers : g # h => req'[g] = req[g]
           /\ req'[h] = Idle
BY TakesOn, NewRequests, IdleOp DEF Return, Proceed

\* A refused upload leaves at most its object to delete.
LEMMA RefusedTodos ==
    /\ \A i \in Parts : <<"deleteObject">> \in Todos(i)
    /\ \A i \in Models \cup Looks : <<"deleteRaw">> \in Todos(i)
    /\ StepsOf(<<"deleteObject">>) = {"deleteObject"}
    /\ StepsOf(<<"deleteRaw">>) = {"deleteRaw"}
<1>1. ASSUME NEW i \in Models \cup Looks PROVE i \notin Patterns
  BY UploadsAssumption DEF Parts
<1>2. QED
  BY <1>1 DEF Todos, confirmTodos, StepsOf

\* A look at the store: go on, or be refused.
LEMMA FetchEffect ==
    ASSUME Typed, NEW h \in Handlers, NEW i \in Items, OfItem(h, i),
           fetchObject(h) \/ fetchRaw(h)
    PROVE  /\ req' \in [Handlers -> Request] /\ TodosFit' /\ cut' = cut
           /\ \A g \in Handlers : g # h => req'[g] = req[g]
           /\ Head(req[h].todo) \in {"fetchObject", "fetchRaw"}
           /\ \/ Done(h) /\ (fetchObject(h) => store[ObjectKey(i)] = "typed")
              \/ req'[h] = Idle
              \/ OfItem(h, i)' /\ StepsLeft(h)' \subseteq {"deleteObject", "deleteRaw"}
<1>1. /\ i = req[h].id /\ req[h].todo \in Todos(i)
      /\ fetchObject(h) => Head(req[h].todo) = "fetchObject"
      /\ fetchRaw(h) => Head(req[h].todo) = "fetchRaw"
  BY TodoOfItem DEF fetchObject, fetchRaw, At, OfItem
<1>2. /\ fetchObject(h) => i \in Parts
      /\ fetchRaw(h) => i \in Models \cup Looks
  BY <1>1, TodoFacts
<1>3. PICK last \in {"deleteObject", "deleteRaw"} :
        /\ <<last>> \in Todos(i)
        /\ StepsOf(<<last>>) = {last}
        /\ \/ Done(h) /\ (fetchObject(h) => store[ObjectKey(i)] = "typed")
           \/ Continuing(h, <<last>>)
           \/ Return(h)
  <2>1. CASE fetchObject(h)
    BY <1>1, <1>2, <2>1, RefusedTodos DEF fetchObject, Fetched
  <2>2. CASE fetchRaw(h) /\ ~fetchObject(h)
    BY <1>1, <1>2, <2>2, RefusedTodos DEF fetchRaw, Fetched
  <2>3. QED
    BY <2>1, <2>2
<1>4. CASE Done(h) /\ (fetchObject(h) => store[ObjectKey(i)] = "typed")
  BY <1>1, <1>4, DoneEffect
<1>5. CASE Continuing(h, <<last>>)
  <2>1. /\ req' \in [Handlers -> Request] /\ TodosFit' /\ cut' = cut
        /\ \A g \in Handlers : g # h => req'[g] = req[g]
        /\ req'[h] = Idle \/ (OfItem(h, i)' /\ req'[h].todo = <<last>>)
    BY <1>1, <1>3, <1>5, ContinuingEffect
  <2>2. QED
    BY <1>1, <1>3, <2>1 DEF StepsLeft
<1>6. CASE Return(h)
  BY <1>1, <1>6, ReturnEffect
<1>7. QED
  BY <1>3, <1>4, <1>5, <1>6

LEMMA InHandItems ==
    ASSUME Typed, NEW h \in Handlers
    PROVE  InHand(h) \subseteq Items
BY RequestFields DEF Typed, TypeOK, InHand, OwnedBy

LEMMA GoneType ==
    ASSUME Typed, NEW S \in SUBSET Items, \A i \in S : Live(i)
    PROVE  Gone(S) \in [Items -> Row]
BY RowFields DEF Gone, Typed, TypeOK, Row

LEMMA AssetKeysType ==
    ASSUME Typed, NEW u, NEW S \in SUBSET Parts
    PROVE  AssetKeys(u, S) \subseteq Keys
BY KeysDiffer DEF AssetKeys, OwnedBy, Items

LEMMA PutType ==
    ASSUME Typed, NEW key \in Keys, NEW content \in Content, Put(key, content)
    PROVE  store' \in [Keys -> Content]
BY DEF Typed, TypeOK, Put

\* The clients' steps, and what they never change.
LEMMA ClientType ==
    ASSUME Typed, Client, raced' = raced \cup Contended'
    PROVE  Typed' /\ req' = req /\ cut' = cut
<1>0. raced' \subseteq Items
  BY DEF Typed, TypeOK, Contended
<1>1. ASSUME NEW u \in Users, NEW i \in Items, Create(u, i)
      PROVE  Typed' /\ req' = req /\ cut' = cut
  <2>1. row' \in [Items -> Row]
    <3>1. PICK uses \in Choices(i) : row' = [row EXCEPT ![i] = NewRow(u, uses)]
      BY <1>1 DEF Create
    <3>2. NewRow(u, uses) \in Row
      BY <3>1 DEF Choices, NewRow, Row
    <3>3. QED
      BY <3>1, <3>2 DEF Typed, TypeOK
  <2>2. urls' \subseteq Keys
    BY <1>1, KeysDiffer DEF Create, Typed, TypeOK
  <2>3. QED
    BY <1>0, <1>1, <2>1, <2>2 DEF Create, Typed, TypeOK, TodosFit, Running
<1>2. ASSUME NEW u \in Users, NEW l \in Looks, requestPreviewUpload(u, l)
      PROVE  Typed' /\ req' = req /\ cut' = cut
  <2>1. urls' \subseteq Keys
    BY <1>2, KeysDiffer DEF requestPreviewUpload, Typed, TypeOK
  <2>2. QED
    BY <1>0, <1>2, <2>1 DEF requestPreviewUpload, Typed, TypeOK, TodosFit, Running
<1>3. ASSUME NEW key \in Keys, NEW content \in Upload, ClientPut(key, content)
      PROVE  Typed' /\ req' = req /\ cut' = cut
  <2>1. store' \in [Keys -> Content]
    BY <1>3, PutType DEF ClientPut, Content
  <2>2. QED
    BY <1>0, <1>3, <2>1 DEF ClientPut, Typed, TypeOK, TodosFit, Running
<1>4. ASSUME NEW u \in Users, NEW l \in Looks, UpdateLook(u, l)
      PROVE  Typed' /\ req' = req /\ cut' = cut
  <2>1. PICK uses \in Choices(l) : Live(l) /\ row' = [row EXCEPT ![l].uses = uses]
    BY <1>4 DEF UpdateLook, OwnedBy
  <2>2. [row[l] EXCEPT !.uses = uses] \in Row
    <3>1. row[l] \in [row : {"live"}, ownerId : Users, confirmed : BOOLEAN,
                      uses : SUBSET Models]
      BY <2>1, RowFields DEF Items
    <3>2. [row[l] EXCEPT !.uses = uses] \in [row : {"live"}, ownerId : Users,
                                             confirmed : BOOLEAN, uses : SUBSET Models]
      BY <2>1, <3>1 DEF Choices
    <3>3. QED
      BY <3>2 DEF Row
  <2>3. row' \in [Items -> Row]
    BY <2>1, <2>2 DEF Typed, TypeOK
  <2>4. QED
    BY <1>0, <1>4, <2>3 DEF UpdateLook, Typed, TypeOK, TodosFit, Running
<1>5. QED
  BY <1>1, <1>2, <1>3, <1>4 DEF Client

\* The handlers' steps; each changes its own record only.
LEMMA ServerType ==
    ASSUME Typed, NEW h \in Handlers, Server(h), raced' = raced \cup Contended'
    PROVE  Typed' /\ \A g \in Handlers : g # h => req'[g] = req[g]
<1> DEFINE Kept == \A g \in Handlers : g # h => req'[g] = req[g]
<1>0. raced' \subseteq Items /\ cut \subseteq Items
  BY DEF Typed, TypeOK, Contended
<1>1. ASSUME NEW u \in Users, NEW i \in Items, ReadConfirm(h, u, i) \/ ReadDelete(h, u, i)
      PROVE  Typed' /\ Kept
  <2>1. \E todo \in Todos(i) :
          req' = [req EXCEPT ![h] = [op |-> "item", id |-> i, sub |-> u, todo |-> todo]]
    BY <1>1, ConfirmTodos, DeleteTodos DEF ReadConfirm, ReadDelete, Start, Proceed
  <2>2. req' \in [Handlers -> Request] /\ TodosFit' /\ Kept
    <3>1. PICK todo \in Todos(i) :
            req' = [req EXCEPT ![h] = [op |-> "item", id |-> i, sub |-> u, todo |-> todo]]
      BY <2>1
    <3> DEFINE r == [op |-> "item", id |-> i, sub |-> u, todo |-> todo]
    <3>2. r \in Request /\ r.id = i /\ r.todo = todo
      BY NewRequests
    <3> HIDE DEF r
    <3>3. req' = [req EXCEPT ![h] = r]
      BY <3>1 DEF r
    <3>4. QED
      BY <3>2, <3>3, TakesOn
  <2>3. QED
    BY <1>0, <1>1, <2>2 DEF ReadConfirm, ReadDelete, Start, Proceed, Typed, TypeOK
<1>2. ASSUME NEW u \in Users, ReadRemoveUser(h, u)
      PROVE  Typed' /\ Kept
  <2>1. AssetKeys(u, Patterns) \in SUBSET Keys
    BY AssetKeysType DEF Parts
  <2>2. req' = [req EXCEPT ![h] = [op |-> "findModelKeys", sub |-> u,
                                   keys |-> AssetKeys(u, Patterns)]]
    BY <1>2 DEF ReadRemoveUser, Start, Proceed
  <2>3. req' \in [Handlers -> Request] /\ TodosFit' /\ Kept
    BY <2>1, <2>2, TakesOn, NewRequests
  <2>4. QED
    BY <1>0, <1>2, <2>3 DEF ReadRemoveUser, Start, Proceed, Typed, TypeOK
<1>3. CASE fetchObject(h) \/ fetchRaw(h)
  <2>1. req[h].id \in Items /\ OfItem(h, req[h].id)
    BY <1>3, AtItem DEF fetchObject, fetchRaw
  <2>2. req' \in [Handlers -> Request] /\ TodosFit' /\ Kept /\ cut' = cut
    BY <1>3, <2>1, FetchEffect
  <2>3. UNCHANGED <<row, accounts, store, urls, refused>>
    BY <1>3 DEF fetchObject, fetchRaw, Fetched
  <2>4. QED
    BY <1>0, <2>2, <2>3 DEF Typed, TypeOK
<1>4. CASE putThumbnail(h)
  <2>1. req[h].id \in Items /\ OfItem(h, req[h].id) /\ Done(h)
    BY <1>4, AtItem DEF putThumbnail
  <2>2. req' \in [Handlers -> Request] /\ TodosFit' /\ Kept /\ cut' = cut
    BY <2>1, DoneEffect
  <2>3. store' \in [Keys -> Content]
    BY <1>4, <2>1, PutType, KeysDiffer DEF putThumbnail, Content, Upload
  <2>4. QED
    BY <1>0, <1>4, <2>2, <2>3 DEF putThumbnail, Typed, TypeOK
<1>5. CASE deleteObject(h)
  <2>1. req[h].id \in Items /\ OfItem(h, req[h].id) /\ Done(h) /\ req[h].sub \in Users
        /\ req[h].todo \in Todos(req[h].id)
    BY <1>5, AtItem DEF deleteObject
  <2>2. req' \in [Handlers -> Request] /\ TodosFit' /\ Kept /\ cut' = cut
    BY <2>1, DoneEffect
  <2>3. \E key \in Keys : Put(key, "none")
    <3>1. CASE At(h, "deleteObject") /\ Put(ObjectKey(req[h].id), "none")
      <4>1. req[h].id \in Parts
        BY <2>1, <3>1, TodoFacts DEF At
      <4>2. QED
        BY <3>1, <4>1, KeysDiffer
    <3>2. CASE At(h, "deleteRaw") /\ Put(RawKey(req[h].sub, req[h].id), "none")
      <4>1. req[h].id \in Models \cup Looks
        BY <2>1, <3>2, TodoFacts DEF At
      <4>2. QED
        BY <2>1, <3>2, <4>1, KeysDiffer
    <3>3. CASE At(h, "deleteThumbnail") /\ Put(ThumbnailKey(req[h].id), "none")
      BY <2>1, <3>3, KeysDiffer
    <3>4. QED
      BY <1>5, <3>1, <3>2, <3>3 DEF deleteObject
  <2>4. store' \in [Keys -> Content]
    BY <2>3, PutType DEF Content
  <2>5. QED
    BY <1>0, <1>5, <2>2, <2>4 DEF deleteObject, Typed, TypeOK
<1>6. CASE confirmRow(h)
  <2>1. req[h].id \in Items /\ OfItem(h, req[h].id) /\ (Done(h) \/ Return(h))
    BY <1>6, AtItem DEF confirmRow
  <2>2. req' \in [Handlers -> Request] /\ TodosFit' /\ Kept /\ cut' = cut
    BY <2>1, DoneEffect, ReturnEffect
  <2>3. row' \in [Items -> Row]
    <3>1. Live(req[h].id) => [row[req[h].id] EXCEPT !.confirmed = TRUE] \in Row
      <4>1. \A n \in [row : {"live"}, ownerId : Users, confirmed : BOOLEAN, uses : SUBSET Models] :
              [n EXCEPT !.confirmed = TRUE] \in Row
        BY DEF Row
      <4>2. QED
        BY <2>1, <4>1, RowFields
    <3>2. QED
      BY <1>6, <2>1, <3>1 DEF confirmRow, Typed, TypeOK
  <2>4. QED
    BY <1>0, <1>6, <2>2, <2>3 DEF confirmRow, Typed, TypeOK
<1>7. CASE deleteRow(h)
  <2>1. req[h].id \in Items /\ OfItem(h, req[h].id) /\ Done(h)
    BY <1>7, AtItem DEF deleteRow
  <2>2. req' \in [Handlers -> Request] /\ TodosFit' /\ Kept /\ cut' = cut
    BY <2>1, DoneEffect
  <2>3. row' \in [Items -> Row]
    BY <1>7, <2>1, GoneType DEF deleteRow, Typed, TypeOK
  <2>4. refused' \subseteq Items
    BY <1>7, <2>1 DEF deleteRow, Typed, TypeOK
  <2>5. QED
    BY <1>0, <1>7, <2>2, <2>3, <2>4 DEF deleteRow, Typed, TypeOK
<1>8. CASE findModelKeys(h)
  <2>1. req[h] \in Request /\ req[h].sub \in Users /\ req[h].keys \subseteq Keys
    BY <1>8, RequestFields DEF findModelKeys, Running, Typed, TypeOK
  <2>2. req[h].keys \cup AssetKeys(req[h].sub, Models) \in SUBSET Keys
    BY <2>1, AssetKeysType DEF Parts
  <2>3. req' \in [Handlers -> Request] /\ TodosFit' /\ Kept
    BY <1>8, <2>1, <2>2, TakesOn, NewRequests DEF findModelKeys, Proceed
  <2>4. QED
    BY <1>0, <1>8, <2>3 DEF findModelKeys, Proceed, Typed, TypeOK
<1>9. CASE removeAsset(h)
  <2>1. req[h] \in Request /\ req[h].op = "removeAssets" /\ req[h].keys \subseteq Keys
    BY <1>9, RequestFields DEF removeAsset, Running, Typed, TypeOK
  <2>2. PICK key \in req[h].keys :
          Put(key, "none") /\ Proceed(h, [req[h] EXCEPT !.keys = @ \ {key}])
    BY <1>9 DEF removeAsset
  <2>3. req' \in [Handlers -> Request] /\ TodosFit' /\ Kept
    BY <2>1, <2>2, TakesOn, NewRequests DEF Proceed
  <2>4. store' \in [Keys -> Content]
    BY <2>1, <2>2, PutType DEF Content
  <2>5. QED
    BY <1>0, <1>9, <2>2, <2>3, <2>4 DEF removeAsset, Proceed, Typed, TypeOK
<1>10. CASE RemoveUser(h)
  <2>1. req' \in [Handlers -> Request] /\ TodosFit' /\ Kept /\ cut' = cut
    BY <1>10, ReturnEffect DEF RemoveUser
  <2>2. accounts' \subseteq Users
    BY <1>10 DEF RemoveUser, Typed, TypeOK
  <2>3. row' \in [Items -> Row]
    <3>1. Gone(OwnedBy(req[h].sub, Items)) \in [Items -> Row]
      BY GoneType DEF OwnedBy
    <3>2. QED
      BY <1>10, <3>1 DEF RemoveUser, Typed, TypeOK
  <2>4. refused' \subseteq Items
    BY <1>10 DEF RemoveUser, Typed, TypeOK, OwnedBy, Items
  <2>5. QED
    BY <1>0, <1>10, <2>1, <2>2, <2>3, <2>4 DEF RemoveUser, Typed, TypeOK
<1>11. CASE Fail(h)
  <2>1. req' \in [Handlers -> Request] /\ TodosFit' /\ Kept
    BY <1>11, TakesOn, NewRequests, IdleOp DEF Fail
  <2>2. cut' \subseteq Items
    BY <1>0, <1>11, InHandItems DEF Fail
  <2>3. QED
    BY <1>0, <1>11, <2>1, <2>2 DEF Fail, Typed, TypeOK
<1>12. QED
  BY <1>1, <1>2, <1>3, <1>4, <1>5, <1>6, <1>7, <1>8, <1>9, <1>10, <1>11 DEF Server

LEMMA TypedStep == Typed /\ [Next]_vars => Typed'
<1>1. ASSUME Typed, UNCHANGED vars PROVE Typed'
  BY <1>1 DEF vars, Typed, TypeOK, TodosFit, Running
<1>2. QED
  BY <1>1, ClientType, ServerType DEF Next

LEMMA InitTyped == Init => Typed
<1> SUFFICES ASSUME Init PROVE Typed
  OBVIOUS
<1>1. NoRow \in Row /\ "none" \in Content /\ Idle \in Request
  BY NewRequests DEF Row, Content
<1>2. row \in [Items -> Row] /\ store \in [Keys -> Content] /\ req \in [Handlers -> Request]
  BY <1>1 DEF Init
<1>3. TodosFit
  BY IdleOp DEF Init, TodosFit, Running
<1>4. QED
  BY <1>2, <1>3 DEF Init, Typed, TypeOK

LEMMA AlwaysTyped == Spec => []Typed
BY InitTyped, TypedStep, PTL DEF Spec

\* Rows, objects, URLs and requests keep their types, whatever clients put and
\* however handlers race or die: no handler signs, fetches or deletes a key that its
\* kind of item does not have, and what it has left to do is a rest of its steps.
THEOREM TypeCorrect == Spec => []TypeOK
BY AlwaysTyped, PTL DEF Typed

-----------------------------------------------------------------------------
(* Who writes what.                                                        *)

\* Only its own steps change a handler's record.
LEMMA OwnSteps ==
    ASSUME Typed, [Next]_vars, NEW h \in Handlers, req'[h] # req[h]
    PROVE  Server(h)
BY ClientType, ServerType DEF Next, vars

LEMMA GoneRows ==
    ASSUME Typed, NEW S \in SUBSET Items, NEW i \in Items, row' = Gone(S)
    PROVE  row'[i] = IF i \in S THEN [row |-> "gone", ownerId |-> row[i].ownerId] ELSE row[i]
BY DEF Gone

LEMMA RowWriters ==
    ASSUME Typed, [Next]_vars, NEW i \in Items, row'[i] # row[i]
    PROVE  \/ /\ row[i] = NoRow
              /\ \E u \in accounts \cap Users, uses \in SUBSET Models :
                   row'[i] = NewRow(u, uses)
              /\ UNCHANGED <<accounts, store, req, cut>>
           \/ /\ Live(i) /\ i \in Looks
              /\ \E uses \in SUBSET Models : row'[i] = [row[i] EXCEPT !.uses = uses]
              /\ UNCHANGED <<accounts, store, req, cut>>
           \/ \E h \in Handlers :
                /\ Live(i)
                /\ \/ /\ confirmRow(h) /\ OfItem(h, i)
                      /\ row'[i] = [row[i] EXCEPT !.confirmed = TRUE]
                   \/ /\ deleteRow(h) /\ OfItem(h, i)
                      /\ row'[i] = [row |-> "gone", ownerId |-> row[i].ownerId]
                   \/ /\ RemoveUser(h) /\ row[i].ownerId = req[h].sub
                      /\ req[h].sub \notin accounts'
                      /\ row'[i] = [row |-> "gone", ownerId |-> row[i].ownerId]
<1>1. row' # row /\ row \in [Items -> Row]
  BY DEF Typed, TypeOK
<1>2. ASSUME NEW u \in Users, NEW j \in Items, Create(u, j)
      PROVE  /\ row[i] = NoRow
             /\ \E v \in accounts \cap Users, uses \in SUBSET Models :
                  row'[i] = NewRow(v, uses)
             /\ UNCHANGED <<accounts, store, req, cut>>
  BY <1>1, <1>2 DEF Create, Choices
<1>2a. ASSUME NEW u \in Users, NEW l \in Looks, UpdateLook(u, l)
       PROVE  /\ Live(i) /\ i \in Looks
              /\ \E uses \in SUBSET Models : row'[i] = [row[i] EXCEPT !.uses = uses]
              /\ UNCHANGED <<accounts, store, req, cut>>
  BY <1>1, <1>2a DEF UpdateLook, Choices, OwnedBy
<1>3. ASSUME NEW h \in Handlers, confirmRow(h)
      PROVE  Live(i) /\ OfItem(h, i) /\ row'[i] = [row[i] EXCEPT !.confirmed = TRUE]
  <2>1. /\ req[h].id \in Items /\ OfItem(h, req[h].id) /\ Live(req[h].id)
        /\ row' = [row EXCEPT ![req[h].id].confirmed = TRUE]
    BY <1>1, <1>3, AtItem DEF confirmRow
  <2>2. QED
    BY <1>1, <2>1
<1>4. ASSUME NEW h \in Handlers, deleteRow(h)
      PROVE  Live(i) /\ OfItem(h, i) /\ row'[i] = [row |-> "gone", ownerId |-> row[i].ownerId]
  <2>1. /\ req[h].id \in Items /\ OfItem(h, req[h].id) /\ Live(req[h].id)
        /\ row' = Gone({req[h].id})
    BY <1>1, <1>4, AtItem DEF deleteRow
  <2>2. row'[i] = IF i \in {req[h].id} THEN [row |-> "gone", ownerId |-> row[i].ownerId]
                                       ELSE row[i]
    BY <2>1, GoneRows
  <2>3. QED
    BY <2>1, <2>2
<1>5. ASSUME NEW h \in Handlers, RemoveUser(h)
      PROVE  /\ Live(i) /\ row[i].ownerId = req[h].sub /\ req[h].sub \notin accounts'
             /\ row'[i] = [row |-> "gone", ownerId |-> row[i].ownerId]
  <2>1. /\ row' = Gone(OwnedBy(req[h].sub, Items))
        /\ accounts' = accounts \ {req[h].sub}
    BY <1>1, <1>5 DEF RemoveUser
  <2>2. row'[i] = IF i \in OwnedBy(req[h].sub, Items)
                  THEN [row |-> "gone", ownerId |-> row[i].ownerId] ELSE row[i]
    BY <2>1, GoneRows DEF OwnedBy
  <2>3. QED
    BY <2>1, <2>2 DEF OwnedBy
<1>6. ASSUME NEW h \in Handlers, Server(h)
      PROVE  confirmRow(h) \/ deleteRow(h) \/ RemoveUser(h)
  BY <1>1, <1>6
     DEF Server, ReadConfirm, ReadDelete, ReadRemoveUser, fetchObject, fetchRaw, Fetched,
         putThumbnail, deleteObject, findModelKeys, removeAsset, Fail
<1>7. ASSUME Client
      PROVE  \/ \E u \in Users, j \in Items : Create(u, j)
             \/ \E u \in Users, l \in Looks : UpdateLook(u, l)
  BY <1>1, <1>7 DEF Client, requestPreviewUpload, ClientPut
<1>8. ASSUME Client
      PROVE  /\ \/ /\ row[i] = NoRow
                   /\ \E v \in accounts \cap Users, uses \in SUBSET Models :
                        row'[i] = NewRow(v, uses)
                \/ /\ Live(i) /\ i \in Looks
                   /\ \E uses \in SUBSET Models : row'[i] = [row[i] EXCEPT !.uses = uses]
             /\ UNCHANGED <<accounts, store, req, cut>>
  BY <1>2, <1>2a, <1>7, <1>8
<1>9. ASSUME NEW h \in Handlers, Server(h)
      PROVE  /\ Live(i)
             /\ \/ /\ confirmRow(h) /\ OfItem(h, i)
                   /\ row'[i] = [row[i] EXCEPT !.confirmed = TRUE]
                \/ /\ deleteRow(h) /\ OfItem(h, i)
                   /\ row'[i] = [row |-> "gone", ownerId |-> row[i].ownerId]
                \/ /\ RemoveUser(h) /\ row[i].ownerId = req[h].sub
                   /\ req[h].sub \notin accounts'
                   /\ row'[i] = [row |-> "gone", ownerId |-> row[i].ownerId]
  BY <1>3, <1>4, <1>5, <1>6, <1>9
<1>10. QED
  BY <1>1, <1>8, <1>9 DEF Next, vars

\* Owners stay, what is gone stays gone, and what is confirmed is while it lives.
LEMMA RowStays ==
    ASSUME Typed, [Next]_vars, NEW i \in Items, row[i] # NoRow
    PROVE  /\ row'[i] # NoRow
           /\ row'[i].ownerId = row[i].ownerId
           /\ Live(i)' => Live(i)
           /\ Live(i)' /\ row[i].confirmed => row'[i].confirmed
<1>1. CASE row'[i] = row[i]
  BY <1>1 DEF Live
<1>2. CASE row'[i] = [row |-> "gone", ownerId |-> row[i].ownerId]
  BY <1>2 DEF Live, NoRow
<1>3. CASE Live(i) /\ row'[i] = [row[i] EXCEPT !.confirmed = TRUE]
  <2>1. row[i] \in [row : {"live"}, ownerId : Users, confirmed : BOOLEAN, uses : SUBSET Models]
    BY <1>3, RowFields
  <2>2. QED
    BY <1>3, <2>1 DEF Live, NoRow
<1>4. ASSUME Live(i), NEW uses, row'[i] = [row[i] EXCEPT !.uses = uses]
      PROVE  /\ row'[i] # NoRow
             /\ row'[i].ownerId = row[i].ownerId
             /\ Live(i)' => Live(i)
             /\ Live(i)' /\ row[i].confirmed => row'[i].confirmed
  <2>1. row[i] \in [row : {"live"}, ownerId : Users, confirmed : BOOLEAN,
                    uses : SUBSET Models]
    BY <1>4, RowFields
  <2>2. QED
    BY <1>4, <2>1 DEF Live, NoRow
<1>5. QED
  BY <1>1, <1>2, <1>3, <1>4, RowWriters

LEMMA RowIsNew ==
    ASSUME Typed, [Next]_vars, NEW i \in Items, row[i] = NoRow, row'[i] # NoRow
    PROVE  /\ Live(i)' /\ ~row'[i].confirmed /\ row'[i].ownerId \in accounts'
           /\ UNCHANGED <<store, req, cut>>
<1>1. ~Live(i)
  BY DEF Live, NoRow
<1>2. PICK u \in accounts, uses \in SUBSET Models : row'[i] = NewRow(u, uses)
  BY <1>1, RowWriters
<1>3. UNCHANGED <<accounts, store, req, cut>>
  BY <1>1, RowWriters
<1>4. row'[i].row = "live" /\ row'[i].confirmed = FALSE /\ row'[i].ownerId = u
  BY <1>2 DEF NewRow
<1>5. QED
  BY <1>3, <1>4 DEF Live

\* Clients are never given a URL for a thumbnail.
ThumbnailsAreTheServers == \A i \in Items : ThumbnailKey(i) \notin urls

\* Whatever key changes, the client or one of four steps has written it.
LEMMA StoreWriters ==
    ASSUME Typed, [Next]_vars, NEW key \in Keys, store'[key] # store[key]
    PROVE  \/ key \in urls /\ store'[key] \in Upload
           \/ \E h \in Handlers :
                \/ putThumbnail(h) /\ key = ThumbnailKey(req[h].id) /\ store'[key] = "typed"
                \/ /\ deleteObject(h) /\ store'[key] = "none"
                   /\ \/ At(h, "deleteObject") /\ key = ObjectKey(req[h].id)
                      \/ At(h, "deleteRaw") /\ key = RawKey(req[h].sub, req[h].id)
                      \/ At(h, "deleteThumbnail") /\ key = ThumbnailKey(req[h].id)
                \/ /\ removeAsset(h) /\ store'[key] = "none" /\ key \in req[h].keys
                   /\ req' = [req EXCEPT ![h] = [req[h] EXCEPT !.keys = @ \ {key}]]
<1>1. store' # store /\ store \in [Keys -> Content]
  BY DEF Typed, TypeOK
<1>2. ASSUME NEW k, NEW content, Put(k, content) PROVE key = k /\ store'[key] = content
  BY <1>1, <1>2 DEF Put
<1>3. ASSUME Client PROVE key \in urls /\ store'[key] \in Upload
  <2>1. PICK k \in Keys, content \in Upload : ClientPut(k, content)
    BY <1>1, <1>3 DEF Client, Create, UpdateLook, requestPreviewUpload
  <2>2. QED
    BY <1>2, <2>1 DEF ClientPut
<1>4. ASSUME NEW h \in Handlers, Server(h)
      PROVE  putThumbnail(h) \/ deleteObject(h) \/ removeAsset(h)
  BY <1>1, <1>4
     DEF Server, ReadConfirm, ReadDelete, ReadRemoveUser, fetchObject, fetchRaw, Fetched,
         confirmRow, deleteRow, findModelKeys, RemoveUser, Fail
<1>5. ASSUME NEW h \in Handlers, putThumbnail(h)
      PROVE  key = ThumbnailKey(req[h].id) /\ store'[key] = "typed"
  BY <1>2, <1>5 DEF putThumbnail
<1>6. ASSUME NEW h \in Handlers, deleteObject(h)
      PROVE  /\ store'[key] = "none"
             /\ \/ At(h, "deleteObject") /\ key = ObjectKey(req[h].id)
                \/ At(h, "deleteRaw") /\ key = RawKey(req[h].sub, req[h].id)
                \/ At(h, "deleteThumbnail") /\ key = ThumbnailKey(req[h].id)
  BY <1>2, <1>6 DEF deleteObject
<1>7. ASSUME NEW h \in Handlers, removeAsset(h)
      PROVE  /\ store'[key] = "none" /\ key \in req[h].keys
             /\ req' = [req EXCEPT ![h] = [req[h] EXCEPT !.keys = @ \ {key}]]
  <2>1. PICK k \in req[h].keys :
          Put(k, "none") /\ Proceed(h, [req[h] EXCEPT !.keys = @ \ {k}])
    BY <1>7 DEF removeAsset
  <2>2. key = k /\ store'[key] = "none"
    BY <1>2, <2>1
  <2>3. QED
    BY <2>1, <2>2 DEF Proceed
<1>8. QED
  BY <1>1, <1>3, <1>4, <1>5, <1>6, <1>7 DEF Next, vars

LEMMA ThumbnailWriters ==
    ASSUME Typed, ThumbnailsAreTheServers, [Next]_vars, NEW i \in Items,
           store'[ThumbnailKey(i)] # store[ThumbnailKey(i)]
    PROVE  \E h \in Handlers :
             \/ putThumbnail(h) /\ OfItem(h, i) /\ store'[ThumbnailKey(i)] = "typed"
             \/ /\ deleteObject(h) /\ OfItem(h, i) /\ At(h, "deleteThumbnail")
                /\ store'[ThumbnailKey(i)] = "none"
             \/ /\ removeAsset(h) /\ store'[ThumbnailKey(i)] = "none"
                /\ ThumbnailKey(i) \in req[h].keys
                /\ req' = [req EXCEPT ![h] = [req[h] EXCEPT !.keys = @ \ {ThumbnailKey(i)}]]
<1>1. ThumbnailKey(i) \in Keys /\ ThumbnailKey(i) \notin urls
  BY KeysDiffer DEF ThumbnailsAreTheServers
<1>2. \A h \in Handlers : /\ putThumbnail(h) => OfItem(h, req[h].id)
                          /\ At(h, "deleteThumbnail") => OfItem(h, req[h].id)
  BY AtItem DEF putThumbnail
<1>3. \A j : ThumbnailKey(i) = ThumbnailKey(j) => i = j
  BY KeysDiffer
<1>4. /\ \A j : ThumbnailKey(i) # ObjectKey(j)
      /\ \A u, j : ThumbnailKey(i) # RawKey(u, j)
  BY KeysDiffer
<1>5. QED
  BY <1>1, <1>2, <1>3, <1>4, StoreWriters

LEMMA ObjectLosers ==
    ASSUME Typed, [Next]_vars, NEW i \in Parts,
           store[ObjectKey(i)] # "none", store'[ObjectKey(i)] = "none"
    PROVE  \E h \in Handlers :
             \/ deleteObject(h) /\ OfItem(h, i) /\ At(h, "deleteObject")
             \/ removeAsset(h) /\ ObjectKey(i) \in req[h].keys
<1>1. ObjectKey(i) \in Keys /\ store'[ObjectKey(i)] \notin Upload
  BY KeysDiffer DEF Upload
<1>2. \A h \in Handlers : At(h, "deleteObject") => OfItem(h, req[h].id)
  BY AtItem
<1>3. \A j : ObjectKey(i) = ObjectKey(j) => i = j
  BY KeysDiffer
<1>4. /\ \A j : ThumbnailKey(j) # ObjectKey(i)
      /\ \A u, j : ObjectKey(i) # RawKey(u, j)
  BY KeysDiffer
<1>5. QED
  BY <1>1, <1>2, <1>3, <1>4, StoreWriters

\* The next step of a handler at work on an item.
LEMMA ItemSteps ==
    ASSUME Typed, NEW h \in Handlers, NEW i \in Items, OfItem(h, i), Server(h)
    PROVE  \/ Done(h) /\ (At(h, "fetchObject") => store[ObjectKey(i)] = "typed" /\ UNCHANGED store)
           \/ /\ req'[h] = Idle /\ cut' = cut /\ UNCHANGED <<row, store>>
              /\ \/ "putThumbnail" \in StepsLeft(h)
                 \/ At(h, "confirmRow") /\ ~Live(i)
           \/ /\ OfItem(h, i)' /\ StepsLeft(h)' \subseteq {"deleteObject", "deleteRaw"}
              /\ "confirmRow" \in StepsLeft(h) /\ "putThumbnail" \in StepsLeft(h)
              /\ UNCHANGED <<row, store, cut>>
           \/ Fail(h)
<1>1. /\ req[h].op = "item" /\ req[h].id = i /\ req[h] # Idle
      /\ req[h].todo \in Todos(i)
  BY TodoOfItem, IdleOp DEF OfItem, Running
<1>2. CASE fetchObject(h) \/ fetchRaw(h)
  <2>1. /\ \/ Done(h) /\ (fetchObject(h) => store[ObjectKey(i)] = "typed")
           \/ req'[h] = Idle
           \/ OfItem(h, i)' /\ StepsLeft(h)' \subseteq {"deleteObject", "deleteRaw"}
        /\ cut' = cut /\ Head(req[h].todo) \in {"fetchObject", "fetchRaw"}
    BY <1>2, FetchEffect
  <2>2. /\ "putThumbnail" \in StepsLeft(h)
        /\ "confirmRow" \in StepsLeft(h)
    BY <1>1, <2>1, TodoFacts DEF StepsLeft
  <2>3. UNCHANGED <<row, store>>
    BY <1>2 DEF fetchObject, fetchRaw, Fetched
  <2>4. At(h, "fetchObject") => fetchObject(h)
    BY <1>2 DEF fetchObject, fetchRaw, At
  <2>5. QED
    BY <2>1, <2>2, <2>3, <2>4
<1>3. CASE putThumbnail(h) \/ deleteObject(h) \/ deleteRow(h)
  BY <1>3 DEF putThumbnail, deleteObject, deleteRow, At
<1>4. CASE confirmRow(h)
  <2>1. CASE Live(i)
    BY <1>1, <1>4, <2>1 DEF confirmRow, At
  <2>2. CASE ~Live(i)
    <3>1. Return(h) /\ UNCHANGED <<row, store>> /\ At(h, "confirmRow")
      BY <1>1, <1>4, <2>2 DEF confirmRow
    <3>2. QED
      BY <2>2, <3>1, ReturnEffect
  <2>3. QED
    BY <2>1, <2>2
<1>5. QED
  BY <1>1, <1>2, <1>3, <1>4
     DEF Server, ReadConfirm, ReadDelete, ReadRemoveUser, Start, findModelKeys, removeAsset,
         RemoveUser, Running

\* The next step of a handler that removes an account.
LEMMA RemovalSteps ==
    ASSUME Typed, NEW h \in Handlers, Removing(h), Server(h)
    PROVE  \/ /\ Running(h, "findModelKeys")
              /\ req'[h] = [op |-> "removeAssets", sub |-> req[h].sub,
                            keys |-> req[h].keys \cup AssetKeys(req[h].sub, Models)]
              /\ UNCHANGED <<row, accounts, store, cut>>
           \/ /\ Running(h, "removeAssets")
              /\ \E key \in req[h].keys : /\ req'[h] = [req[h] EXCEPT !.keys = @ \ {key}]
                                          /\ store' = [store EXCEPT ![key] = "none"]
              /\ UNCHANGED <<row, accounts, cut>>
           \/ RemoveUser(h) /\ req'[h] = Idle
           \/ Fail(h) /\ req'[h] = Idle
<1>1. req \in [Handlers -> Request] /\ req[h] # Idle /\ req[h].op # "item"
  BY IdleOp DEF Typed, TypeOK, Removing
<1>2. CASE findModelKeys(h)
  BY <1>1, <1>2 DEF findModelKeys, Proceed
<1>3. CASE removeAsset(h)
  BY <1>1, <1>3 DEF removeAsset, Proceed, Put
<1>4. CASE RemoveUser(h)
  BY <1>4, ReturnEffect DEF RemoveUser
<1>5. CASE Fail(h)
  BY <1>1, <1>5 DEF Fail
<1>6. QED
  BY <1>1, <1>2, <1>3, <1>4, <1>5
     DEF Server, ReadConfirm, ReadDelete, ReadRemoveUser, Start, fetchObject, fetchRaw,
         putThumbnail, deleteObject, confirmRow, deleteRow, At, Running

\* Until it is done or dies, a removal keeps to its user.
LEMMA RemovalEffect ==
    ASSUME Typed, NEW h \in Handlers, Removing(h), Server(h)
    PROVE  \/ req'[h] = Idle /\ (RemoveUser(h) \/ Fail(h))
           \/ /\ Running(h, "removeAssets")' /\ req'[h].sub = req[h].sub
              /\ UNCHANGED <<row, accounts, cut>>
              /\ \/ /\ Running(h, "findModelKeys") /\ UNCHANGED store
                    /\ req'[h].keys = req[h].keys \cup AssetKeys(req[h].sub, Models)
                 \/ /\ Running(h, "removeAssets")
                    /\ \E key \in req[h].keys : /\ req'[h].keys = req[h].keys \ {key}
                                                /\ store' = [store EXCEPT ![key] = "none"]
<1>1. req[h] \in Request
  BY DEF Typed, TypeOK
<1>2. CASE /\ Running(h, "findModelKeys")
           /\ req'[h] = [op |-> "removeAssets", sub |-> req[h].sub,
                         keys |-> req[h].keys \cup AssetKeys(req[h].sub, Models)]
           /\ UNCHANGED <<row, accounts, store, cut>>
  BY <1>2 DEF Running
<1>3. CASE /\ Running(h, "removeAssets")
           /\ \E key \in req[h].keys : /\ req'[h] = [req[h] EXCEPT !.keys = @ \ {key}]
                                       /\ store' = [store EXCEPT ![key] = "none"]
           /\ UNCHANGED <<row, accounts, cut>>
  <2>1. PICK key \in req[h].keys : /\ req'[h] = [req[h] EXCEPT !.keys = @ \ {key}]
                                   /\ store' = [store EXCEPT ![key] = "none"]
    BY <1>3
  <2>2. /\ [req[h] EXCEPT !.keys = @ \ {key}].keys = req[h].keys \ {key}
        /\ [req[h] EXCEPT !.keys = @ \ {key}].sub = req[h].sub
        /\ [req[h] EXCEPT !.keys = @ \ {key}].op = req[h].op
    BY <1>1, <1>3, NewRequests DEF Running
  <2>3. req'[h].keys = req[h].keys \ {key} /\ req'[h].sub = req[h].sub /\ req'[h].op = req[h].op
    BY <2>1, <2>2
  <2>4. QED
    BY <1>3, <2>1, <2>3 DEF Running
<1>4. QED
  BY <1>2, <1>3, RemovalSteps

\* What a handler that is free may begin.
LEMMA StartSteps ==
    ASSUME Typed, NEW h \in Handlers, req[h] = Idle, Server(h)
    PROVE  /\ UNCHANGED <<row, accounts, store, urls, cut>>
           /\ \/ \E u \in Users, i \in Items :
                   /\ Live(i) /\ (i \in Parts => ~row[i].confirmed)
                   /\ req'[h] = [op |-> "item", id |-> i, sub |-> u, todo |-> confirmSteps(i)]
              \/ \E u \in Users, i \in Items :
                   /\ Live(i)
                   /\ req'[h] = [op |-> "item", id |-> i, sub |-> u, todo |-> deleteSteps(i)]
              \/ \E u \in Users : req'[h] = [op |-> "findModelKeys", sub |-> u,
                                             keys |-> AssetKeys(u, Patterns)]
<1>1. req \in [Handlers -> Request] /\ req[h].op = "idle"
  BY IdleOp DEF Typed, TypeOK
<1>2. CASE \E u \in Users, i \in Items : ReadConfirm(h, u, i)
  BY <1>1, <1>2 DEF ReadConfirm, getOwned, Start, Proceed
<1>3. CASE \E u \in Users, i \in Items : ReadDelete(h, u, i)
  BY <1>1, <1>3 DEF ReadDelete, getOwned, Start, Proceed
<1>4. CASE \E u \in Users : ReadRemoveUser(h, u)
  BY <1>1, <1>4 DEF ReadRemoveUser, Start, Proceed
<1>5. QED
  BY <1>1, <1>2, <1>3, <1>4
     DEF Server, fetchObject, fetchRaw, putThumbnail, deleteObject, confirmRow, deleteRow, At,
         findModelKeys, removeAsset, RemoveUser, Running, Fail

-----------------------------------------------------------------------------
(* What handlers are at work on.                                           *)

\* A race is seen while it goes on.
RacesAreSeen == Contended \subseteq raced

\* A handler's item is there; if it has gone, that was another handler.
ItemsAreThere ==
    \A h \in Handlers, i \in Items :
      OfItem(h, i) => row[i] # NoRow /\ (Live(i) \/ i \in raced)

\* The assets that a removal has listed are of rows of that user.
AssetsAreOwned ==
    \A h \in Handlers : Removing(h) =>
      \A key \in req[h].keys : \E i \in Parts :
        /\ row[i] # NoRow /\ row[i].ownerId = req[h].sub
        /\ key \in {ObjectKey(i), ThumbnailKey(i)}

OwnersHaveAccounts == \A i \in Items : Live(i) => row[i].ownerId \in accounts

NothingBeforeCreate == \A i \in Items : row[i] = NoRow => store[ThumbnailKey(i)] = "none"

WellFormed ==
    /\ Typed
    /\ ThumbnailsAreTheServers
    /\ RacesAreSeen
    /\ ItemsAreThere
    /\ AssetsAreOwned
    /\ OwnersHaveAccounts
    /\ NothingBeforeCreate

LEMMA InHandOf ==
    ASSUME Typed, NEW h \in Handlers, NEW i \in Items
    PROVE  /\ OfItem(h, i) => i \in InHand(h)
           /\ Removing(h) /\ Live(i) /\ row[i].ownerId = req[h].sub => i \in InHand(h)
           /\ i \in InHand(h) => \/ OfItem(h, i)
                                 \/ Removing(h) /\ Live(i) /\ row[i].ownerId = req[h].sub
<1>1. req[h].op \in {"idle", "item", "findModelKeys", "removeAssets"}
  BY RequestFields, IdleOp DEF Typed, TypeOK
<1>2. QED
  BY <1>1 DEF InHand, OfItem, Removing, Running, OwnedBy

LEMMA RacesInHand ==
    ASSUME RacesAreSeen, NEW i \in Items, NEW g \in Handlers, NEW h \in Handlers, g # h,
           i \in InHand(g), i \in InHand(h)
    PROVE  i \in raced
BY DEF RacesAreSeen, Contended

LEMMA RacedGrows ==
    ASSUME [Next]_vars
    PROVE  raced \subseteq raced' /\ (RacesAreSeen => RacesAreSeen')
<1>1. ASSUME Next PROVE raced' = raced \cup Contended'
  BY <1>1 DEF Next
<1>2. ASSUME UNCHANGED vars PROVE raced' = raced /\ Contended' = Contended
  <2>1. \A h \in Handlers : InHand(h)' = InHand(h)
    BY <1>2 DEF vars, InHand, OwnedBy, Live
  <2>2. QED
    BY <1>2, <2>1 DEF vars, Contended
<1>3. QED
  BY <1>1, <1>2 DEF RacesAreSeen

LEMMA UrlsStep ==
    ASSUME Typed, ThumbnailsAreTheServers, [Next]_vars
    PROVE  ThumbnailsAreTheServers'
<1>1. ASSUME NEW u \in Users, NEW i \in Items, Create(u, i) PROVE ThumbnailsAreTheServers'
  BY <1>1, KeysDiffer DEF Create, ThumbnailsAreTheServers
<1>2. ASSUME NEW u \in Users, NEW l \in Looks, requestPreviewUpload(u, l)
      PROVE  ThumbnailsAreTheServers'
  BY <1>2, KeysDiffer DEF requestPreviewUpload, ThumbnailsAreTheServers
<1>3. ASSUME UNCHANGED urls PROVE ThumbnailsAreTheServers'
  BY <1>3 DEF ThumbnailsAreTheServers
<1>4. ASSUME NEW h \in Handlers, Server(h) PROVE UNCHANGED urls
  BY <1>4
     DEF Server, ReadConfirm, ReadDelete, ReadRemoveUser, fetchObject, fetchRaw, Fetched,
         putThumbnail, deleteObject, confirmRow, deleteRow, findModelKeys, removeAsset,
         RemoveUser, Fail
<1>5. QED
  BY <1>1, <1>2, <1>3, <1>4 DEF Next, Client, UpdateLook, ClientPut, vars

\* A handler at work on an item is so still, or has begun just now.
LEMMA OfItemBefore ==
    ASSUME Typed, [Next]_vars, NEW h \in Handlers, NEW i \in Items, OfItem(h, i)'
    PROVE  \/ OfItem(h, i)
           \/ /\ req[h] = Idle /\ Live(i) /\ Server(h) /\ UNCHANGED <<row, store, cut>>
              /\ \/ req'[h].todo = confirmSteps(i) /\ (i \in Parts => ~row[i].confirmed)
                 \/ req'[h].todo = deleteSteps(i)
<1>1. CASE req'[h] = req[h]
  BY <1>1 DEF OfItem, Running
<1>2. CASE req'[h] # req[h]
  <2>1. Server(h)
    BY <1>2, OwnSteps
  <2>2. req[h] \in Request /\ Idle.op = "idle" /\ req'[h].op = "item" /\ req'[h].id = i
    BY IdleOp DEF Typed, TypeOK, OfItem, Running
  <2>3. CASE req[h] = Idle
    <3>1. UNCHANGED <<row, store, cut>>
      BY <2>1, <2>3, StartSteps
    <3>2. \/ \E u \in Users, j \in Items :
               /\ Live(j) /\ (j \in Parts => ~row[j].confirmed)
               /\ req'[h] = [op |-> "item", id |-> j, sub |-> u, todo |-> confirmSteps(j)]
          \/ \E u \in Users, j \in Items :
               /\ Live(j)
               /\ req'[h] = [op |-> "item", id |-> j, sub |-> u, todo |-> deleteSteps(j)]
          \/ \E u \in Users : req'[h] = [op |-> "findModelKeys", sub |-> u,
                                         keys |-> AssetKeys(u, Patterns)]
      BY <2>1, <2>3, StartSteps
    <3>3. CASE \E u \in Users, j \in Items :
                 /\ Live(j) /\ (j \in Parts => ~row[j].confirmed)
                 /\ req'[h] = [op |-> "item", id |-> j, sub |-> u, todo |-> confirmSteps(j)]
      <4>1. PICK u \in Users, j \in Items :
              /\ Live(j) /\ (j \in Parts => ~row[j].confirmed)
              /\ req'[h] = [op |-> "item", id |-> j, sub |-> u, todo |-> confirmSteps(j)]
        BY <3>3
      <4>2. i = j /\ req'[h].todo = confirmSteps(j)
        BY <2>2, <4>1
      <4>3. QED
        BY <2>1, <2>3, <3>1, <4>1, <4>2
    <3>4. CASE \E u \in Users, j \in Items :
                 /\ Live(j)
                 /\ req'[h] = [op |-> "item", id |-> j, sub |-> u, todo |-> deleteSteps(j)]
      <4>1. PICK u \in Users, j \in Items :
              /\ Live(j)
              /\ req'[h] = [op |-> "item", id |-> j, sub |-> u, todo |-> deleteSteps(j)]
        BY <3>4
      <4>2. i = j /\ req'[h].todo = deleteSteps(j)
        BY <2>2, <4>1
      <4>3. QED
        BY <2>1, <2>3, <3>1, <4>1, <4>2
    <3>5. CASE \E u \in Users : req'[h] = [op |-> "findModelKeys", sub |-> u,
                                           keys |-> AssetKeys(u, Patterns)]
      BY <2>2, <3>5
    <3>6. QED
      BY <3>2, <3>3, <3>4, <3>5
  <2>4. CASE Removing(h)
    <3>1. req'[h] = Idle \/ Running(h, "removeAssets")'
      BY <2>1, <2>4, RemovalEffect
    <3>2. QED
      BY <2>2, <3>1 DEF Running
  <2>5. CASE req[h].op = "item"
    <3>1. OfItem(h, req[h].id) /\ req[h].id \in Items
      BY <2>2, <2>5, RequestFields DEF OfItem, Running
    <3>2. PICK j \in Items : OfItem(h, j) /\ j = req[h].id
      BY <3>1
    <3>3. req'[h] = Idle \/ OfItem(h, j)'
      <4>1. Done(h) => req'[h] = Idle \/ OfItem(h, j)'
        BY <3>2, DoneEffect
      <4>2. Fail(h) => req'[h] = Idle
        BY DEF Fail, Typed, TypeOK
      <4>3. QED
        BY <2>1, <3>2, <4>1, <4>2, ItemSteps
    <3>4. QED
      BY <2>2, <3>2, <3>3 DEF OfItem
  <2>6. QED
    BY <2>2, <2>3, <2>4, <2>5, RequestFields DEF Removing
<1>3. QED
  BY <1>1, <1>2

\* An item that goes while a handler is at work on it goes by another, and is raced.
LEMMA GoesRaced ==
    ASSUME WellFormed, [Next]_vars, NEW h \in Handlers, NEW i \in Items,
           OfItem(h, i), OfItem(h, i)', Live(i), ~Live(i)'
    PROVE  i \in raced
<1>1. Typed /\ RacesAreSeen
  BY DEF WellFormed
<1>2. /\ row'[i] # row[i] /\ row'[i] # [row[i] EXCEPT !.confirmed = TRUE]
      /\ \A uses : row'[i] # [row[i] EXCEPT !.uses = uses]
  <2>1. row[i] \in [row : {"live"}, ownerId : Users, confirmed : BOOLEAN, uses : SUBSET Models]
    BY <1>1, RowFields
  <2>2. QED
    BY <2>1 DEF Live
<1>3. PICK g \in Handlers :
        \/ deleteRow(g) /\ OfItem(g, i)
        \/ RemoveUser(g) /\ row[i].ownerId = req[g].sub
  <2>1. row[i] # NoRow
    BY <1>1, RowFields
  <2>2. QED
    BY <1>1, <1>2, <2>1, RowWriters
<1>4. CASE deleteRow(g) /\ OfItem(g, i)
  <2>1. CASE g = h
    <3>1. req[h].todo \in Todos(i) /\ Head(req[h].todo) = "deleteRow" /\ Done(h)
      BY <1>1, <1>4, <2>1, TodoOfItem DEF deleteRow, At
    <3>2. Tail(req[h].todo) = <<>>
      BY <3>1, TodoFacts
    <3>3. req'[h] = Idle
      BY <1>1, <3>1, <3>2 DEF Done, Continuing, Proceed, Typed, TypeOK
    <3>4. QED
      BY <3>3, IdleOp DEF OfItem, Running
  <2>2. CASE g # h
    BY <1>1, <1>4, <2>2, InHandOf, RacesInHand
  <2>3. QED
    BY <2>1, <2>2
<1>5. CASE RemoveUser(g) /\ row[i].ownerId = req[g].sub
  <2>1. g # h /\ Removing(g)
    BY <1>5 DEF RemoveUser, Running, Removing, OfItem
  <2>2. QED
    BY <1>1, <1>5, <2>1, InHandOf, RacesInHand
<1>6. QED
  BY <1>3, <1>4, <1>5

LEMMA ItemsStep ==
    ASSUME WellFormed, [Next]_vars
    PROVE  ItemsAreThere'
<1> SUFFICES ASSUME NEW h \in Handlers, NEW i \in Items, OfItem(h, i)'
             PROVE  row'[i] # NoRow /\ (Live(i)' \/ i \in raced')
  BY DEF ItemsAreThere
<1>1. Typed /\ raced \subseteq raced'
  BY RacedGrows DEF WellFormed
<1>2. CASE OfItem(h, i)
  <2>1. row[i] # NoRow /\ (Live(i) \/ i \in raced)
    BY <1>2 DEF WellFormed, ItemsAreThere
  <2>2. row'[i] # NoRow
    BY <1>1, <2>1, RowStays
  <2>3. QED
    BY <1>1, <1>2, <2>1, <2>2, GoesRaced
<1>3. CASE ~OfItem(h, i)
  <2>1. Live(i) /\ row' = row
    BY <1>1, <1>3, OfItemBefore
  <2>2. QED
    BY <1>1, <2>1, RowFields DEF Live
<1>4. QED
  BY <1>2, <1>3

\* A removal goes on, or has begun just now.
LEMMA RemovingBefore ==
    ASSUME Typed, [Next]_vars, NEW h \in Handlers, Removing(h)'
    PROVE  \/ Removing(h) /\ req'[h] = req[h]
           \/ /\ Removing(h) /\ Running(h, "removeAssets")' /\ req'[h].sub = req[h].sub
              /\ UNCHANGED <<row, accounts, cut>>
              /\ \/ /\ Running(h, "findModelKeys") /\ UNCHANGED store
                    /\ req'[h].keys = req[h].keys \cup AssetKeys(req[h].sub, Models)
                 \/ /\ Running(h, "removeAssets")
                    /\ \E key \in req[h].keys : /\ req'[h].keys = req[h].keys \ {key}
                                                /\ store' = [store EXCEPT ![key] = "none"]
           \/ /\ req[h] = Idle /\ Running(h, "findModelKeys")' /\ req'[h].sub \in Users
              /\ req'[h].keys = AssetKeys(req'[h].sub, Patterns)
              /\ UNCHANGED <<row, accounts, store, cut>>
<1>1. CASE req'[h] = req[h]
  BY <1>1 DEF Removing
<1>2. CASE req'[h] # req[h]
  <2>1. Server(h)
    BY <1>2, OwnSteps
  <2>2. req[h] \in Request /\ Idle.op = "idle" /\ req'[h] # Idle /\ req'[h].op # "item"
    BY IdleOp DEF Typed, TypeOK, Removing
  <2>3. CASE req[h] = Idle
    <3>1. UNCHANGED <<row, accounts, store, cut>>
      BY <2>1, <2>3, StartSteps
    <3>2. \E u \in Users : req'[h] = [op |-> "findModelKeys", sub |-> u,
                                      keys |-> AssetKeys(u, Patterns)]
      <4>1. ASSUME NEW u, NEW i, NEW todo,
                   req'[h] = [op |-> "item", id |-> i, sub |-> u, todo |-> todo]
            PROVE  FALSE
        BY <2>2, <4>1
      <4>2. \/ \E u \in Users, i \in Items :
                  /\ Live(i) /\ (i \in Parts => ~row[i].confirmed)
                  /\ req'[h] = [op |-> "item", id |-> i, sub |-> u, todo |-> confirmSteps(i)]
            \/ \E u \in Users, i \in Items :
                  /\ Live(i)
                  /\ req'[h] = [op |-> "item", id |-> i, sub |-> u, todo |-> deleteSteps(i)]
            \/ \E u \in Users : req'[h] = [op |-> "findModelKeys", sub |-> u,
                                            keys |-> AssetKeys(u, Patterns)]
        BY <2>1, <2>3, StartSteps
      <4>3. QED
        BY <4>1, <4>2, Zenon
    <3>3. PICK u \in Users : req'[h] = [op |-> "findModelKeys", sub |-> u,
                                        keys |-> AssetKeys(u, Patterns)]
      BY <3>2
    <3>4. /\ req'[h].op = "findModelKeys" /\ req'[h].sub = u
          /\ req'[h].keys = AssetKeys(u, Patterns)
      BY <3>3
    <3>5. QED
      BY <2>3, <3>1, <3>4 DEF Running
  <2>4. CASE Removing(h)
    BY <2>1, <2>2, <2>4, RemovalEffect
  <2>5. CASE req[h].op = "item"
    <3>1. PICK j \in Items : OfItem(h, j)
      BY <2>2, <2>5, RequestFields DEF OfItem, Running
    <3>2. req'[h] = Idle \/ OfItem(h, j)'
      <4>1. Done(h) => req'[h] = Idle \/ OfItem(h, j)'
        BY <3>1, DoneEffect
      <4>2. Fail(h) => req'[h] = Idle
        BY DEF Fail, Typed, TypeOK
      <4>3. QED
        BY <2>1, <3>1, <4>1, <4>2, ItemSteps
    <3>3. QED
      BY <2>2, <3>2 DEF OfItem, Running
  <2>6. QED
    BY <2>2, <2>3, <2>4, <2>5, RequestFields DEF Removing
<1>3. QED
  BY <1>1, <1>2

LEMMA AssetKeysOf ==
    ASSUME Typed, NEW u, NEW S \in SUBSET Parts, NEW key \in AssetKeys(u, S)
    PROVE  \E i \in Parts : /\ i \in S /\ Live(i) /\ row[i] # NoRow /\ row[i].ownerId = u
                            /\ key \in {ObjectKey(i), ThumbnailKey(i)}
BY RowFields DEF AssetKeys, OwnedBy, Items

LEMMA AssetsStep ==
    ASSUME WellFormed, [Next]_vars
    PROVE  AssetsAreOwned'
<1>1. Typed /\ AssetsAreOwned
  BY DEF WellFormed
<1>2. ASSUME NEW h \in Handlers, Removing(h)', NEW key \in req'[h].keys
      PROVE  \E i \in Parts : /\ row[i] # NoRow /\ row[i].ownerId = req'[h].sub
                              /\ key \in {ObjectKey(i), ThumbnailKey(i)}
  <2>1. ASSUME Removing(h), key \in req[h].keys, req'[h].sub = req[h].sub
        PROVE  \E i \in Parts : /\ row[i] # NoRow /\ row[i].ownerId = req'[h].sub
                                /\ key \in {ObjectKey(i), ThumbnailKey(i)}
    BY <1>1, <2>1 DEF AssetsAreOwned
  <2>2. ASSUME NEW u, u = req'[h].sub, key \in AssetKeys(u, Patterns) \cup AssetKeys(u, Models)
        PROVE  \E i \in Parts : /\ row[i] # NoRow /\ row[i].ownerId = req'[h].sub
                                /\ key \in {ObjectKey(i), ThumbnailKey(i)}
    <3>1. Patterns \in SUBSET Parts /\ Models \in SUBSET Parts
      BY DEF Parts
    <3>2. QED
      BY <1>1, <2>2, <3>1, AssetKeysOf
  <2>3. QED
    BY <1>1, <1>2, <2>1, <2>2, RemovingBefore
<1>3. SUFFICES ASSUME NEW h \in Handlers, Removing(h)', NEW key \in req'[h].keys
               PROVE  \E i \in Parts : /\ row'[i] # NoRow /\ row'[i].ownerId = req'[h].sub
                                       /\ key \in {ObjectKey(i), ThumbnailKey(i)}
  BY DEF AssetsAreOwned, ObjectKey, ThumbnailKey
<1>4. PICK i \in Parts : /\ row[i] # NoRow /\ row[i].ownerId = req'[h].sub
                         /\ key \in {ObjectKey(i), ThumbnailKey(i)}
  BY <1>2, <1>3
<1>5. row'[i] # NoRow /\ row'[i].ownerId = row[i].ownerId
  BY <1>1, <1>4, RowStays DEF Items
<1>6. QED
  BY <1>4, <1>5

LEMMA OwnersStep ==
    ASSUME WellFormed, [Next]_vars
    PROVE  OwnersHaveAccounts'
<1>1. Typed /\ OwnersHaveAccounts
  BY DEF WellFormed
<1> SUFFICES ASSUME NEW i \in Items, Live(i)' PROVE row'[i].ownerId \in accounts'
  BY DEF OwnersHaveAccounts
<1>2. CASE row[i] = NoRow
  BY <1>1, <1>2, RowIsNew DEF Live, NoRow
<1>3. CASE row[i] # NoRow
  <2>1. Live(i) /\ row'[i].ownerId = row[i].ownerId /\ row[i].ownerId \in accounts
    BY <1>1, <1>3, RowStays DEF OwnersHaveAccounts
  <2>2. ASSUME NEW h \in Handlers, RemoveUser(h), accounts' # accounts
        PROVE  row[i].ownerId \in accounts'
    <3>1. accounts' = accounts \ {req[h].sub} /\ row' = Gone(OwnedBy(req[h].sub, Items))
      BY <2>2 DEF RemoveUser
    <3>2. row'[i] = IF i \in OwnedBy(req[h].sub, Items)
                    THEN [row |-> "gone", ownerId |-> row[i].ownerId] ELSE row[i]
      BY <1>1, <3>1, GoneRows DEF OwnedBy
    <3>3. QED
      BY <2>1, <3>1, <3>2 DEF OwnedBy, Live
  <2>3. ASSUME accounts' # accounts PROVE \E h \in Handlers : RemoveUser(h)
    BY <2>3
       DEF Next, vars, Client, Create, UpdateLook, requestPreviewUpload, ClientPut, Server, ReadConfirm,
           ReadDelete, ReadRemoveUser, fetchObject, fetchRaw, Fetched, putThumbnail,
           deleteObject, confirmRow, deleteRow, findModelKeys, removeAsset, Fail
  <2>4. QED
    BY <2>1, <2>2, <2>3
<1>4. QED
  BY <1>2, <1>3

LEMMA NothingStep ==
    ASSUME WellFormed, [Next]_vars
    PROVE  NothingBeforeCreate'
<1>1. Typed /\ ThumbnailsAreTheServers /\ ItemsAreThere /\ NothingBeforeCreate
  BY DEF WellFormed
<1>2. SUFFICES ASSUME NEW i \in Items, row'[i] = NoRow
               PROVE  store'[ThumbnailKey(i)] = "none"
  BY DEF NothingBeforeCreate, ThumbnailKey
<1>3. row[i] = NoRow
  BY <1>1, <1>2, RowStays
<1>4. store[ThumbnailKey(i)] = "none" /\ \A h \in Handlers : ~OfItem(h, i)
  BY <1>1, <1>3 DEF NothingBeforeCreate, ItemsAreThere
<1>5. QED
  BY <1>1, <1>4, ThumbnailWriters

LEMMA WellFormedStep == WellFormed /\ [Next]_vars => WellFormed'
<1> SUFFICES ASSUME WellFormed, [Next]_vars PROVE WellFormed'
  OBVIOUS
<1>1. Typed /\ RacesAreSeen /\ ThumbnailsAreTheServers
  BY DEF WellFormed
<1>2. Typed' /\ RacesAreSeen' /\ ThumbnailsAreTheServers'
  BY <1>1, TypedStep, RacedGrows, UrlsStep
<1>3. QED
  BY <1>2, ItemsStep, AssetsStep, OwnersStep, NothingStep DEF WellFormed

LEMMA InitWellFormed == Init => WellFormed
<1> SUFFICES ASSUME Init PROVE WellFormed
  OBVIOUS
<1>1. Typed
  BY InitTyped
<1>2. \A h \in Handlers : req[h].op = "idle" /\ InHand(h) = {}
  BY IdleOp DEF Init, InHand
<1>3. ThumbnailsAreTheServers /\ RacesAreSeen /\ ItemsAreThere /\ AssetsAreOwned
  BY <1>2 DEF Init, ThumbnailsAreTheServers, RacesAreSeen, Contended, ItemsAreThere,
              AssetsAreOwned, OfItem, Running, Removing
<1>4. \A i \in Items : ~Live(i) /\ store[ThumbnailKey(i)] = "none"
  BY KeysDiffer DEF Init, Live, NoRow
<1>5. QED
  BY <1>1, <1>3, <1>4 DEF WellFormed, OwnersHaveAccounts, NothingBeforeCreate

LEMMA AlwaysWellFormed == Spec => []WellFormed
BY InitWellFormed, WellFormedStep, PTL DEF Spec

-----------------------------------------------------------------------------
(* How the work on an item goes on.                                        *)

\* h, confirming i, has put that step behind it.
Past(h, i, step) ==
    OfItem(h, i) /\ "confirmRow" \in StepsLeft(h) /\ step \notin StepsLeft(h)

LEMMA CutGrows ==
    ASSUME Typed, [Next]_vars
    PROVE  /\ cut \subseteq cut'
           /\ \A h \in Handlers : Fail(h) => InHand(h) \subseteq cut'
<1>1. ASSUME NEW h \in Handlers, Server(h) PROVE UNCHANGED cut \/ Fail(h)
  <2>1. ASSUME At(h, "fetchObject") \/ At(h, "fetchRaw"), fetchObject(h) \/ fetchRaw(h)
        PROVE  UNCHANGED cut
    BY <2>1 DEF fetchObject, fetchRaw, Fetched, Done, Continuing, Return, Proceed
  <2>2. QED
    BY <1>1, <2>1
       DEF Server, ReadConfirm, ReadDelete, ReadRemoveUser, Start, Proceed, fetchObject,
           fetchRaw, putThumbnail, deleteObject, confirmRow, deleteRow, Done, Continuing,
           Return, findModelKeys, removeAsset, RemoveUser
<1>2. ASSUME NEW h \in Handlers, Fail(h) PROVE cut' = cut \cup InHand(h)
  BY <1>2 DEF Fail
<1>3. ASSUME Client PROVE UNCHANGED cut
  BY <1>3 DEF Client, Create, UpdateLook, requestPreviewUpload, ClientPut
<1>4. QED
  BY <1>1, <1>2, <1>3 DEF Next, vars

LEMMA InHandAfter ==
    ASSUME Typed', NEW h \in Handlers, NEW i \in Items
    PROVE  /\ OfItem(h, i)' => i \in InHand(h)'
           /\ Removing(h)' /\ Live(i)' /\ row'[i].ownerId = req'[h].sub => i \in InHand(h)'
<1>1. req'[h].op \in {"idle", "item", "findModelKeys", "removeAssets"}
  BY RequestFields, IdleOp DEF Typed, TypeOK
<1>2. QED
  BY <1>1 DEF InHand, OfItem, Removing, Running, OwnedBy

LEMMA RacesAfter ==
    ASSUME RacesAreSeen', NEW i \in Items, NEW g \in Handlers, NEW h \in Handlers, g # h,
           i \in InHand(g)', i \in InHand(h)'
    PROVE  i \in raced'
BY DEF RacesAreSeen, Contended

\* A handler that is to take a step takes that one, or dies.
LEMMA StepActions ==
    ASSUME Typed, NEW h \in Handlers, NEW i \in Items, OfItem(h, i), Server(h), ~Fail(h)
    PROVE  /\ Head(req[h].todo) = "fetchObject" => fetchObject(h)
           /\ Head(req[h].todo) = "putThumbnail" => putThumbnail(h)
           /\ Head(req[h].todo) \in {"deleteObject", "deleteThumbnail"} => deleteObject(h)
           /\ Head(req[h].todo) = "confirmRow" => confirmRow(h)
           /\ Head(req[h].todo) = "deleteRow" => deleteRow(h)
<1>1. req[h] # Idle /\ req[h].op = "item"
  BY IdleOp DEF OfItem, Running
<1>2. QED
  BY <1>1
     DEF Server, ReadConfirm, ReadDelete, ReadRemoveUser, Start, fetchObject, fetchRaw,
         putThumbnail, deleteObject, confirmRow, deleteRow, At, findModelKeys, removeAsset,
         RemoveUser, Running

\* Where a handler at work on an item comes from.
LEMMA ItemHistory ==
    ASSUME Typed, [Next]_vars, NEW h \in Handlers, NEW i \in Items, OfItem(h, i)'
    PROVE  \/ OfItem(h, i) /\ req'[h] = req[h]
           \/ /\ OfItem(h, i) /\ Server(h) /\ ~Fail(h) /\ Done(h)
              /\ Head(req[h].todo) \in StepsLeft(h) \ {"confirmRow", "deleteRow"}
              /\ StepsLeft(h)' = StepsLeft(h) \ {Head(req[h].todo)}
           \/ /\ OfItem(h, i) /\ StepsLeft(h)' \subseteq {"deleteObject", "deleteRaw"}
              /\ "confirmRow" \in StepsLeft(h) /\ "deleteRow" \notin StepsLeft(h)
           \/ /\ req[h] = Idle /\ Live(i) /\ UNCHANGED <<row, store, cut>>
              /\ StepsLeft(h)' = StepsOf(confirmSteps(i)) /\ (i \in Parts => ~row[i].confirmed)
           \/ /\ req[h] = Idle /\ Live(i) /\ UNCHANGED <<row, store, cut>>
              /\ StepsLeft(h)' = StepsOf(deleteSteps(i))
<1>1. CASE req'[h] = req[h]
  BY <1>1 DEF OfItem, Running
<1>2. CASE ~OfItem(h, i)
  BY <1>2, OfItemBefore DEF StepsLeft
<1>3. CASE OfItem(h, i) /\ req'[h] # req[h]
  <2>1. Server(h) /\ req[h].todo \in Todos(i) /\ req'[h] # Idle
    BY <1>3, OwnSteps, TodoOfItem, IdleOp DEF OfItem, Running
  <2>2. ~Fail(h)
    BY <2>1 DEF Fail, Typed, TypeOK
  <2>3. CASE Done(h)
    <3>1. StepsLeft(h)' = StepsLeft(h) \ {Head(req[h].todo)}
      BY <1>3, <2>1, <2>3, DoneEffect
    <3>2. Head(req[h].todo) \in StepsLeft(h)
      BY <2>1, TodoFacts DEF StepsLeft
    <3>3. Head(req[h].todo) \notin {"confirmRow", "deleteRow"}
      <4>1. SUFFICES ASSUME Tail(req[h].todo) = <<>> PROVE FALSE
        BY <2>1, TodoFacts
      <4>2. req'[h] = Idle
        BY <2>3, <4>1 DEF Done, Continuing, Proceed, Typed, TypeOK
      <4>3. QED
        BY <2>1, <4>2
    <3>4. QED
      BY <1>3, <2>1, <2>2, <2>3, <3>1, <3>2, <3>3
  <2>4. CASE /\ StepsLeft(h)' \subseteq {"deleteObject", "deleteRaw"}
             /\ "confirmRow" \in StepsLeft(h)
    BY <1>3, <2>1, <2>4, TodoFacts DEF StepsLeft
  <2>5. QED
    BY <1>3, <2>1, <2>2, <2>3, <2>4, ItemSteps
<1>4. QED
  BY <1>1, <1>2, <1>3

\* A confirmation that has put its thumbnail goes on to confirm the row.
LEMMA PastStays ==
    ASSUME Typed, [Next]_vars, NEW h \in Handlers, NEW i \in Items,
           Past(h, i, "putThumbnail")
    PROVE  \/ Past(h, i, "putThumbnail")'
           \/ Live(i)' => row'[i].confirmed
           \/ i \in cut'
<1>1. /\ OfItem(h, i) /\ "confirmRow" \in StepsLeft(h) /\ "putThumbnail" \notin StepsLeft(h)
      /\ req[h].todo \in Todos(i)
  BY TodoOfItem DEF Past
<1>2. CASE req'[h] = req[h]
  BY <1>1, <1>2 DEF Past, OfItem, Running, StepsLeft
<1>3. CASE Server(h) /\ ~Fail(h) /\ Head(req[h].todo) = "confirmRow"
  <2>1. confirmRow(h) /\ req[h].id = i
    BY <1>1, <1>3, StepActions DEF OfItem
  <2>2. Live(i) => row' = [row EXCEPT ![i].confirmed = TRUE]
    BY <2>1 DEF confirmRow
  <2>3. ~Live(i) => ~Live(i)'
    BY <2>1 DEF confirmRow, Live
  <2>4. ASSUME Live(i) PROVE row'[i].confirmed
    <3>1. row[i] \in [row : {"live"}, ownerId : Users, confirmed : BOOLEAN, uses : SUBSET Models]
      BY <2>4, RowFields
    <3>2. row'[i] = [row[i] EXCEPT !.confirmed = TRUE]
      BY <2>2, <2>4 DEF Typed, TypeOK
    <3>3. QED
      BY <3>1, <3>2
  <2>5. QED
    BY <2>3, <2>4
<1>4. CASE Server(h) /\ ~Fail(h) /\ Head(req[h].todo) # "confirmRow"
  <2>1. Done(h)
    <3>1. ~At(h, "confirmRow")
      BY <1>4 DEF At
    <3>2. QED
      BY <1>1, <1>4, <3>1, ItemSteps
  <2>2. OfItem(h, i)' /\ StepsLeft(h)' = StepsLeft(h) \ {Head(req[h].todo)}
    BY <1>1, <1>4, <2>1, DoneEffect
  <2>3. QED
    BY <1>1, <1>4, <2>2 DEF Past
<1>5. CASE Fail(h)
  BY <1>1, <1>5, CutGrows, InHandOf
<1>6. QED
  BY <1>2, <1>3, <1>4, <1>5, OwnSteps

\* What a confirmation has behind it, it has done: the object was there, the
\* thumbnail is.
LEMMA PastBefore ==
    ASSUME Typed, [Next]_vars, NEW h \in Handlers, NEW i \in Items,
           NEW step \in {"fetchObject", "putThumbnail"}, step = "fetchObject" => i \in Parts,
           Past(h, i, step)'
    PROVE  \/ Past(h, i, step)
           \/ step = "putThumbnail" /\ store'[ThumbnailKey(i)] = "typed"
           \/ step = "fetchObject" /\ store'[ObjectKey(i)] = "typed"
<1>1. /\ OfItem(h, i)' /\ "confirmRow" \in StepsLeft(h)' /\ step \notin StepsLeft(h)'
  BY DEF Past
<1>2. CASE OfItem(h, i) /\ req'[h] = req[h]
  BY <1>1, <1>2 DEF Past, StepsLeft
<1>3. CASE /\ OfItem(h, i) /\ Server(h) /\ ~Fail(h) /\ Done(h)
           /\ StepsLeft(h)' = StepsLeft(h) \ {Head(req[h].todo)}
  <2>1. "confirmRow" \in StepsLeft(h) /\ req[h].id = i
    BY <1>1, <1>3 DEF OfItem
  <2>2. CASE step \notin StepsLeft(h)
    BY <1>3, <2>1, <2>2 DEF Past
  <2>3. CASE step = Head(req[h].todo) /\ step = "putThumbnail"
    <3>1. Put(ThumbnailKey(i), "typed") /\ ThumbnailKey(i) \in Keys
      BY <1>3, <2>1, <2>3, StepActions, KeysDiffer DEF putThumbnail
    <3>2. QED
      BY <2>3, <3>1 DEF Put, Typed, TypeOK
  <2>4. CASE step = Head(req[h].todo) /\ step = "fetchObject"
    <3>1. fetchObject(h) /\ At(h, "fetchObject")
      BY <1>3, <2>4, StepActions DEF fetchObject
    <3>2. UNCHANGED store
      BY <3>1 DEF fetchObject, Fetched
    <3>3. store[ObjectKey(i)] = "typed"
      <4>1. CASE store[ObjectKey(i)] = "typed"
        BY <4>1
      <4>2. CASE store[ObjectKey(i)] # "typed"
        <5>1. Return(h) \/ Continuing(h, <<"deleteObject">>)
          BY <2>1, <3>1, <4>2 DEF fetchObject, Fetched
        <5>2. ~Return(h)
          BY <1>1, ReturnEffect, IdleOp DEF OfItem, Running
        <5>3. <<"deleteObject">> \in Todos(i)
          BY <2>4, RefusedTodos
        <5>4. req'[h] = Idle \/ req'[h].todo = <<"deleteObject">>
          BY <1>3, <5>1, <5>2, <5>3, ContinuingEffect
        <5>5. StepsLeft(h)' = {"deleteObject"}
          BY <1>1, <5>4, RefusedTodos, IdleOp DEF StepsLeft, OfItem, Running
        <5>6. QED
          BY <1>1, <5>5
      <4>3. QED
        BY <4>1, <4>2
    <3>4. QED
      BY <2>4, <3>2, <3>3
  <2>5. QED
    BY <1>1, <1>3, <2>2, <2>3, <2>4
<1>4. CASE StepsLeft(h)' \subseteq {"deleteObject", "deleteRaw"}
  BY <1>1, <1>4
<1>5. CASE StepsLeft(h)' = StepsOf(confirmSteps(i))
  BY <1>1, <1>5, ConfirmTodos
<1>6. CASE StepsLeft(h)' = StepsOf(deleteSteps(i))
  BY <1>1, <1>6, DeleteTodos, TodoFacts
<1>7. QED
  BY <1>1, <1>2, <1>3, <1>4, <1>5, <1>6, ItemHistory

-----------------------------------------------------------------------------
(* Thumbnails that go with their rows.                                     *)

\* An unconfirmed row has a thumbnail only while a handler is about to confirm it.
ThumbnailsAreExpected ==
    \A i \in Items :
      Live(i) /\ ~row[i].confirmed /\ i \notin cut \cup raced /\ store[ThumbnailKey(i)] # "none" =>
        \E h \in Handlers : Past(h, i, "putThumbnail")

\* A deletion that is not to delete a thumbnail has none to delete.
DeletionsTakeThumbnails ==
    \A h \in Handlers, i \in Items :
      /\ OfItem(h, i) /\ i \notin cut \cup raced
      /\ "deleteRow" \in StepsLeft(h) /\ "deleteThumbnail" \notin StepsLeft(h)
      => store[ThumbnailKey(i)] = "none"

\* A removal has the thumbnails of patterns on its list, and then those of models.
RemovalsTakeThumbnails ==
    \A h \in Handlers, i \in Parts :
      /\ Removing(h) /\ (Running(h, "findModelKeys") => i \in Patterns)
      /\ Live(i) /\ row[i].ownerId = req[h].sub /\ i \notin cut \cup raced
      /\ store[ThumbnailKey(i)] # "none"
      => ThumbnailKey(i) \in req[h].keys

ThumbnailsInv ==
    /\ ThumbnailsAreExpected
    /\ DeletionsTakeThumbnails
    /\ RemovalsTakeThumbnails
    /\ NoOrphanThumbnails

\* Nobody but a handler that is to confirm the row puts a thumbnail.
LEMMA ThumbnailsArePut ==
    ASSUME WellFormed, [Next]_vars, NEW i \in Items,
           store[ThumbnailKey(i)] = "none", store'[ThumbnailKey(i)] # "none"
    PROVE  \E h \in Handlers : /\ putThumbnail(h) /\ OfItem(h, i)
                               /\ "confirmRow" \in StepsLeft(h) /\ "deleteRow" \notin StepsLeft(h)
                               /\ Past(h, i, "putThumbnail")'
                               /\ UNCHANGED <<row, accounts>>
<1>1. Typed /\ ThumbnailsAreTheServers
  BY DEF WellFormed
<1>2. PICK h \in Handlers : putThumbnail(h) /\ OfItem(h, i)
  BY <1>1, ThumbnailWriters
<1>3. /\ req[h].todo \in Todos(i) /\ Head(req[h].todo) = "putThumbnail" /\ Done(h)
      /\ UNCHANGED <<row, accounts>>
  BY <1>1, <1>2, TodoOfItem DEF putThumbnail, At
<1>4. /\ "putThumbnail" \in StepsLeft(h) /\ "confirmRow" \in StepsLeft(h)
      /\ "deleteRow" \notin StepsLeft(h)
  BY <1>3, TodoFacts DEF StepsLeft
<1>5. OfItem(h, i)' /\ StepsLeft(h)' = StepsLeft(h) \ {"putThumbnail"}
  BY <1>1, <1>2, <1>3, <1>4, DoneEffect
<1>6. QED
  BY <1>2, <1>3, <1>4, <1>5 DEF Past

LEMMA ExpectedStep ==
    ASSUME WellFormed, ThumbnailsInv, [Next]_vars
    PROVE  ThumbnailsAreExpected'
<1>1. Typed /\ ThumbnailsAreExpected /\ cut \subseteq cut' /\ raced \subseteq raced'
  BY CutGrows, RacedGrows DEF WellFormed, ThumbnailsInv
<1>2. SUFFICES ASSUME NEW i \in Items, Live(i)', ~row'[i].confirmed, i \notin cut' \cup raced',
                      store'[ThumbnailKey(i)] # "none"
               PROVE  \E h \in Handlers : Past(h, i, "putThumbnail")'
  BY DEF ThumbnailsAreExpected, ThumbnailKey
<1>3. CASE row[i] = NoRow
  <2>1. UNCHANGED store /\ store[ThumbnailKey(i)] = "none"
    BY <1>1, <1>2, <1>3, RowIsNew DEF WellFormed, NothingBeforeCreate, Live, NoRow
  <2>2. QED
    BY <1>2, <2>1
<1>4. CASE row[i] # NoRow /\ store[ThumbnailKey(i)] = "none"
  BY <1>2, <1>4, ThumbnailsArePut
<1>5. CASE row[i] # NoRow /\ store[ThumbnailKey(i)] # "none"
  <2>1. Live(i) /\ ~row[i].confirmed
    BY <1>1, <1>2, <1>5, RowStays
  <2>2. PICK h \in Handlers : Past(h, i, "putThumbnail")
    BY <1>1, <1>2, <1>5, <2>1 DEF ThumbnailsAreExpected
  <2>3. QED
    BY <1>1, <1>2, <2>2, PastStays
<1>6. QED
  BY <1>3, <1>4, <1>5

LEMMA DeletionsStep ==
    ASSUME WellFormed, ThumbnailsInv, [Next]_vars
    PROVE  DeletionsTakeThumbnails'
<1>1. /\ Typed /\ Typed' /\ RacesAreSeen /\ RacesAreSeen' /\ DeletionsTakeThumbnails
      /\ ThumbnailsAreExpected /\ cut \subseteq cut' /\ raced \subseteq raced'
  BY CutGrows, RacedGrows, TypedStep DEF WellFormed, ThumbnailsInv
<1>2. SUFFICES ASSUME NEW h \in Handlers, NEW i \in Items, OfItem(h, i)',
                      i \notin cut' \cup raced', "deleteRow" \in StepsLeft(h)',
                      "deleteThumbnail" \notin StepsLeft(h)'
               PROVE  store'[ThumbnailKey(i)] = "none"
  BY DEF DeletionsTakeThumbnails, ThumbnailKey
\* Nobody else puts it meanwhile.
<1>3. ASSUME OfItem(h, i), "deleteRow" \in StepsLeft(h), store[ThumbnailKey(i)] = "none"
      PROVE  store'[ThumbnailKey(i)] = "none"
  <2>1. ASSUME NEW g \in Handlers, OfItem(g, i), "deleteRow" \notin StepsLeft(g) PROVE FALSE
    <3>1. g # h /\ i \in InHand(g) /\ i \in InHand(h)
      BY <1>1, <1>3, <2>1, InHandOf
    <3>2. QED
      BY <1>1, <1>2, <3>1, RacesInHand
  <2>2. QED
    BY <1>3, <2>1, ThumbnailsArePut
<1>4. CASE OfItem(h, i) /\ req'[h] = req[h]
  <2>1. "deleteRow" \in StepsLeft(h) /\ "deleteThumbnail" \notin StepsLeft(h)
    BY <1>2, <1>4 DEF StepsLeft
  <2>2. QED
    BY <1>1, <1>2, <1>3, <1>4, <2>1 DEF DeletionsTakeThumbnails
<1>5. CASE /\ OfItem(h, i) /\ Server(h) /\ ~Fail(h) /\ Done(h)
           /\ StepsLeft(h)' = StepsLeft(h) \ {Head(req[h].todo)}
  <2>1. "deleteRow" \in StepsLeft(h)
    BY <1>2, <1>5
  <2>2. CASE "deleteThumbnail" \notin StepsLeft(h)
    BY <1>1, <1>2, <1>3, <1>5, <2>1, <2>2 DEF DeletionsTakeThumbnails
  <2>3. CASE Head(req[h].todo) = "deleteThumbnail"
    <3>1. deleteObject(h) /\ req[h].id = i
      BY <1>1, <1>5, <2>3, StepActions DEF OfItem
    <3>2. Put(ThumbnailKey(i), "none") /\ ThumbnailKey(i) \in Keys
      BY <2>3, <3>1, KeysDiffer DEF deleteObject, At
    <3>3. QED
      BY <1>1, <3>2 DEF Put, Typed, TypeOK
  <2>4. QED
    BY <1>2, <1>5, <2>2, <2>3
<1>6. CASE StepsLeft(h)' \subseteq {"deleteObject", "deleteRaw"}
  BY <1>2, <1>6
<1>7. CASE StepsLeft(h)' = StepsOf(confirmSteps(i))
  BY <1>2, <1>7, ConfirmTodos
<1>8. CASE /\ req[h] = Idle /\ Live(i) /\ UNCHANGED <<row, store, cut>>
           /\ StepsLeft(h)' = StepsOf(deleteSteps(i))
  <2>1. ~row[i].confirmed
    BY <1>2, <1>8, DeleteTodos
  <2>2. ASSUME NEW g \in Handlers, Past(g, i, "putThumbnail") PROVE FALSE
    <3>1. g # h /\ OfItem(g, i)
      BY <1>8, <2>2, IdleOp DEF Past, OfItem, Running
    <3>2. req'[g] = req[g]
      <4>1. req'[h] # req[h]
        BY <1>2, <1>8, IdleOp DEF OfItem, Running
      <4>2. QED
        BY <1>1, <3>1, <4>1, ClientType, ServerType DEF Next, vars
    <3>3. OfItem(g, i)'
      BY <3>1, <3>2 DEF OfItem, Running
    <3>4. QED
      BY <1>1, <1>2, <3>1, <3>3, InHandAfter, RacesAfter
  <2>3. store[ThumbnailKey(i)] = "none"
    BY <1>1, <1>2, <1>8, <2>1, <2>2 DEF ThumbnailsAreExpected
  <2>4. QED
    BY <1>8, <2>3
<1>9. QED
  BY <1>1, <1>2, <1>4, <1>5, <1>6, <1>7, <1>8, ItemHistory

LEMMA OthersWait ==
    ASSUME Typed, [Next]_vars, NEW g \in Handlers, NEW h \in Handlers, g # h,
           req'[h] # req[h]
    PROVE  req'[g] = req[g]
BY ClientType, ServerType DEF Next, vars

LEMMA AssetKeysHave ==
    ASSUME NEW u, NEW S, NEW i \in S, Live(i), row[i].ownerId = u
    PROVE  /\ ObjectKey(i) \in AssetKeys(u, S)
           /\ row[i].confirmed => ThumbnailKey(i) \in AssetKeys(u, S)
BY DEF AssetKeys, OwnedBy

LEMMA RemovalsStep ==
    ASSUME WellFormed, ThumbnailsInv, [Next]_vars
    PROVE  RemovalsTakeThumbnails'
<1>1. /\ Typed /\ Typed' /\ RacesAreSeen /\ RacesAreSeen' /\ RemovalsTakeThumbnails
      /\ ThumbnailsAreExpected /\ cut \subseteq cut' /\ raced \subseteq raced'
  BY CutGrows, RacedGrows, TypedStep DEF WellFormed, ThumbnailsInv
<1>2. SUFFICES ASSUME NEW h \in Handlers, NEW i \in Parts, Removing(h)',
                      Running(h, "findModelKeys")' => i \in Patterns,
                      Live(i)', row'[i].ownerId = req'[h].sub, i \notin cut' \cup raced',
                      store'[ThumbnailKey(i)] # "none"
               PROVE  ThumbnailKey(i) \in req'[h].keys
  BY DEF RemovalsTakeThumbnails, ThumbnailKey
<1>3. /\ i \in Items /\ i \in InHand(h)' /\ i \notin cut \cup raced
      /\ i \in Patterns \/ i \in Models
  BY <1>1, <1>2, InHandAfter DEF Items, Parts
<1>4. row[i] # NoRow
  <2>1. SUFFICES ASSUME row[i] = NoRow PROVE FALSE
    OBVIOUS
  <2>2. store'[ThumbnailKey(i)] = "none"
    BY <1>1, <1>2, <1>3, <2>1, RowIsNew DEF WellFormed, NothingBeforeCreate, Live, NoRow
  <2>3. QED
    BY <1>2, <2>2
<1>5. Live(i) /\ row[i].ownerId = req'[h].sub
  BY <1>1, <1>2, <1>3, <1>4, RowStays
<1>6. ASSUME NEW g \in Handlers, OfItem(g, i)' PROVE FALSE
  <2>1. g # h
    BY <1>2, <1>6 DEF OfItem, Running, Removing
  <2>2. QED
    BY <1>1, <1>2, <1>3, <1>6, <2>1, InHandAfter, RacesAfter
<1>7. store[ThumbnailKey(i)] # "none"
  <2>1. SUFFICES ASSUME store[ThumbnailKey(i)] = "none" PROVE FALSE
    OBVIOUS
  <2>2. PICK g \in Handlers : Past(g, i, "putThumbnail")'
    BY <1>2, <1>3, <2>1, ThumbnailsArePut
  <2>3. QED
    BY <1>6, <2>2 DEF Past
<1>8. ASSUME ~row[i].confirmed PROVE \E g \in Handlers : OfItem(g, i)
  BY <1>1, <1>3, <1>5, <1>7, <1>8 DEF ThumbnailsAreExpected, Past
<1>9. ASSUME Removing(h), Running(h, "findModelKeys") => i \in Patterns, req'[h].sub = req[h].sub
      PROVE  ThumbnailKey(i) \in req[h].keys
  BY <1>1, <1>3, <1>5, <1>7, <1>9 DEF RemovalsTakeThumbnails
<1>10. CASE Removing(h) /\ req'[h] = req[h]
  BY <1>2, <1>9, <1>10 DEF Running
<1>11. CASE /\ Removing(h) /\ Running(h, "findModelKeys") /\ req'[h].sub = req[h].sub
            /\ req'[h].keys = req[h].keys \cup AssetKeys(req[h].sub, Models)
  <2>1. CASE i \in Patterns
    BY <1>9, <1>11, <2>1
  <2>2. CASE i \in Models
    <3>1. row[i].confirmed
      <4>1. SUFFICES ASSUME NEW g \in Handlers, OfItem(g, i) PROVE FALSE
        BY <1>8
      <4>2. g # h
        BY <1>11, <4>1 DEF OfItem, Running
      <4>3. i \in InHand(g) /\ i \in InHand(h)
        BY <1>1, <1>3, <1>5, <1>11, <4>1, InHandOf
      <4>4. QED
        BY <1>1, <1>3, <4>2, <4>3, RacesInHand
    <3>2. QED
      BY <1>5, <1>11, <2>2, <3>1, AssetKeysHave
  <2>3. QED
    BY <1>3, <2>1, <2>2
<1>12. CASE /\ Removing(h) /\ Running(h, "removeAssets") /\ req'[h].sub = req[h].sub
            /\ \E key \in req[h].keys : /\ req'[h].keys = req[h].keys \ {key}
                                        /\ store' = [store EXCEPT ![key] = "none"]
  <2>1. ThumbnailKey(i) \in req[h].keys /\ ThumbnailKey(i) \in Keys
    BY <1>3, <1>9, <1>12, KeysDiffer DEF Running
  <2>2. QED
    BY <1>1, <1>2, <1>12, <2>1 DEF Typed, TypeOK
<1>13. CASE /\ req[h] = Idle /\ Running(h, "findModelKeys")'
            /\ req'[h].keys = AssetKeys(req'[h].sub, Patterns)
  <2>1. i \in Patterns
    BY <1>2, <1>13
  <2>2. row[i].confirmed
    <3>1. SUFFICES ASSUME NEW g \in Handlers, OfItem(g, i) PROVE FALSE
      BY <1>8
    <3>2. g # h /\ req'[h] # req[h]
      BY <1>2, <1>13, <3>1, IdleOp DEF OfItem, Running, Removing
    <3>3. req'[g] = req[g]
      BY <1>1, <3>2, OthersWait
    <3>4. OfItem(g, i)'
      BY <3>1, <3>3 DEF OfItem, Running
    <3>5. QED
      BY <1>6, <3>4
  <2>3. QED
    BY <1>5, <1>13, <2>1, <2>2, AssetKeysHave
<1>14. QED
  BY <1>1, <1>2, <1>10, <1>11, <1>12, <1>13, RemovingBefore

LEMMA AccountsGo ==
    ASSUME [Next]_vars
    PROVE  \/ UNCHANGED accounts
           \/ \E h \in Handlers : RemoveUser(h) /\ accounts' = accounts \ {req[h].sub}
<1>1. ASSUME NEW h \in Handlers, RemoveUser(h), accounts' # accounts
      PROVE  accounts' = accounts \ {req[h].sub}
  BY <1>1 DEF RemoveUser
<1>2. ASSUME accounts' # accounts PROVE \E h \in Handlers : RemoveUser(h)
  BY <1>2
     DEF Next, vars, Client, Create, UpdateLook, requestPreviewUpload, ClientPut, Server, ReadConfirm,
         ReadDelete, ReadRemoveUser, fetchObject, fetchRaw, Fetched, putThumbnail,
         deleteObject, confirmRow, deleteRow, findModelKeys, removeAsset, Fail
<1>3. QED
  BY <1>1, <1>2

LEMMA OrphansStep ==
    ASSUME WellFormed, ThumbnailsInv, [Next]_vars
    PROVE  NoOrphanThumbnails'
<1>1. /\ Typed /\ ItemsAreThere /\ ThumbnailsInv /\ cut \subseteq cut' /\ raced \subseteq raced'
  BY CutGrows, RacedGrows DEF WellFormed
<1>2. SUFFICES ASSUME NEW i \in Items, row'[i].row = "gone", store'[ThumbnailKey(i)] # "none",
                      i \notin cut' \cup raced',
                      ~(i \in Looks /\ row'[i].ownerId \notin accounts')
               PROVE  FALSE
  BY DEF NoOrphanThumbnails, ThumbnailKey
<1>3. row[i] # NoRow
  BY <1>1, <1>2, RowIsNew DEF NoRow, Live
<1>4. row'[i].ownerId = row[i].ownerId /\ accounts' \subseteq accounts
  BY <1>1, <1>3, RowStays, AccountsGo
<1>5. CASE ~Live(i)
  <2>1. row[i].row = "gone"
    BY <1>1, <1>3, <1>5, RowFields DEF Live
  <2>2. CASE store[ThumbnailKey(i)] # "none"
    BY <1>1, <1>2, <1>4, <2>1, <2>2 DEF ThumbnailsInv, NoOrphanThumbnails
  <2>3. CASE store[ThumbnailKey(i)] = "none"
    BY <1>1, <1>2, <1>5, <2>3, ThumbnailsArePut DEF ItemsAreThere
  <2>4. QED
    BY <2>2, <2>3
<1>6. CASE Live(i)
  <2>1. /\ row'[i] # row[i] /\ row'[i] # [row[i] EXCEPT !.confirmed = TRUE]
        /\ \A uses : row'[i] # [row[i] EXCEPT !.uses = uses]
    <3>1. row[i] \in [row : {"live"}, ownerId : Users, confirmed : BOOLEAN, uses : SUBSET Models]
      BY <1>1, <1>6, RowFields
    <3>2. QED
      BY <1>2, <3>1
  <2>2. PICK h \in Handlers :
          \/ deleteRow(h) /\ OfItem(h, i)
          \/ RemoveUser(h) /\ row[i].ownerId = req[h].sub /\ req[h].sub \notin accounts'
    <3>1. ASSUME NEW h \in Handlers
          PROVE  ~(confirmRow(h) /\ OfItem(h, i) /\ row'[i] = [row[i] EXCEPT !.confirmed = TRUE])
      BY <2>1
    <3>2. /\ row[i] # NoRow /\ row'[i] # row[i]
          /\ ~\E uses \in SUBSET Models : row'[i] = [row[i] EXCEPT !.uses = uses]
      BY <1>3, <2>1
    <3>3. QED
      BY <1>1, <3>1, <3>2, RowWriters, Zenon
  <2>3. CASE deleteRow(h) /\ OfItem(h, i)
    <3>1. req[h].todo \in Todos(i) /\ Head(req[h].todo) = "deleteRow" /\ UNCHANGED store
      BY <1>1, <2>3, TodoOfItem DEF deleteRow, At
    <3>2. StepsLeft(h) = {"deleteRow"}
      BY <3>1, TodoFacts DEF StepsLeft
    <3>3. store[ThumbnailKey(i)] = "none"
      BY <1>1, <1>2, <2>3, <3>2 DEF ThumbnailsInv, DeletionsTakeThumbnails
    <3>4. QED
      BY <1>2, <3>1, <3>3
  <2>4. CASE RemoveUser(h) /\ row[i].ownerId = req[h].sub /\ req[h].sub \notin accounts'
    <3>1. /\ Removing(h) /\ ~Running(h, "findModelKeys") /\ req[h].keys = {}
          /\ UNCHANGED store
      BY <2>4 DEF RemoveUser, Running, Removing
    <3>2. i \in Parts
      BY <1>2, <1>4, <2>4 DEF Items
    <3>3. QED
      BY <1>1, <1>2, <1>6, <2>4, <3>1, <3>2 DEF ThumbnailsInv, RemovalsTakeThumbnails
  <2>5. QED
    BY <2>2, <2>3, <2>4
<1>7. QED
  BY <1>5, <1>6

LEMMA InitThumbnails == Init => ThumbnailsInv
<1> SUFFICES ASSUME Init PROVE ThumbnailsInv
  OBVIOUS
<1>1. \A i \in Items : ~Live(i) /\ row[i].row = "none" /\ store[ThumbnailKey(i)] = "none"
  BY KeysDiffer DEF Init, Live, NoRow
<1>2. \A h \in Handlers : req[h].op = "idle"
  BY IdleOp DEF Init
<1>3. QED
  BY <1>1, <1>2
     DEF ThumbnailsInv, ThumbnailsAreExpected, DeletionsTakeThumbnails, RemovalsTakeThumbnails,
         NoOrphanThumbnails, OfItem, Running, Removing, Parts, Items

LEMMA ThumbnailsStep == WellFormed /\ ThumbnailsInv /\ [Next]_vars => ThumbnailsInv'
BY ExpectedStep, DeletionsStep, RemovalsStep, OrphansStep DEF ThumbnailsInv

\* Whoever deletes what, in whatever order, and whatever clients put meanwhile: a
\* thumbnail goes with its row, unless two handlers raced for it, one died at work on
\* it, or it is a look's and its owner's account was removed.
THEOREM ThumbnailsGoWithRows == Spec => []NoOrphanThumbnails
<1>1. ThumbnailsInv => NoOrphanThumbnails
  BY DEF ThumbnailsInv
<1>2. QED
  BY <1>1, InitThumbnails, ThumbnailsStep, AlwaysWellFormed, PTL DEF Spec

-----------------------------------------------------------------------------
(* Rows that keep what they say they have.                                 *)

\* h is to delete the row of i.
Deleting(h, i) ==
    \/ OfItem(h, i) /\ "deleteRow" \in StepsLeft(h)
    \/ i \in Parts /\ Removing(h) /\ req[h].sub = row[i].ownerId

\* i is confirmed, or will be with nothing more asked of that step.
Vetted(i, step) == row[i].confirmed \/ \E h \in Handlers : Past(h, i, step)

ThumbnailsAreKept ==
    \A i \in Items : Live(i) /\ i \notin cut \cup refused /\ Vetted(i, "putThumbnail") =>
      store[ThumbnailKey(i)] # "none" \/ \E h \in Handlers : Deleting(h, i)

\* A refused upload is deleted before its row is confirmed, never after.
RefusalsAreEarly ==
    \A h \in Handlers, i \in Parts :
      OfItem(h, i) /\ Live(i) /\ i \notin raced /\ "deleteRow" \notin StepsLeft(h) =>
        ~row[i].confirmed

ObjectsAreKept ==
    \A i \in Parts : Live(i) /\ i \notin cut \cup raced \cup refused /\ Vetted(i, "fetchObject") =>
      store[ObjectKey(i)] # "none" \/ \E h \in Handlers : Deleting(h, i)

LEMMA RefusedGrows ==
    ASSUME [Next]_vars
    PROVE  refused \subseteq refused'
BY DEF Next, Client, Server, Create, UpdateLook, requestPreviewUpload, ClientPut, ReadConfirm,
   ReadDelete, ReadRemoveUser, fetchObject, fetchRaw, Fetched, putThumbnail, confirmRow,
   deleteObject, deleteRow, findModelKeys, removeAsset, RemoveUser, Fail, vars

\* A deletion goes on until it has taken the row, or is refused it.
LEMMA DeletingStays ==
    ASSUME WellFormed, [Next]_vars, NEW h \in Handlers, NEW i \in Items,
           Live(i), Live(i)', Deleting(h, i)
    PROVE  Deleting(h, i)' \/ i \in cut' \cup refused'
<1>1. /\ Typed /\ OwnersHaveAccounts /\ row[i] # NoRow
      /\ row'[i].ownerId = row[i].ownerId
  BY RowFields, RowStays DEF WellFormed
<1>2. CASE req'[h] = req[h]
  BY <1>1, <1>2 DEF Deleting, OfItem, Running, StepsLeft, Removing
<1>3. CASE Fail(h)
  <2>1. i \in InHand(h)
    BY <1>1, InHandOf DEF Deleting
  <2>2. QED
    BY <1>1, <1>3, <2>1, CutGrows
<1>4. CASE Server(h) /\ ~Fail(h) /\ OfItem(h, i) /\ "deleteRow" \in StepsLeft(h)
  <2>1. req[h].todo \in Todos(i) /\ "confirmRow" \notin StepsLeft(h) /\ req[h].id = i
    BY <1>1, <1>4, TodoOfItem, TodoFacts DEF StepsLeft, OfItem
  <2>2. "putThumbnail" \notin StepsLeft(h) /\ ~At(h, "confirmRow")
    BY <2>1, TodoFacts DEF StepsLeft, At
  <2>3. Done(h)
    BY <1>1, <1>4, <2>1, <2>2, ItemSteps
  <2>4. CASE Head(req[h].todo) = "deleteRow"
    <3>1. SUFFICES ASSUME i \notin refused' PROVE FALSE
      OBVIOUS
    <3>2. deleteRow(h)
      BY <1>1, <1>4, <2>4, StepActions
    <3>3. row' = Gone({i})
      BY <2>1, <3>1, <3>2 DEF deleteRow
    <3>4. row'[i] = [row |-> "gone", ownerId |-> row[i].ownerId]
      BY <1>1, <3>3, GoneRows
    <3>5. QED
      BY <3>4 DEF Live
  <2>5. CASE Head(req[h].todo) # "deleteRow"
    <3>1. OfItem(h, i)' /\ StepsLeft(h)' = StepsLeft(h) \ {Head(req[h].todo)}
      BY <1>1, <1>4, <2>3, <2>5, DoneEffect
    <3>2. QED
      BY <1>4, <2>5, <3>1 DEF Deleting
  <2>6. QED
    BY <2>4, <2>5
<1>5. CASE /\ Server(h) /\ ~Fail(h)
           /\ i \in Parts /\ Removing(h) /\ req[h].sub = row[i].ownerId
  <2>1. CASE RemoveUser(h)
    <3>1. SUFFICES ASSUME i \notin refused' PROVE FALSE
      OBVIOUS
    <3>2. req[h].sub \in accounts /\ i \in OwnedBy(req[h].sub, Parts)
      BY <1>1, <1>5 DEF OwnersHaveAccounts, OwnedBy
    <3>3. row' = Gone(OwnedBy(req[h].sub, Items)) /\ i \in OwnedBy(req[h].sub, Items)
      BY <1>5, <2>1, <3>1, <3>2 DEF RemoveUser, OwnedBy
    <3>4. row'[i] = IF i \in OwnedBy(req[h].sub, Items)
                    THEN [row |-> "gone", ownerId |-> row[i].ownerId] ELSE row[i]
      BY <1>1, <3>3, GoneRows DEF OwnedBy
    <3>5. QED
      BY <3>3, <3>4 DEF Live
  <2>2. CASE ~RemoveUser(h)
    <3>1. Running(h, "removeAssets")' /\ req'[h].sub = req[h].sub
      BY <1>1, <1>5, <2>2, RemovalEffect
    <3>2. QED
      BY <1>1, <1>5, <3>1 DEF Deleting, Removing, Running
  <2>3. QED
    BY <2>1, <2>2
<1>6. QED
  BY <1>1, <1>2, <1>3, <1>4, <1>5, OwnSteps DEF Deleting

\* What is vetted now was, or has just been.
LEMMA VettedBefore ==
    ASSUME WellFormed, [Next]_vars, NEW i \in Items, Live(i)',
           NEW step \in {"fetchObject", "putThumbnail"}, step = "fetchObject" => i \in Parts,
           Vetted(i, step)'
    PROVE  /\ Live(i)
           /\ \/ Vetted(i, step)
              \/ step = "putThumbnail" /\ store'[ThumbnailKey(i)] = "typed"
              \/ step = "fetchObject" /\ store'[ObjectKey(i)] = "typed"
<1>1. Typed /\ ItemsAreThere
  BY DEF WellFormed
<1>2. CASE \E h \in Handlers : Past(h, i, step)'
  <2>1. PICK h \in Handlers : Past(h, i, step)'
    BY <1>2
  <2>2. row[i] # NoRow
    <3>1. SUFFICES ASSUME row[i] = NoRow PROVE FALSE
      OBVIOUS
    <3>2. req' = req
      BY <1>1, <3>1, RowIsNew DEF Live, NoRow
    <3>3. OfItem(h, i)
      BY <2>1, <3>2 DEF Past, OfItem, Running
    <3>4. QED
      BY <1>1, <3>1, <3>3 DEF ItemsAreThere
  <2>3. QED
    BY <1>1, <2>1, <2>2, RowStays, PastBefore DEF Vetted
<1>3. CASE row'[i].confirmed
  <2>1. row[i] # NoRow
    BY <1>1, <1>3, RowIsNew DEF Live, NoRow
  <2>2. Live(i)
    BY <1>1, <2>1, RowStays
  <2>3. CASE row'[i] # row[i]
    <3>1. row'[i] # [row |-> "gone", ownerId |-> row[i].ownerId]
      BY DEF Live
    <3>a. CASE row[i].confirmed
      BY <2>2, <3>a DEF Vetted
    <3>b. ASSUME ~row[i].confirmed, NEW uses PROVE row'[i] # [row[i] EXCEPT !.uses = uses]
      <4>1. row[i] \in [row : {"live"}, ownerId : Users, confirmed : BOOLEAN,
                        uses : SUBSET Models]
        BY <1>1, <2>2, RowFields
      <4>2. [row[i] EXCEPT !.uses = uses].confirmed = row[i].confirmed
        BY <4>1
      <4>3. QED
        BY <1>3, <3>b, <4>2
    <3>c. SUFFICES ASSUME ~row[i].confirmed
                   PROVE  \/ Vetted(i, step)
                          \/ step = "putThumbnail" /\ store'[ThumbnailKey(i)] = "typed"
                          \/ step = "fetchObject" /\ store'[ObjectKey(i)] = "typed"
      BY <2>2, <3>a
    <3>2. PICK h \in Handlers : confirmRow(h) /\ OfItem(h, i)
      BY <1>1, <2>1, <2>3, <3>1, <3>b, <3>c, RowWriters
    <3>3. req[h].todo \in Todos(i) /\ Head(req[h].todo) = "confirmRow"
      BY <1>1, <3>2, TodoOfItem DEF confirmRow, At
    <3>4. StepsLeft(h) = {"confirmRow"}
      BY <3>3, TodoFacts DEF StepsLeft
    <3>5. QED
      BY <2>2, <3>2, <3>4 DEF Vetted, Past
  <2>4. QED
    BY <1>3, <2>2, <2>3 DEF Vetted
<1>4. QED
  BY <1>2, <1>3 DEF Vetted

\* Whoever deletes an asset of an account is to delete its row as well.
LEMMA AssetRemovers ==
    ASSUME WellFormed, NEW h \in Handlers, NEW i \in Items, removeAsset(h),
           ThumbnailKey(i) \in req[h].keys \/ ObjectKey(i) \in req[h].keys
    PROVE  Deleting(h, i)
<1>1. Removing(h) /\ AssetsAreOwned
  BY DEF removeAsset, Running, Removing, WellFormed
<1>2. PICK key \in req[h].keys : key \in {ThumbnailKey(i), ObjectKey(i)}
  OBVIOUS
<1>3. PICK j \in Parts : row[j].ownerId = req[h].sub /\ key \in {ObjectKey(j), ThumbnailKey(j)}
  BY <1>1 DEF AssetsAreOwned
<1>4. i = j
  BY <1>2, <1>3, KeysDiffer
<1>5. QED
  BY <1>1, <1>3, <1>4 DEF Deleting

LEMMA ThumbnailsKeptStep ==
    ASSUME WellFormed, ThumbnailsAreKept, [Next]_vars
    PROVE  ThumbnailsAreKept'
<1>1. Typed /\ ThumbnailsAreTheServers /\ cut \subseteq cut' /\ refused \subseteq refused'
  BY CutGrows, RefusedGrows DEF WellFormed
<1>2. SUFFICES ASSUME NEW i \in Items, Live(i)', i \notin cut' \cup refused',
                      Vetted(i, "putThumbnail")',
                      store'[ThumbnailKey(i)] = "none"
               PROVE  \E h \in Handlers : Deleting(h, i)'
  BY DEF ThumbnailsAreKept, ThumbnailKey
<1>3. Live(i) /\ Vetted(i, "putThumbnail")
  BY <1>2, VettedBefore
<1>4. \E h \in Handlers : Deleting(h, i)
  <2>1. CASE store[ThumbnailKey(i)] = "none"
    BY <1>1, <1>2, <1>3, <2>1 DEF ThumbnailsAreKept
  <2>2. CASE store[ThumbnailKey(i)] # "none"
    <3>1. PICK h \in Handlers :
            \/ OfItem(h, i) /\ At(h, "deleteThumbnail")
            \/ removeAsset(h) /\ ThumbnailKey(i) \in req[h].keys
      BY <1>1, <1>2, <2>2, ThumbnailWriters
    <3>2. CASE OfItem(h, i) /\ At(h, "deleteThumbnail")
      <4>1. "deleteThumbnail" \in StepsLeft(h) /\ "deleteRow" \in StepsLeft(h)
        BY <1>1, <3>2, TodoOfItem, TodoFacts DEF At, StepsLeft
      <4>2. QED
        BY <3>2, <4>1 DEF Deleting
    <3>3. QED
      BY <3>1, <3>2, AssetRemovers
  <2>3. QED
    BY <2>1, <2>2
<1>5. QED
  BY <1>2, <1>3, <1>4, DeletingStays

LEMMA ConfirmReturns ==
    ASSUME Typed, NEW h \in Handlers, confirmRow(h)
    PROVE  req'[h] = Idle
<1>1. req[h].id \in Items /\ req[h].todo \in Todos(req[h].id) /\ Head(req[h].todo) = "confirmRow"
  BY AtItem DEF confirmRow
<1>2. Tail(req[h].todo) = <<>>
  BY <1>1, TodoFacts
<1>3. QED
  BY <1>2 DEF confirmRow, Done, Continuing, Return, Proceed, Typed, TypeOK

LEMMA RefusalsStep ==
    ASSUME WellFormed, RefusalsAreEarly, [Next]_vars
    PROVE  RefusalsAreEarly'
<1>1. /\ Typed /\ Typed' /\ RacesAreSeen /\ RacesAreSeen' /\ ItemsAreThere
      /\ raced \subseteq raced'
  BY RacedGrows, TypedStep DEF WellFormed
<1>2. SUFFICES ASSUME NEW h \in Handlers, NEW i \in Parts, OfItem(h, i)', Live(i)',
                      i \notin raced', "deleteRow" \notin StepsLeft(h)', row'[i].confirmed
               PROVE  FALSE
  BY DEF RefusalsAreEarly
<1>3. i \in Items
  BY DEF Items
<1>4. CASE OfItem(h, i) /\ "deleteRow" \notin StepsLeft(h)
  <2>1. Live(i) /\ row[i] # NoRow
    BY <1>1, <1>2, <1>3, <1>4, RowStays DEF ItemsAreThere
  <2>2. ~row[i].confirmed
    BY <1>1, <1>2, <1>4, <2>1 DEF RefusalsAreEarly
  <2>3. row'[i] # row[i] /\ row'[i] # [row |-> "gone", ownerId |-> row[i].ownerId]
    BY <1>2, <2>2 DEF Live
  <2>4. PICK g \in Handlers : confirmRow(g) /\ OfItem(g, i)
    BY <1>1, <1>3, <2>1, <2>3, RowWriters, UploadsAssumption
  <2>5. g # h
    BY <1>1, <1>2, <2>4, ConfirmReturns, IdleOp DEF OfItem, Running
  <2>6. QED
    BY <1>1, <1>2, <1>3, <1>4, <2>4, <2>5, InHandOf, RacesInHand
<1>5. CASE OfItem(h, i) /\ req'[h] = req[h]
  BY <1>2, <1>4, <1>5 DEF StepsLeft
<1>6. CASE /\ OfItem(h, i) /\ StepsLeft(h)' = StepsLeft(h) \ {Head(req[h].todo)}
           /\ Head(req[h].todo) # "deleteRow"
  BY <1>2, <1>4, <1>6
<1>7. CASE StepsLeft(h)' = StepsOf(deleteSteps(i))
  BY <1>2, <1>3, <1>7, DeleteTodos
<1>8. QED
  BY <1>1, <1>2, <1>3, <1>4, <1>5, <1>6, <1>7, ItemHistory

LEMMA ObjectsKeptStep ==
    ASSUME WellFormed, RefusalsAreEarly, ObjectsAreKept, [Next]_vars
    PROVE  ObjectsAreKept'
<1>1. /\ Typed /\ RacesAreSeen
      /\ cut \subseteq cut' /\ raced \subseteq raced' /\ refused \subseteq refused'
  BY CutGrows, RacedGrows, RefusedGrows DEF WellFormed
<1>2. SUFFICES ASSUME NEW i \in Parts, Live(i)', i \notin cut' \cup raced' \cup refused',
                      Vetted(i, "fetchObject")', store'[ObjectKey(i)] = "none"
               PROVE  \E h \in Handlers : Deleting(h, i)'
  BY DEF ObjectsAreKept, ObjectKey
<1>3. i \in Items /\ Live(i) /\ Vetted(i, "fetchObject")
  <2>1. i \in Items
    BY DEF Items
  <2>2. QED
    BY <1>2, <2>1, VettedBefore
<1>4. \E h \in Handlers : Deleting(h, i)
  <2>1. CASE store[ObjectKey(i)] = "none"
    BY <1>1, <1>2, <1>3, <2>1 DEF ObjectsAreKept
  <2>2. CASE store[ObjectKey(i)] # "none"
    <3>1. PICK h \in Handlers :
            \/ OfItem(h, i) /\ At(h, "deleteObject")
            \/ removeAsset(h) /\ ObjectKey(i) \in req[h].keys
      BY <1>1, <1>2, <2>2, ObjectLosers
    <3>2. CASE OfItem(h, i) /\ At(h, "deleteObject") /\ "deleteRow" \in StepsLeft(h)
      BY <3>2 DEF Deleting
    <3>3. CASE OfItem(h, i) /\ At(h, "deleteObject") /\ "deleteRow" \notin StepsLeft(h)
      <4>1. ~row[i].confirmed
        BY <1>1, <1>2, <1>3, <3>3 DEF RefusalsAreEarly
      <4>2. PICK g \in Handlers : OfItem(g, i) /\ "confirmRow" \in StepsLeft(g)
        BY <1>3, <4>1 DEF Vetted, Past
      <4>3. "confirmRow" \notin StepsLeft(h)
        BY <1>1, <1>3, <3>3, TodoOfItem, TodoFacts DEF At, StepsLeft
      <4>4. QED
        BY <1>1, <1>2, <1>3, <3>3, <4>2, <4>3, InHandOf, RacesInHand
    <3>4. QED
      BY <1>3, <3>1, <3>2, <3>3, AssetRemovers
  <2>3. QED
    BY <2>1, <2>2
<1>5. QED
  BY <1>2, <1>3, <1>4, DeletingStays

LEMMA InitKept == Init => ThumbnailsAreKept /\ RefusalsAreEarly /\ ObjectsAreKept
<1> SUFFICES ASSUME Init PROVE ThumbnailsAreKept /\ RefusalsAreEarly /\ ObjectsAreKept
  OBVIOUS
<1>1. \A i \in Items : ~Live(i)
  BY DEF Init, Live, NoRow
<1>2. QED
  BY <1>1 DEF ThumbnailsAreKept, RefusalsAreEarly, ObjectsAreKept, Items

LEMMA KeptIsHad ==
    ASSUME WellFormed
    PROVE  /\ ThumbnailsAreKept => ConfirmedRowsHaveThumbnails
           /\ ObjectsAreKept => RowsHaveTheirObjects
<1>1. ASSUME NEW i \in Items, Live(i), ~Busy(i), NEW h \in Handlers, Deleting(h, i) PROVE FALSE
  BY <1>1, InHandOf DEF Deleting, Busy, WellFormed
<1>2. ThumbnailsAreKept => ConfirmedRowsHaveThumbnails
  BY <1>1 DEF ThumbnailsAreKept, ConfirmedRowsHaveThumbnails, Vetted
<1>3. ObjectsAreKept => RowsHaveTheirObjects
  BY <1>1 DEF ObjectsAreKept, RowsHaveTheirObjects, Vetted, Items
<1>4. QED
  BY <1>2, <1>3

\* A confirmed row that no handler is, or died, at work on has its thumbnail, however
\* confirmations, deletions and removals of accounts race, but where looks refused a
\* deletion after it had taken the objects.
THEOREM RowsKeepTheirThumbnails == Spec => []ConfirmedRowsHaveThumbnails
<1>1. WellFormed /\ ThumbnailsAreKept /\ [Next]_vars => ThumbnailsAreKept'
  BY ThumbnailsKeptStep
<1>2. WellFormed /\ ThumbnailsAreKept => ConfirmedRowsHaveThumbnails
  BY KeptIsHad
<1>3. Init => ThumbnailsAreKept
  BY InitKept
<1>4. QED
  BY <1>1, <1>2, <1>3, AlwaysWellFormed, PTL DEF Spec

\* Of parts, the same of the upload itself, unless two handlers raced for the part:
\* a refused upload is deleted before its row is confirmed, never after.
THEOREM PartsKeepTheirObjects == Spec => []RowsHaveTheirObjects
<1>1. /\ WellFormed /\ RefusalsAreEarly /\ ObjectsAreKept /\ [Next]_vars
           => ObjectsAreKept'
      /\ WellFormed /\ RefusalsAreEarly /\ [Next]_vars => RefusalsAreEarly'
  BY ObjectsKeptStep, RefusalsStep
<1>2. WellFormed /\ ObjectsAreKept => RowsHaveTheirObjects
  BY KeptIsHad
<1>3. Init => RefusalsAreEarly /\ ObjectsAreKept
  BY InitKept
<1>4. QED
  BY <1>1, <1>2, <1>3, AlwaysWellFormed, PTL DEF Spec

=============================================================================
