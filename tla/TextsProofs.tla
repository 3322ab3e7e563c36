----------------------------- MODULE TextsProofs -----------------------------
(***************************************************************************)
(* What the edits of Texts do to any text, for any name.                   *)
(***************************************************************************)
EXTENDS SelectionProofs

(* Line i is the one the check looks at. A text with a mechanism_drivers   *)
(* line has such an i, being finite.                                       *)
FirstDrivers(text, i) ==
    i \in DriversLines(text) /\ \A j \in DriversLines(text) : i <= j

(* The names on a line that is joined anew.                                *)
LEMMA AddNameNames ==
  ASSUME NEW line \in AnyLine, NEW d \in Name
  PROVE  /\ AddName(line, d) \in AnyLine
         /\ AddName(line, d).kind = line.kind
         /\ Names(AddName(line, d)) = Names(line) \cup {d}
         /\ AddName(AddName(line, d), d) = AddName(line, d)
  <1>1. CASE HasName(line.names, d)
    <2>1. AddName(line, d) = [line EXCEPT !.tidy = TRUE]
      BY <1>1 DEF AddName, AnyLine
    <2>2. /\ AddName(line, d) \in AnyLine /\ AddName(line, d).kind = line.kind
          /\ AddName(line, d).names = line.names /\ AddName(line, d).tidy = TRUE
      BY <2>1 DEF AnyLine
    <2>3. AddName(AddName(line, d), d) = [AddName(line, d) EXCEPT !.tidy = TRUE]
      BY <1>1, <2>2 DEF AddName, AnyLine
    <2>4. AddName(AddName(line, d), d) = AddName(line, d)
      BY <2>2, <2>3 DEF AnyLine
    <2>5. d \in Names(line)
      BY <1>1 DEF Names, HasName
    <2>6. Names(AddName(line, d)) = Names(line)
      BY <2>2 DEF Names
    <2> QED BY <2>2, <2>4, <2>5, <2>6
  <1>2. CASE ~HasName(line.names, d)
    <2> DEFINE more == Append(line.names, d)
    <2>1. AddName(line, d) = [line EXCEPT !.names = more, !.tidy = TRUE]
      BY <1>2 DEF AddName, AnyLine
    <2>2. /\ more \in Seq(Name) /\ Len(more) = Len(line.names) + 1
          /\ more[Len(line.names) + 1] = d
          /\ \A k \in 1..Len(line.names) : more[k] = line.names[k]
      BY DEF AnyLine
    <2>3. HasName(more, d)
      BY <2>2 DEF HasName, AnyLine
    <2>4. {more[k] : k \in DOMAIN more} = {line.names[k] : k \in DOMAIN line.names} \cup {d}
      BY <2>2 DEF AnyLine
    <2> HIDE DEF more
    <2>5. /\ AddName(line, d) \in AnyLine /\ AddName(line, d).kind = line.kind
          /\ AddName(line, d).names = more /\ AddName(line, d).tidy = TRUE
      BY <2>1, <2>2 DEF AnyLine
    <2>6. AddName(AddName(line, d), d) = AddName(line, d)
      BY <2>1, <2>3, <2>5 DEF AddName, AnyLine
    <2> QED BY <2>4, <2>5, <2>6 DEF Names
  <1> QED BY <1>1, <1>2

(* add_driver_to_ml2_conf touches the mechanism_drivers lines, and adds the *)
(* name to each.                                                           *)
LEMMA AddDriverLines ==
  ASSUME NEW text \in AnyText, NEW d \in Name
  PROVE  /\ AddDriver(text, d) \in AnyText
         /\ AddDriver(text, d).newline = text.newline
         /\ DOMAIN AddDriver(text, d).lines = DOMAIN text.lines
         /\ DriversLines(AddDriver(text, d)) = DriversLines(text)
         /\ \A i \in DOMAIN text.lines :
               AddDriver(text, d).lines[i] =
                  IF i \in DriversLines(text) THEN AddName(text.lines[i], d) ELSE text.lines[i]
  <1> DEFINE lines == [i \in DOMAIN text.lines |->
                IF i \in DriversLines(text) THEN AddName(text.lines[i], d) ELSE text.lines[i]]
  <1>1. AddDriver(text, d) = [text EXCEPT !.lines = lines]
    BY DEF AddDriver, AnyText
  <1>2. \A i \in DOMAIN text.lines :
           text.lines[i] \in AnyLine /\ lines[i] \in AnyLine /\ lines[i].kind = text.lines[i].kind
    BY AddNameNames DEF AnyText
  <1>3. lines \in Seq(AnyLine) /\ DOMAIN lines = DOMAIN text.lines
    BY <1>2 DEF AnyText
  <1>4. /\ AddDriver(text, d).lines = lines /\ AddDriver(text, d).newline = text.newline
        /\ AddDriver(text, d) \in AnyText
    BY <1>1, <1>3 DEF AnyText
  <1>5. DriversLines(AddDriver(text, d)) = DriversLines(text)
    BY <1>2, <1>3, <1>4 DEF DriversLines
  <1> QED BY <1>3, <1>4, <1>5

(* After it the check finds the driver, and of the others exactly those it *)
(* found before: the first line decides both times.                        *)
THEOREM AddDriverAddsOne ==
  ASSUME NEW text \in AnyText, NEW d \in Name, NEW e \in Name,
         NEW first, FirstDrivers(text, first)
  PROVE  Includes(AddDriver(text, d), e) <=> Includes(text, e) \/ e = d
  <1> DEFINE after == AddDriver(text, d)
  <1>1. DriversLines(after) = DriversLines(text) /\ first \in DOMAIN text.lines
    BY AddDriverLines DEF FirstDrivers, DriversLines
  <1>2. after.lines[first] = AddName(text.lines[first], d) /\ text.lines[first] \in AnyLine
    BY <1>1, AddDriverLines DEF FirstDrivers, AnyText
  <1>3. Names(after.lines[first]) = Names(text.lines[first]) \cup {d}
    BY <1>2, AddNameNames
  <1>4. \A i \in DriversLines(text) : (\A j \in DriversLines(text) : i <= j) => i = first
    <2>1. DriversLines(text) \subseteq Nat
      BY DEF DriversLines, AnyText
    <2> QED BY <2>1 DEF FirstDrivers
  <1> HIDE DEF after
  <1>5. Includes(after, e) <=> e \in Names(after.lines[first])
    BY <1>1, <1>4 DEF Includes, FirstDrivers
  <1>6. Includes(text, e) <=> e \in Names(text.lines[first])
    BY <1>4 DEF Includes, FirstDrivers
  <1> QED BY <1>3, <1>5, <1>6 DEF after

(* A repair that is tried again finds nothing to patch: what it wrote is a *)
(* fixed point, however the chart had written the lines.                   *)
THEOREM AddDriverOnce ==
  ASSUME NEW text \in AnyText, NEW d \in Name
  PROVE  AddDriver(AddDriver(text, d), d) = AddDriver(text, d)
  <1> DEFINE once == AddDriver(text, d)
             twice == AddDriver(once, d)
  <1>1. once \in AnyText /\ twice \in AnyText /\ twice.newline = once.newline
        /\ DOMAIN twice.lines = DOMAIN once.lines /\ DOMAIN once.lines = DOMAIN text.lines
    BY AddDriverLines
  <1>2. ASSUME NEW i \in DOMAIN text.lines PROVE twice.lines[i] = once.lines[i]
    <2>1. text.lines[i] \in AnyLine
      BY DEF AnyText
    <2>2. CASE i \in DriversLines(text)
      <3>1. once.lines[i] = AddName(text.lines[i], d)
        BY <2>2, AddDriverLines
      <3>2. twice.lines[i] = AddName(once.lines[i], d)
        BY <1>1, <2>2, AddDriverLines
      <3> QED BY <2>1, <3>1, <3>2, AddNameNames
    <2>3. CASE i \notin DriversLines(text)
      BY <1>1, <2>3, AddDriverLines
    <2> QED BY <2>2, <2>3
  <1> HIDE DEF once, twice
  <1>3. twice.lines = once.lines
    BY <1>1, <1>2 DEF AnyText
  <1>4. twice = once
    BY <1>1, <1>3 DEF AnyText
  <1> QED BY <1>4 DEF once, twice

-----------------------------------------------------------------------------
(* The edits that take an entry out again.                                 *)

(* The names on a line that a driver's name was filtered from.             *)
LEMMA RemoveNameNames ==
  ASSUME NEW line \in AnyLine, NEW d
  PROVE  /\ RemoveName(line, d) \in AnyLine
         /\ RemoveName(line, d).kind = line.kind
         /\ RemoveName(line, d).names = Dropping(line.names, {d})
         /\ RemoveName(line, d).tidy = TRUE
         /\ Names(RemoveName(line, d)) = Names(line) \ {d}
  <1> DEFINE one == {d}
             rest == Dropping(line.names, one)
  <1>1. /\ rest \in Seq(Name)
        /\ \A x : (\E j \in DOMAIN rest : rest[j] = x)
                 <=> (\E i \in DOMAIN line.names : line.names[i] = x) /\ x \notin one
    <2> HIDE DEF one
    <2>1. line.names \in Seq(Name)
      BY DEF AnyLine
    <2> QED BY <2>1, DroppingNames
  <1>2. RemoveName(line, d) = [line EXCEPT !.names = rest, !.tidy = TRUE]
    BY DEF RemoveName, AnyLine
  <1> HIDE DEF rest
  <1>3. /\ RemoveName(line, d) \in AnyLine /\ RemoveName(line, d).kind = line.kind
        /\ RemoveName(line, d).names = rest /\ RemoveName(line, d).tidy = TRUE
    BY <1>1, <1>2 DEF AnyLine
  <1>4. Names(RemoveName(line, d)) = Names(line) \ {d}
    <2> HIDE DEF one
    <2>1. \A x : x \in Names(RemoveName(line, d)) <=> x \in Names(line) /\ x \notin one
      BY <1>1, <1>3 DEF Names
    <2> QED BY <2>1 DEF one
  <1> QED BY <1>3, <1>4 DEF rest

(* remove_driver_from_ml2_conf touches the mechanism_drivers lines, all of *)
(* them, and no others.                                                    *)
LEMMA RemoveDriverLines ==
  ASSUME NEW text \in AnyText, NEW d
  PROVE  /\ RemoveDriver(text, d) \in AnyText
         /\ RemoveDriver(text, d).newline = text.newline
         /\ DOMAIN RemoveDriver(text, d).lines = DOMAIN text.lines
         /\ DriversLines(RemoveDriver(text, d)) = DriversLines(text)
         /\ \A i \in DOMAIN text.lines :
               RemoveDriver(text, d).lines[i] =
                  IF i \in DriversLines(text) THEN RemoveName(text.lines[i], d) ELSE text.lines[i]
  <1> DEFINE lines == [i \in DOMAIN text.lines |->
                IF i \in DriversLines(text) THEN RemoveName(text.lines[i], d) ELSE text.lines[i]]
  <1>1. RemoveDriver(text, d) = [text EXCEPT !.lines = lines]
    BY DEF RemoveDriver, AnyText
  <1>2. ASSUME NEW i \in DOMAIN text.lines
        PROVE  text.lines[i] \in AnyLine /\ lines[i] \in AnyLine
               /\ lines[i].kind = text.lines[i].kind
    <2>1. text.lines[i] \in AnyLine
      BY DEF AnyText
    <2> QED BY <2>1, RemoveNameNames
  <1>3. lines \in Seq(AnyLine) /\ DOMAIN lines = DOMAIN text.lines
    BY <1>2 DEF AnyText
  <1>4. /\ RemoveDriver(text, d).lines = lines /\ RemoveDriver(text, d).newline = text.newline
        /\ RemoveDriver(text, d) \in AnyText
    BY <1>1, <1>3 DEF AnyText
  <1>5. DriversLines(RemoveDriver(text, d)) = DriversLines(text)
    BY <1>2, <1>3, <1>4 DEF DriversLines
  <1> QED BY <1>3, <1>4, <1>5

(* A text that has mechanism_drivers lines has a first one.                *)
LEMMA FirstDriversExists ==
  ASSUME NEW text \in AnyText, DriversLines(text) # {}
  PROVE  \E i \in DriversLines(text) : FirstDrivers(text, i)
  <1>1. DriversLines(text) \in SUBSET (1..Len(text.lines)) /\ Len(text.lines) \in Nat
    BY DEF DriversLines, AnyText
  <1> QED BY <1>1, FirstPosition DEF FirstDrivers

(* The check asks the first line, so after a removal, from all lines, it   *)
(* finds exactly the others.                                               *)
THEOREM RemoveDriverRemovesOne ==
  ASSUME NEW text \in AnyText, NEW d, NEW e
  PROVE  Includes(RemoveDriver(text, d), e) <=> Includes(text, e) /\ e # d
  <1>1. ASSUME NEW i \in DriversLines(text)
        PROVE  Names(RemoveDriver(text, d).lines[i]) = Names(text.lines[i]) \ {d}
    <2>1. text.lines[i] \in AnyLine /\ i \in DOMAIN text.lines
      BY DEF AnyText, DriversLines
    <2>2. RemoveDriver(text, d).lines[i] = RemoveName(text.lines[i], d)
      BY <2>1, RemoveDriverLines
    <2> QED BY <2>1, <2>2, RemoveNameNames
  <1>2. DriversLines(RemoveDriver(text, d)) = DriversLines(text)
    BY RemoveDriverLines
  <1> QED BY <1>1, <1>2, Zenon DEF Includes

-----------------------------------------------------------------------------
(* Sections. Lines keep theirs when lines are put in or taken out around   *)
(* them, in order, as long as their header stays and none comes between.   *)
LastHeaderBefore(text, i, h) ==
    h \in Headers(text) /\ h <= i /\ \A k \in Headers(text) : k <= h \/ k > i

LEMMA HeadersBefore ==
  ASSUME NEW text \in AnyText, NEW i \in DOMAIN text.lines, NEW h \in Headers(text), h <= i
  PROVE  \E last \in Headers(text) : LastHeaderBefore(text, i, last)
  <1> DEFINE n == Len(text.lines)
             from == {k \in 1..n : n + 1 - k \in Headers(text) /\ n + 1 - k <= i}
  <1>1. n \in Nat /\ DOMAIN text.lines = 1..n /\ i \in 1..n /\ h \in 1..n
    BY DEF AnyText, Headers
  <1>2. \A k \in Headers(text) : k \in 1..n /\ n + 1 - k \in 1..n /\ n + 1 - (n + 1 - k) = k
    BY <1>1 DEF Headers
  <1>3. n + 1 - h \in from /\ from \in SUBSET (1..n)
    BY <1>2
  <1> HIDE DEF n
  <1>4. PICK first \in from : \A k \in from : first <= k
    <2> HIDE DEF from
    <2> QED BY <1>1, <1>3, FirstPosition
  <1> DEFINE last == n + 1 - first
  <1>5. last \in Headers(text) /\ last <= i
    BY <1>1, <1>4
  <1>6. ASSUME NEW k \in Headers(text), ~(k > i) PROVE k <= last
    <2>1. n + 1 - k \in from
      BY <1>1, <1>2, <1>6
    <2>2. first <= n + 1 - k
      BY <1>4, <2>1
    <2> QED BY <1>1, <1>2, <2>2
  <1> QED BY <1>5, <1>6 DEF LastHeaderBefore

LEMMA SectionsMoved ==
  ASSUME NEW s \in AnyText, NEW t \in AnyText, NEW at \in SUBSET DOMAIN s.lines,
         NEW move \in [at -> DOMAIN t.lines],
         \A j, k \in at : j < k => move[j] < move[k],
         \A k \in at : s.lines[k].kind = "header" \/ t.lines[move[k]].kind = "header"
                          => s.lines[k] = t.lines[move[k]],
         NEW i \in at,
         \A h \in Headers(s) : LastHeaderBefore(s, i, h) => h \in at,
         \A h \in Headers(t) : h > move[i] \/ \E k \in at : move[k] = h,
         NEW name
  PROVE  InSection(t, move[i], name) <=> InSection(s, i, name)
  <1>1. /\ \A k \in at : k \in Int /\ move[k] \in Int /\ k \in DOMAIN s.lines
                         /\ move[k] \in DOMAIN t.lines
        /\ DOMAIN s.lines \subseteq Int /\ DOMAIN t.lines \subseteq Int
    BY DEF AnyText
  <1>2. ASSUME NEW j \in at, NEW k \in at PROVE j <= k <=> move[j] <= move[k]
    <2>1. j < k \/ j = k \/ k < j
      BY <1>1
    <2>2. (j < k => move[j] < move[k]) /\ (k < j => move[k] < move[j])
      OBVIOUS
    <2> QED BY <1>1, <2>1, <2>2
  <1>3. \A k \in at : (k \in Headers(s) <=> move[k] \in Headers(t))
                      /\ (k \in Headers(s) => s.lines[k] = t.lines[move[k]])
    BY <1>1 DEF Headers
  <1>4. ASSUME InSection(s, i, name) PROVE InSection(t, move[i], name)
    <2>1. PICK h \in Headers(s) : h <= i /\ s.lines[h] = Header(name)
                                  /\ \A k \in Headers(s) : k <= h \/ k > i
      BY <1>4 DEF InSection
    <2>2. h \in at
      BY <2>1 DEF LastHeaderBefore
    <2>3. move[h] \in Headers(t) /\ move[h] <= move[i] /\ t.lines[move[h]] = Header(name)
      BY <1>2, <1>3, <2>1, <2>2
    <2>4. ASSUME NEW l \in Headers(t) PROVE l <= move[h] \/ l > move[i]
      <3>1. CASE l > move[i]
        BY <3>1
      <3>2. CASE ~(l > move[i])
        <4>1. PICK k \in at : move[k] = l
          BY <3>2
        <4>2. k \in Headers(s)
          BY <1>3, <4>1
        <4>3. k <= h \/ k > i
          BY <2>1, <4>2
        <4>4. k <= h => move[k] <= move[h]
          BY <1>2, <2>2
        <4>5. k > i => move[k] > move[i]
          BY <1>1
        <4> QED BY <4>1, <4>3, <4>4, <4>5
      <3> QED BY <3>1, <3>2
    <2> QED BY <2>3, <2>4 DEF InSection
  <1>5. ASSUME InSection(t, move[i], name) PROVE InSection(s, i, name)
    <2>1. PICK l \in Headers(t) : l <= move[i] /\ t.lines[l] = Header(name)
                                  /\ \A k \in Headers(t) : k <= l \/ k > move[i]
      BY <1>5 DEF InSection
    <2>2. PICK h \in at : move[h] = l
      <3>1. l \in Int /\ move[i] \in Int
        BY <1>1 DEF Headers
      <3> QED BY <2>1, <3>1
    <2>3. h \in Headers(s) /\ s.lines[h] = Header(name) /\ h <= i
      BY <1>2, <1>3, <2>1, <2>2
    <2>4. PICK last \in Headers(s) : LastHeaderBefore(s, i, last)
      BY <2>3, HeadersBefore
    <2>5. last \in at /\ last <= i /\ h <= last
      <3>1. h <= last \/ h > i
        BY <2>3, <2>4 DEF LastHeaderBefore
      <3>2. h \in Int /\ i \in Int
        BY <1>1
      <3> QED BY <2>3, <2>4, <3>1, <3>2 DEF LastHeaderBefore
    <2>6. move[last] <= l
      <3>1. move[last] \in Headers(t) /\ move[last] <= move[i]
        BY <1>2, <1>3, <2>5, <2>4
      <3>2. move[last] \in Int /\ move[i] \in Int
        BY <1>1, <2>5
      <3> QED BY <2>1, <3>1, <3>2
    <2>7. last = h
      <3>1. last <= h
        BY <1>2, <2>2, <2>5, <2>6
      <3>2. last \in Int /\ h \in Int
        BY <1>1, <2>5
      <3> QED BY <2>5, <3>1, <3>2
    <2> QED BY <2>3, <2>4, <2>7 DEF LastHeaderBefore, InSection
  <1> QED BY <1>4, <1>5

-----------------------------------------------------------------------------
(* neutron-server.sh *)

LEMMA LinesTyped ==
  ASSUME NEW kind \in Kind
  PROVE  /\ Plain(kind) \in AnyLine /\ Plain(kind).kind = kind /\ Blank \in AnyLine
         /\ \A name \in Name : Header(name) \in AnyLine
  <1>1. <<>> \in Seq(Name) /\ \A name \in Name : <<name>> \in Seq(Name)
    OBVIOUS
  <1>2. Plain(kind) \in AnyLine /\ Plain(kind).kind = kind
    BY <1>1 DEF Plain, Line, AnyLine
  <1>3. Blank \in AnyLine
    <2>1. "blank" \in Kind
      BY DEF Kind
    <2>2. Blank = [kind |-> "blank", names |-> <<>>, tidy |-> TRUE]
      BY DEF Blank, Plain, Line
    <2> QED BY <1>1, <2>1, <2>2 DEF AnyLine
  <1>4. ASSUME NEW name \in Name PROVE Header(name) \in AnyLine
    <2>1. Header(name) = [kind |-> "header", names |-> <<name>>, tidy |-> TRUE]
      BY DEF Header, Line
    <2>2. <<name>> \in Seq(Name)
      BY <1>1
    <2>3. "header" \in Kind
      BY DEF Kind
    <2> QED BY <2>1, <2>2, <2>3 DEF AnyLine
  <1> QED BY <1>2, <1>3, <1>4

(* One line is put in after the first anchor, and nothing else moves.      *)
LEMMA AddFlagLines ==
  ASSUME NEW text \in AnyText, ~HasFlag(text), Anchors(text) # {}
  PROVE  \E i \in Anchors(text) :
           LET after == AddFlag(text)
               legacy == text.lines[i].kind = "ml2_conf"
           IN  /\ after \in AnyText
               /\ after.newline = text.newline
               /\ DOMAIN after.lines = 1..(Len(text.lines) + 1)
               /\ \A k \in DOMAIN text.lines : k < i => after.lines[k] = text.lines[k]
               /\ \A k \in DOMAIN text.lines : k > i => after.lines[k + 1] = text.lines[k]
               /\ after.lines[i] = IF legacy THEN Plain("ml2_conf \\") ELSE text.lines[i]
               /\ after.lines[i + 1] = IF legacy THEN Plain("flag") ELSE Plain("confs+=flag")
  <1> DEFINE n == Len(text.lines)
  <1>1. /\ n \in Nat /\ DOMAIN text.lines = 1..n /\ text.lines \in Seq(AnyLine)
        /\ \A k \in 1..n : text.lines[k] \in AnyLine
    BY DEF AnyText
  <1>2. Anchors(text) \in SUBSET (1..n)
    BY <1>1 DEF Anchors
  <1> HIDE DEF n
  <1>3. \E i \in Anchors(text) : \A j \in Anchors(text) : i <= j
    BY <1>1, <1>2, FirstPosition
  <1> DEFINE i == FirstAnchor(text)
             legacy == text.lines[i].kind = "ml2_conf"
             line == IF legacy THEN Plain("ml2_conf \\") ELSE text.lines[i]
             flag == IF legacy THEN Plain("flag") ELSE Plain("confs+=flag")
             base == [text.lines EXCEPT ![i] = line]
             lines == InsertAt(base, i + 1, flag)
  <1>4. i \in Anchors(text) /\ i \in 1..n
    BY <1>2, <1>3 DEF FirstAnchor
  <1>5. line \in AnyLine /\ flag \in AnyLine
    <2>1. /\ Plain("ml2_conf \\") \in AnyLine /\ Plain("flag") \in AnyLine
          /\ Plain("confs+=flag") \in AnyLine
      <3>1. "ml2_conf \\" \in Kind /\ "flag" \in Kind /\ "confs+=flag" \in Kind
        BY DEF Kind
      <3> QED BY <3>1, LinesTyped
    <2> QED BY <1>1, <1>4, <2>1
  <1> HIDE DEF i
  <1>6. AddFlag(text) = [text EXCEPT !.lines = lines]
    <2>1. CASE legacy
      <3>1. AddFlag(text) = [text EXCEPT !.lines =
               InsertAt(ReplaceAt(text.lines, i, Plain("ml2_conf \\")), i + 1, Plain("flag"))]
        BY <2>1 DEF AddFlag, i, AnyText
      <3>2. ReplaceAt(text.lines, i, Plain("ml2_conf \\")) = base /\ flag = Plain("flag")
        BY <2>1 DEF ReplaceAt
      <3> QED BY <3>1, <3>2
    <2>2. CASE ~legacy
      <3>1. AddFlag(text) = [text EXCEPT !.lines = InsertAt(text.lines, i + 1, Plain("confs+=flag"))]
        BY <2>2 DEF AddFlag, i, AnyText
      <3>2. line = text.lines[i] /\ flag = Plain("confs+=flag")
        BY <2>2
      <3>3. base = text.lines
        <4> HIDE DEF line
        <4> QED BY <1>1, <3>2
      <3> QED BY <3>1, <3>2, <3>3
    <2> QED BY <2>1, <2>2
  <1> HIDE DEF line, flag
  <1>7. /\ base \in Seq(AnyLine) /\ Len(base) = n /\ base[i] = line
        /\ \A k \in 1..n : k # i => base[k] = text.lines[k]
    BY <1>1, <1>4, <1>5 DEF n
  <1> HIDE DEF base
  <1> DEFINE front == SubSeq(base, 1, (i + 1) - 1)
             back == SubSeq(base, i + 1, n)
  <1>8. /\ front \in Seq(AnyLine) /\ Len(front) = i
        /\ \A k \in 1..i : front[k] = base[k]
    BY <1>1, <1>4, <1>7
  <1>9. /\ back \in Seq(AnyLine) /\ Len(back) = n - i
        /\ \A k \in 1..(n - i) : back[k] = base[i + k]
    BY <1>1, <1>4, <1>7
  <1>10. lines = front \o <<flag>> \o back
    <2>1. lines = SubSeq(base, 1, (i + 1) - 1) \o <<flag>> \o SubSeq(base, i + 1, Len(base))
      BY Zenon DEF InsertAt
    <2>2. Len(base) = n
      BY <1>7
    <2> QED BY <2>1, <2>2, Zenon
  <1> HIDE DEF front, back, lines
  <1>11. /\ lines \in Seq(AnyLine) /\ Len(lines) = n + 1
         /\ \A k \in 1..i : lines[k] = base[k]
         /\ lines[i + 1] = flag
         /\ \A k \in 1..(n - i) : lines[i + 1 + k] = base[i + k]
    <2> DEFINE two == front \o <<flag>>
    <2>1. /\ two \in Seq(AnyLine) /\ Len(two) = i + 1 /\ two[i + 1] = flag
          /\ \A k \in 1..i : two[k] = base[k]
      BY <1>1, <1>4, <1>5, <1>8
    <2>2. lines = two \o back
      BY <1>10
    <2> HIDE DEF two
    <2>3. lines \in Seq(AnyLine) /\ Len(lines) = n + 1
      <3>1. two \o back \in Seq(AnyLine) /\ Len(two \o back) = Len(two) + Len(back)
        BY <1>9, <2>1, Appended
      <3> QED BY <1>1, <1>4, <1>9, <2>1, <2>2, <3>1
    <2>4. ASSUME NEW k \in 1..(i + 1) PROVE lines[k] = two[k]
      <3>1. \A j \in 1..Len(two) : (two \o back)[j] = two[j]
        BY <1>9, <2>1, Appended
      <3> QED BY <2>1, <2>2, <3>1
    <2>5. ASSUME NEW k \in 1..(n - i) PROVE lines[i + 1 + k] = back[k]
      BY <1>1, <1>4, <1>9, <2>1, <2>2
    <2>6. i + 1 \in 1..(i + 1) /\ \A k \in 1..i : k \in 1..(i + 1)
      BY <1>1, <1>4
    <2> QED BY <1>9, <2>1, <2>3, <2>4, <2>5, <2>6
  <1>12. ASSUME NEW k \in 1..n, k > i PROVE lines[k + 1] = text.lines[k]
    <2>1. k - i \in 1..(n - i) /\ i + 1 + (k - i) = k + 1 /\ i + (k - i) = k /\ k # i
      BY <1>1, <1>4, <1>12
    <2> QED BY <1>7, <1>11, <2>1
  <1>13. ASSUME NEW k \in 1..n, k < i PROVE lines[k] = text.lines[k]
    BY <1>4, <1>7, <1>11, <1>13
  <1>14. lines[i] = line /\ DOMAIN lines = 1..(n + 1)
    BY <1>1, <1>4, <1>7, <1>11
  <1>15. /\ AddFlag(text) \in AnyText /\ AddFlag(text).newline = text.newline
         /\ AddFlag(text).lines = lines
    BY <1>6, <1>11 DEF AnyText
  <1> QED BY <1>1, <1>4, <1>11, <1>12, <1>13, <1>14, <1>15 DEF line, flag, n

(* Where there is no flag there is nothing to take out.                    *)
LEMMA RemoveFlagNothing ==
  ASSUME NEW text \in AnyText, ~HasFlag(text)
  PROVE  RemoveFlag(text) = text
  <1> DEFINE ended == [i \in DOMAIN text.lines |->
                     IF /\ text.lines[i].kind = "ml2_conf \\"
                        /\ i + 1 \in Flags(text) /\ text.lines[i + 1].kind = "flag"
                     THEN Plain("ml2_conf") ELSE text.lines[i]]
             lines == Without(ended, Flags(text))
  <1>1. Flags(text) = {} /\ text.lines \in Seq(AnyLine)
    BY DEF HasFlag, AnyText
  <1>2. ended = text.lines
    BY <1>1
  <1>3. RemoveFlag(text) = [text EXCEPT !.lines = lines]
    BY DEF RemoveFlag
  <1> HIDE DEF ended
  <1>4. lines = Selected(text.lines, DOMAIN text.lines)
    BY <1>1, <1>2 DEF Without
  <1> HIDE DEF lines
  <1>5. lines = text.lines
    BY <1>1, <1>4, SelectedAll
  <1> QED BY <1>3, <1>5 DEF AnyText

(* A script without lists, in which the line that the guardian would        *)
(* continue is not continued yet.                                          *)
Uncontinued(text) ==
    \A i \in DOMAIN text.lines :
        text.lines[i] = Plain(text.lines[i].kind) /\ text.lines[i].kind # "ml2_conf \\"

(* remove_config_dir_flag undoes add_config_dir_flag, line by line.        *)
THEOREM FlagRoundTrip ==
  ASSUME NEW text \in AnyText, ~HasFlag(text), Anchors(text) # {}, Uncontinued(text)
  PROVE  HasFlag(AddFlag(text)) /\ RemoveFlag(AddFlag(text)) = text
  <1> DEFINE n == Len(text.lines)
             t == AddFlag(text)
  <1>1. PICK i \in Anchors(text) :
           LET legacy == text.lines[i].kind = "ml2_conf"
           IN  /\ t \in AnyText
               /\ t.newline = text.newline
               /\ DOMAIN t.lines = 1..(Len(text.lines) + 1)
               /\ \A k \in DOMAIN text.lines : k < i => t.lines[k] = text.lines[k]
               /\ \A k \in DOMAIN text.lines : k > i => t.lines[k + 1] = text.lines[k]
               /\ t.lines[i] = IF legacy THEN Plain("ml2_conf \\") ELSE text.lines[i]
               /\ t.lines[i + 1] = IF legacy THEN Plain("flag") ELSE Plain("confs+=flag")
    BY AddFlagLines
  <1> HIDE DEF t
  <1>2. /\ n \in Nat /\ i \in 1..n /\ DOMAIN text.lines = 1..n /\ DOMAIN t.lines = 1..(n + 1)
        /\ text.lines \in Seq(AnyLine) /\ t.lines \in Seq(AnyLine)
        /\ \A k \in 1..n : text.lines[k] \in AnyLine
        /\ \A k \in 1..(n + 1) : t.lines[k] \in AnyLine
    <2>1. /\ n \in Nat /\ DOMAIN text.lines = 1..n /\ text.lines \in Seq(AnyLine)
          /\ \A k \in 1..n : text.lines[k] \in AnyLine
      BY DEF AnyText
    <2>2. i \in 1..n
      BY <2>1 DEF Anchors
    <2>3. /\ DOMAIN t.lines = 1..(n + 1) /\ t.lines \in Seq(AnyLine)
          /\ \A k \in DOMAIN t.lines : t.lines[k] \in AnyLine
      <3>1. t \in AnyText /\ DOMAIN t.lines = 1..(n + 1)
        BY <1>1
      <3>2. t.lines \in Seq(AnyLine)
        BY <3>1 DEF AnyText
      <3>3. \A k \in DOMAIN t.lines : t.lines[k] \in AnyLine
        BY <3>2
      <3> QED BY <3>1, <3>2, <3>3
    <2> QED BY <2>1, <2>2, <2>3
  <1> DEFINE legacy == text.lines[i].kind = "ml2_conf"
  <1>0. /\ t.lines[i].kind = IF legacy THEN "ml2_conf \\" ELSE text.lines[i].kind
        /\ t.lines[i + 1].kind = IF legacy THEN "flag" ELSE "confs+=flag"
        /\ ~legacy => t.lines[i] = text.lines[i]
    <2>1. /\ Plain("ml2_conf \\").kind = "ml2_conf \\" /\ Plain("flag").kind = "flag"
          /\ Plain("confs+=flag").kind = "confs+=flag"
      BY DEF Plain, Line
    <2>2. CASE legacy
      BY <1>1, <2>1, <2>2
    <2>3. CASE ~legacy
      BY <1>1, <2>1, <2>3
    <2> QED BY <2>2, <2>3
  <1>3. \A k \in 1..n : text.lines[k].kind \notin {"flag", "confs+=flag", "ml2_conf \\"}
    BY <1>2 DEF HasFlag, Flags, Uncontinued
  <1> HIDE DEF n
  <1>4. t.lines[i + 1].kind \in {"flag", "confs+=flag"} /\ i + 1 \in 1..(n + 1)
    <2>1. i + 1 \in 1..(n + 1)
      BY <1>2
    <2> QED BY <1>0, <2>1, Zenon
  <1>5. t.lines[i].kind \notin {"flag", "confs+=flag"}
    BY <1>0, <1>2, <1>3
  <1>6. \A k \in 1..n : (k < i => t.lines[k] = text.lines[k])
                        /\ (k > i => t.lines[k + 1] = text.lines[k])
    BY <1>1, <1>2
  <1>7. ASSUME NEW k \in 1..(n + 1)
        PROVE  \/ k < i /\ k \in 1..n
               \/ k = i
               \/ k = i + 1
               \/ k - 1 > i /\ k - 1 \in 1..n
    BY <1>2
  <1>8. ASSUME NEW k \in 1..(n + 1), k # i, k # i + 1
        PROVE  t.lines[k].kind \notin {"flag", "confs+=flag", "ml2_conf \\"}
    <2>1. CASE k < i
      <3>1. k \in 1..n
        BY <1>2, <2>1
      <3> QED BY <1>3, <1>6, <2>1, <3>1
    <2>2. CASE ~(k < i)
      <3>1. k - 1 > i /\ k - 1 \in 1..n /\ k - 1 + 1 = k
        BY <1>2, <1>7, <1>8, <2>2
      <3> QED BY <1>3, <1>6, <3>1
    <2> QED BY <2>1, <2>2
  <1>9. \A k \in 1..(n + 1) : k \in Flags(t) <=> k = i + 1
    BY <1>2, <1>4, <1>5, <1>8 DEF Flags
  <1> DEFINE ended == [k \in DOMAIN t.lines |->
                     IF /\ t.lines[k].kind = "ml2_conf \\"
                        /\ k + 1 \in Flags(t) /\ t.lines[k + 1].kind = "flag"
                     THEN Plain("ml2_conf") ELSE t.lines[k]]
             to == DOMAIN ended \ Flags(t)
             at == 1..n
             move == [k \in at |-> IF k <= i THEN k ELSE k + 1]
  <1>10. ASSUME NEW k \in 1..(n + 1), k # i
         PROVE  ended[k] = t.lines[k]
    <2>1. k # i + 1 => t.lines[k].kind # "ml2_conf \\"
      BY <1>8, <1>10
    <2>2. k = i + 1 => t.lines[k].kind # "ml2_conf \\"
      BY <1>4
    <2> QED BY <1>2, <2>1, <2>2
  <1>11. ended[i] = text.lines[i]
    <2>1. i \in 1..(n + 1) /\ i + 1 \in Flags(t)
      BY <1>2, <1>4, <1>9
    <2>2. CASE text.lines[i].kind = "ml2_conf"
      <3>1. t.lines[i].kind = "ml2_conf \\" /\ t.lines[i + 1].kind = "flag"
        BY <1>0, <2>2
      <3>2. text.lines[i] = Plain("ml2_conf")
        BY <1>2, <2>2 DEF Uncontinued
      <3> QED BY <1>2, <2>1, <3>1, <3>2
    <2>3. CASE text.lines[i].kind # "ml2_conf"
      <3>1. t.lines[i] = text.lines[i] /\ t.lines[i].kind # "ml2_conf \\"
        BY <1>0, <1>2, <1>3, <2>3
      <3> QED BY <1>2, <2>1, <3>1
    <2> QED BY <2>2, <2>3
  <1>12. ended \in Seq(AnyLine) /\ DOMAIN ended = 1..(n + 1)
    <2>1. \A k \in 1..(n + 1) : ended[k] \in AnyLine
      BY <1>2, <1>10, <1>11
    <2>2. ended \in [1..(n + 1) -> AnyLine]
      BY <1>2, <2>1
    <2> HIDE DEF ended
    <2> QED BY <1>2, <2>2
  <1> HIDE DEF ended
  <1>13. \A k \in 1..(n + 1) : k \in to <=> k # i + 1
    BY <1>9, <1>12
  <1>14. move \in [at -> to] /\ to \in SUBSET DOMAIN ended
    <2>1. ASSUME NEW k \in 1..n
          PROVE  move[k] \in 1..(n + 1) /\ move[k] # i + 1
      BY <1>2
    <2> QED BY <1>2, <1>13, <2>1
  <1>15. \A k \in to : \E l \in at : move[l] = k
    <2> TAKE k \in to
    <2>1. k \in 1..(n + 1) /\ k # i + 1
      BY <1>12, <1>13
    <2>2. CASE k <= i
      <3>1. k \in at /\ move[k] = k
        BY <1>2, <2>1, <2>2
      <3> QED BY <3>1
    <2>3. CASE ~(k <= i)
      <3>1. k - 1 \in at /\ move[k - 1] = k
        BY <1>2, <2>1, <2>3
      <3> QED BY <3>1
    <2> QED BY <2>2, <2>3
  <1>16. \A k, l \in at : k < l => move[k] < move[l]
    BY <1>2
  <1>17. \A k \in at : ended[move[k]] = text.lines[k]
    <2> TAKE k \in at
    <2>1. k \in 1..n
      BY <1>2
    <2>2. CASE k < i
      BY <1>2, <1>6, <1>10, <2>1, <2>2
    <2>3. CASE k = i
      BY <1>2, <1>11, <2>1, <2>3
    <2>4. CASE k > i
      <3>1. move[k] = k + 1 /\ k + 1 \in 1..(n + 1) /\ k + 1 # i
        BY <1>2, <2>1, <2>4
      <3> QED BY <1>6, <1>10, <2>1, <2>4, <3>1
    <2> QED BY <1>2, <2>1, <2>2, <2>3, <2>4
  <1> HIDE DEF move, to
  <1>18. Selected(ended, to) = Selected(text.lines, at)
    <2>1. at \in SUBSET DOMAIN text.lines
      BY <1>2
    <2>2. ended \in Seq(AnyLine) /\ text.lines \in Seq(AnyLine)
      BY <1>2, <1>12
    <2> DEFINE s == text.lines
    <2>3. /\ s \in Seq(AnyLine) /\ ended \in Seq(AnyLine)
          /\ at \in SUBSET DOMAIN s /\ to \in SUBSET DOMAIN ended /\ move \in [at -> to]
          /\ \A k \in at : ended[move[k]] = s[k]
      BY <1>14, <1>17, <2>1, <2>2
    <2> HIDE DEF at, s
    <2>4. Selected(ended, to) = Selected(s, at)
      BY <1>15, <1>16, <2>3, SelectedMoved
    <2> QED BY <2>4 DEF s
  <1>19. Selected(ended, to) = text.lines
    BY <1>2, <1>18, SelectedAll
  <1>20. RemoveFlag(t) = [t EXCEPT !.lines = Without(ended, Flags(t))]
    BY DEF RemoveFlag, ended
  <1>21. Without(ended, Flags(t)) = text.lines
    BY <1>19 DEF Without, to
  <1>22. RemoveFlag(t) = text
    BY <1>1, <1>20, <1>21 DEF AnyText
  <1>23. HasFlag(t)
    BY <1>4, <1>9 DEF HasFlag
  <1> QED BY <1>22, <1>23 DEF t

-----------------------------------------------------------------------------
(* logging.conf *)

(* A line is in one section, which is its header's.                        *)
LEMMA SectionUnique ==
  ASSUME NEW text \in AnyText, NEW i \in DOMAIN text.lines, NEW d, NEW e,
         InSection(text, i, d), InSection(text, i, e)
  PROVE  d = e
  <1>1. PICK h \in Headers(text) : h <= i /\ text.lines[h] = Header(d)
                                   /\ \A k \in Headers(text) : k <= h \/ k > i
    BY DEF InSection
  <1>2. PICK g \in Headers(text) : g <= i /\ text.lines[g] = Header(e)
                                   /\ \A k \in Headers(text) : k <= g \/ k > i
    BY DEF InSection
  <1>3. Headers(text) \subseteq Nat
    BY DEF Headers, AnyText
  <1>4. i \in Int
    BY DEF AnyText
  <1>5. g = h
    BY <1>1, <1>2, <1>3, <1>4
  <1>6. <<d>> = <<e>>
    BY <1>1, <1>2, <1>5 DEF Header, Line
  <1> QED BY <1>6

LEMMA HeaderSection ==
  ASSUME NEW text \in AnyText, NEW h \in Headers(text), NEW d
  PROVE  InSection(text, h, d) <=> text.lines[h] = Header(d)
  <1>1. Headers(text) \subseteq Nat
    BY DEF Headers, AnyText
  <1>2. ASSUME NEW g \in Headers(text), g <= h, \A k \in Headers(text) : k <= g \/ k > h
        PROVE  g = h
    BY <1>1, <1>2
  <1>3. h <= h /\ \A k \in Headers(text) : k <= h \/ k > h
    BY <1>1
  <1> QED BY <1>2, <1>3 DEF InSection

(* A logger is appended, after one blank line, and its name to the keys.   *)
LEMMA AddLoggerLines ==
  ASSUME NEW text \in AnyText, NEW d \in Name, ~HasLogger(text, d), LoggerKeys(text) # {}
  PROVE  LET after == AddLogger(text, d)
             n == Len(text.lines)
         IN  /\ after \in AnyText /\ after.newline = TRUE
             /\ \A k \in 1..n :
                   after.lines[k] = IF k \in LoggerKeys(text) THEN AddName(text.lines[k], d)
                                                              ELSE text.lines[k]
             /\ \E g \in {0, 1} :
                   /\ DOMAIN after.lines = 1..(n + g + 2)
                   /\ g = 0 <=> text.lines[n] = Blank
                   /\ g = 1 => after.lines[n + 1] = Blank
                   /\ after.lines[n + g + 1] = Header(d)
                   /\ after.lines[n + g + 2] = Plain("logger")
  <1> DEFINE after == AddLogger(text, d)
             n == Len(text.lines)
             keyed == [i \in DOMAIN text.lines |->
                          IF i \in LoggerKeys(text) THEN AddName(text.lines[i], d)
                          ELSE text.lines[i]]
             gap == IF Last(keyed) = Blank THEN <<>> ELSE <<Blank>>
             section == <<Header(d), Plain("logger")>>
             lines == keyed \o gap \o section
  <1>1. /\ n \in Nat /\ DOMAIN text.lines = 1..n /\ \A i \in 1..n : text.lines[i] \in AnyLine
    BY DEF AnyText
  <1>2. n \in 1..n
    <2>1. PICK i \in LoggerKeys(text) : TRUE
      OBVIOUS
    <2>2. i \in 1..n
      BY <1>1, <2>1 DEF LoggerKeys
    <2> QED BY <1>1, <2>2
  <1>3. after = [lines |-> lines, newline |-> TRUE]
    BY DEF AddLogger
  <1> HIDE DEF after
  <1>4. /\ Header(d) \in AnyLine /\ Plain("logger") \in AnyLine /\ Blank \in AnyLine
        /\ Blank.kind = "blank"
    <2>1. "logger" \in Kind
      BY DEF Kind
    <2> QED BY <2>1, LinesTyped DEF Blank, Plain, Line
  <1>5. /\ keyed \in Seq(AnyLine) /\ Len(keyed) = n
        /\ \A k \in 1..n : keyed[k] = IF k \in LoggerKeys(text) THEN AddName(text.lines[k], d)
                                                                ELSE text.lines[k]
    <2>1. \A k \in 1..n : keyed[k] = IF k \in LoggerKeys(text) THEN AddName(text.lines[k], d)
                                                                ELSE text.lines[k]
      BY <1>1
    <2>2. \A k \in 1..n : keyed[k] \in AnyLine
      BY <1>1, <2>1, AddNameNames
    <2>3. keyed \in [1..n -> AnyLine]
      BY <1>1, <2>2
    <2> HIDE DEF keyed, n
    <2> QED BY <1>1, <2>1, <2>3
  <1>6. Last(keyed) = Blank <=> text.lines[n] = Blank
    <2>1. Last(keyed) = keyed[n]
      BY <1>5 DEF Last
    <2>2. CASE n \in LoggerKeys(text)
      <3>1. keyed[n].kind = "keys" /\ text.lines[n].kind = "keys"
        BY <1>1, <1>2, <1>5, <2>2, AddNameNames DEF LoggerKeys
      <3> QED BY <1>4, <2>1, <3>1
    <2>3. CASE n \notin LoggerKeys(text)
      BY <1>2, <1>5, <2>1, <2>3
    <2> QED BY <2>2, <2>3
  <1> DEFINE g == IF Last(keyed) = Blank THEN 0 ELSE 1
  <1>7. /\ gap \in Seq(AnyLine) /\ Len(gap) = g /\ g \in {0, 1} /\ (g = 1 => gap[1] = Blank)
        /\ g = 0 <=> text.lines[n] = Blank
    BY <1>4, <1>6
  <1>8. /\ section \in Seq(AnyLine) /\ Len(section) = 2
        /\ section[1] = Header(d) /\ section[2] = Plain("logger")
    BY <1>4
  <1> HIDE DEF n, keyed, gap, section, g
  <1> DEFINE front == keyed \o gap
  <1>9. /\ front \in Seq(AnyLine) /\ Len(front) = n + g
        /\ \A k \in 1..n : front[k] = keyed[k]
        /\ g = 1 => front[n + 1] = Blank
    <2>1. /\ front \in Seq(AnyLine) /\ Len(front) = Len(keyed) + Len(gap)
          /\ \A k \in 1..Len(keyed) : front[k] = keyed[k]
          /\ \A k \in 1..Len(gap) : front[Len(keyed) + k] = gap[k]
      BY <1>5, <1>7, Appended
    <2> HIDE DEF front
    <2> QED BY <1>5, <1>7, <2>1
  <1>10. lines = front \o section
    OBVIOUS
  <1> HIDE DEF front, lines
  <1>11. /\ lines \in Seq(AnyLine) /\ Len(lines) = n + g + 2
         /\ \A k \in 1..(n + g) : lines[k] = front[k]
         /\ lines[n + g + 1] = section[1] /\ lines[n + g + 2] = section[2]
    <2>0. front \in Seq(AnyLine) /\ section \in Seq(AnyLine)
      BY <1>8, <1>9
    <2> DEFINE both == front \o section
    <2>1. /\ both \in Seq(AnyLine) /\ Len(both) = Len(front) + Len(section)
          /\ \A k \in 1..Len(front) : both[k] = front[k]
          /\ \A k \in 1..Len(section) : both[Len(front) + k] = section[k]
      BY <2>0, Appended
    <2>3. both = lines
      BY <1>10
    <2> HIDE DEF both
    <2>2. 1 \in 1..Len(section) /\ 2 \in 1..Len(section)
      BY <1>8
    <2> QED BY <1>8, <1>9, <2>1, <2>2, <2>3
  <1>13. /\ \A k \in 1..n : lines[k] = keyed[k]
         /\ g = 1 => lines[n + 1] = Blank
    BY <1>1, <1>7, <1>9, <1>11
  <1>14. /\ after \in AnyText /\ after.newline = TRUE /\ after.lines = lines
         /\ DOMAIN after.lines = 1..(n + g + 2)
    BY <1>3, <1>11 DEF AnyText
  <1> QED BY <1>5, <1>7, <1>8, <1>11, <1>13, <1>14 DEF after, n

(* The lines that go with a logger: its section, and one blank line right  *)
(* before it.                                                              *)
GoesWith(text, d, i) ==
    \/ InSection(text, i, d)
    \/ text.lines[i] = Blank /\ i + 1 \in Headers(text) /\ InSection(text, i + 1, d)

LEMMA RemoveLoggerLines ==
  ASSUME NEW text \in AnyText, NEW d
  PROVE  LET after == RemoveLogger(text, d)
         IN  /\ after \in AnyText /\ after.newline = text.newline
             /\ \E keep \in SUBSET DOMAIN text.lines :
                   /\ \A i \in DOMAIN text.lines : i \in keep <=> ~GoesWith(text, d, i)
                   /\ \E move \in [keep -> DOMAIN after.lines] :
                         /\ \A j \in DOMAIN after.lines : \E i \in keep : move[i] = j
                         /\ \A i, k \in keep : i < k => move[i] < move[k]
                         /\ \A i \in keep :
                               after.lines[move[i]] =
                                  IF i \in LoggerKeys(text) THEN RemoveName(text.lines[i], d)
                                                            ELSE text.lines[i]
  <1> DEFINE n == Len(text.lines)
             after == RemoveLogger(text, d)
             section == {i \in DOMAIN text.lines : InSection(text, i, d)}
             gaps == {i \in DOMAIN text.lines \ section :
                         /\ text.lines[i] = Blank
                         /\ i + 1 \in Headers(text) \cap section}
             unkeyed == [i \in DOMAIN text.lines |->
                            IF i \in LoggerKeys(text) THEN RemoveName(text.lines[i], d)
                            ELSE text.lines[i]]
             keep == DOMAIN unkeyed \ (section \cup gaps)
             move == [i \in keep |-> Rank(keep, i)]
             lines == Selected(unkeyed, keep)
  <1>1. /\ n \in Nat /\ DOMAIN text.lines = 1..n /\ \A i \in 1..n : text.lines[i] \in AnyLine
    BY DEF AnyText
  <1>2. after = [text EXCEPT !.lines = lines]
    BY DEF RemoveLogger, Without
  <1>3. \A i \in DOMAIN text.lines : i \in keep <=> ~GoesWith(text, d, i)
    BY DEF GoesWith, Headers
  <1>4. /\ DOMAIN unkeyed = 1..n
        /\ \A i \in 1..n : unkeyed[i] = IF i \in LoggerKeys(text)
                                        THEN RemoveName(text.lines[i], d) ELSE text.lines[i]
        /\ keep \in SUBSET (1..n)
    BY <1>1
  <1>5. \A i \in keep : move[i] = Rank(keep, i) /\ DOMAIN move = keep
    OBVIOUS
  <1>6. move = [i \in keep |-> move[i]]
    OBVIOUS
  <1> HIDE DEF after, unkeyed, keep, move
  <1>7. unkeyed \in Seq(AnyLine)
    <2>1. ASSUME NEW i \in 1..n PROVE unkeyed[i] \in AnyLine
      <3>1. text.lines[i] \in AnyLine
        BY <1>1
      <3>2. RemoveName(text.lines[i], d) \in AnyLine
        BY <3>1, RemoveNameNames
      <3> QED BY <1>4, <3>1, <3>2
    <2>2. unkeyed \in [1..n -> AnyLine]
      <3>1. unkeyed = [i \in 1..n |-> unkeyed[i]]
        BY <1>1 DEF unkeyed
      <3> QED BY <2>1, <3>1
    <2> HIDE DEF n
    <2> QED BY <1>1, <2>2
  <1> HIDE DEF n
  <1>8. /\ lines \in Seq(AnyLine)
        /\ \A i \in keep : Rank(keep, i) \in DOMAIN lines /\ lines[Rank(keep, i)] = unkeyed[i]
        /\ \A j \in DOMAIN lines : Position(keep, j) \in keep /\ Rank(keep, Position(keep, j)) = j
    <2>1. keep \in SUBSET DOMAIN unkeyed
      BY <1>4
    <2> QED BY <1>7, <2>1, SelectedItems
  <1> HIDE DEF lines
  <1>9. after \in AnyText /\ after.newline = text.newline /\ after.lines = lines
    BY <1>2, <1>8 DEF AnyText
  <1>10. move \in [keep -> DOMAIN lines]
    BY <1>5, <1>6, <1>8
  <1>11. \A j \in DOMAIN lines : \E i \in keep : move[i] = j
    BY <1>5, <1>8
  <1>12. \A i, k \in keep : i < k => move[i] < move[k]
    BY <1>1, <1>4, <1>5, RankGrows
  <1>13. \A i \in keep : lines[move[i]] = IF i \in LoggerKeys(text)
                                          THEN RemoveName(text.lines[i], d) ELSE text.lines[i]
    BY <1>4, <1>5, <1>8
  <1>14. keep \in SUBSET DOMAIN text.lines
    BY <1>1, <1>4
  <1>15. \E m \in [keep -> DOMAIN after.lines] :
                         /\ \A j \in DOMAIN after.lines : \E i \in keep : m[i] = j
                         /\ \A i, k \in keep : i < k => m[i] < m[k]
                         /\ \A i \in keep :
                               after.lines[m[i]] =
                                  IF i \in LoggerKeys(text) THEN RemoveName(text.lines[i], d)
                                                            ELSE text.lines[i]
    BY <1>9, <1>10, <1>11, <1>12, <1>13
  <1> QED BY <1>3, <1>9, <1>14, <1>15 DEF after
=============================================================================
