--------------------------- MODULE ConfEditProofs ---------------------------
(***************************************************************************)
(* What holds of the three texts for all renderings and all lists of       *)
(* drivers, however long: a text is always the rendered one with edits of  *)
(* the guardian in it. Ml2From, ScriptFrom, Matched and LogFrom say so of  *)
(* each text; every edit preserves them.                                   *)
(***************************************************************************)
EXTENDS ConfEdit, TextsProofs

-----------------------------------------------------------------------------
LEMMA DriversNamed ==
  ASSUME drivers \in Seq(DriverSpec), NEW i \in 1..Len(drivers)
  PROVE  drivers[i].name \in Driver /\ drivers[i].name \in Name
  <1>1. drivers[i] \in DriverSpec
    OBVIOUS
  <1>2. drivers[i].name \in Driver
    BY <1>1 DEF DriverSpec
  <1>3. Driver \subseteq Name
    BY ConfEditAssumption
  <1> QED BY <1>2, <1>3

(* A revert takes one driver after the other out of a text it has read.    *)
WithoutDrivers(text) == ForDrivers(RemoveDriver, text)

LEMMA RemoveDriversSteps ==
  ASSUME drivers \in Seq(DriverSpec), NEW text \in AnyText
  PROVE  \E f : /\ f \in [0..Len(drivers) -> AnyText]
               /\ f[0] = text
               /\ \A i \in 1..Len(drivers) : f[i] = RemoveDriver(f[i - 1], drivers[i].name)
               /\ WithoutDrivers(text) = f[Len(drivers)]
  <1> DEFINE n == Len(drivers)
             step == [i \in 1..n |-> [t \in AnyText |-> RemoveDriver(t, drivers[i].name)]]
             Loop(f) == [i \in 0..n |-> IF i = 0 THEN text
                                        ELSE RemoveDriver(f[i - 1], drivers[i].name)]
  <1>1. n \in Nat
    OBVIOUS
  <1>2. \A i \in 1..n, t \in AnyText : RemoveDriver(t, drivers[i].name) \in AnyText
    BY RemoveDriverLines
  <1>3. /\ \A i \in 1..n, t \in AnyText : step[i][t] = RemoveDriver(t, drivers[i].name)
        /\ StepsIn(step, n, AnyText)
    BY <1>2 DEF StepsIn
  <1> HIDE DEF n, step
  <1>4. PICK f \in [0..n -> AnyText] : Stepwise(f, n, text, step)
    BY <1>1, <1>3, StepwiseExists
  <1>5. ASSUME NEW i \in 0..n, i # 0
        PROVE  i \in 1..n /\ i - 1 \in 0..n
    BY <1>1, <1>5
  <1>6. f = Loop(f)
    <2>1. ASSUME NEW i \in 0..n, i # 0
          PROVE  f[i] = RemoveDriver(f[i - 1], drivers[i].name)
      BY <1>3, <1>4, <1>5, <2>1 DEF Stepwise
    <2> QED BY <1>4, <2>1 DEF Stepwise
  <1> DEFINE g == CHOOSE g : g = Loop(g)
  <1>7. g = Loop(g)
    BY <1>6
  <1>8. WithoutDrivers(text) = g[n]
    BY DEF ForDrivers, WithoutDrivers, n
  <1> HIDE DEF g
  <1>9. /\ g = [i \in 0..n |-> g[i]] /\ g[0] = text
        /\ \A i \in 0..n : i # 0 => g[i] = RemoveDriver(g[i - 1], drivers[i].name)
    <2>1. \A i \in 0..n : g[i] = IF i = 0 THEN text ELSE RemoveDriver(g[i - 1], drivers[i].name)
      BY <1>7
    <2>2. g = [i \in 0..n |-> g[i]] /\ 0 \in 0..n
      BY <1>1, <1>7
    <2> QED BY <2>1, <2>2
  <1>10. \A i \in 1..n : g[i] = RemoveDriver(g[i - 1], drivers[i].name)
    BY <1>1, <1>9
  <1>11. \A i \in 0..n : g[i] \in AnyText
    <2> DEFINE T == {i \in 0..n : g[i] \in AnyText}
    <2>1. 0 \in T
      BY <1>1, <1>9
    <2>2. ASSUME NEW i \in 1..n, i - 1 \in T PROVE i \in T
      <3>1. g[i - 1] \in AnyText
        BY <2>2
      <3>2. g[i] \in AnyText /\ i \in 0..n
        BY <1>1, <1>2, <1>10, <3>1
      <3> QED BY <3>2
    <2> HIDE DEF T
    <2>3. \A i \in 0..n : i \in T
      BY <1>1, <2>1, <2>2, InductionUpTo
    <2> QED BY <2>3 DEF T
  <1> QED BY <1>8, <1>9, <1>10, <1>11 DEF n

-----------------------------------------------------------------------------
(* A list of names that the guardian has edited: without its drivers it is *)
(* the chart's. It is tidy once it was edited.                             *)
LineFrom(line, chart) ==
    /\ line \in AnyLine
    /\ line.kind = chart.kind
    /\ Dropping(line.names, Driver) = chart.names
    /\ line.tidy \in {TRUE, chart.tidy}

LEMMA NamesDropped ==
  ASSUME NEW line \in AnyLine, NEW d \in Driver
  PROVE  /\ Dropping(AddName(line, d).names, Driver) = Dropping(line.names, Driver)
         /\ Dropping(RemoveName(line, d).names, Driver) = Dropping(line.names, Driver)
  <1> DEFINE one == {d}
  <1>1. line.names \in Seq(Name) /\ d \in Name /\ one \cup Driver = Driver
    BY ConfEditAssumption DEF AnyLine
  <1>2. Dropping(AddName(line, d).names, Driver) = Dropping(line.names, Driver)
    <2>1. CASE HasName(line.names, d)
      <3>1. AddName(line, d).names = line.names
        BY <2>1 DEF AddName, AnyLine
      <3> QED BY <3>1
    <2>2. CASE ~HasName(line.names, d)
      <3>1. AddName(line, d).names = Append(line.names, d)
        BY <2>2 DEF AddName, AnyLine
      <3> QED BY <1>1, <3>1, DroppingAppended
    <2> QED BY <2>1, <2>2
  <1>3. RemoveName(line, d).names = Dropping(line.names, one)
    BY RemoveNameNames
  <1> HIDE DEF one
  <1>4. Dropping(Dropping(line.names, one), Driver) = Dropping(line.names, one \cup Driver)
    BY <1>1, DroppingTwice
  <1> QED BY <1>1, <1>2, <1>3, <1>4

LEMMA NamesFrom ==
  ASSUME NEW line, NEW chart, LineFrom(line, chart), NEW d \in Driver
  PROVE  LineFrom(AddName(line, d), chart) /\ LineFrom(RemoveName(line, d), chart)
  <1>1. line \in AnyLine /\ d \in Name
    BY ConfEditAssumption DEF LineFrom
  <1>2. AddName(line, d) \in AnyLine /\ AddName(line, d).kind = line.kind
    BY <1>1, AddNameNames
  <1>3. AddName(line, d).tidy = TRUE
    BY <1>1 DEF AddName, AnyLine
  <1>4. /\ RemoveName(line, d) \in AnyLine /\ RemoveName(line, d).kind = line.kind
        /\ RemoveName(line, d).tidy = TRUE
    BY <1>1, RemoveNameNames
  <1> QED BY <1>1, <1>2, <1>3, <1>4, NamesDropped DEF LineFrom

LEMMA LineFromItself ==
  ASSUME NEW line \in AnyLine, Names(line) \cap Driver = {}
  PROVE  LineFrom(line, line)
  <1>1. line.names \in Seq(Name) /\ \A i \in DOMAIN line.names : line.names[i] \notin Driver
    BY DEF AnyLine, Names
  <1> QED BY <1>1, DroppingNames DEF LineFrom

(* ml2_conf.ini: only mechanism_drivers lines were edited, and all alike.  *)
Ml2From(text, chart) ==
    /\ text \in AnyText
    /\ text.newline = chart.newline
    /\ DOMAIN text.lines = DOMAIN chart.lines
    /\ \A i \in DOMAIN chart.lines :
          IF i \in DriversLines(chart) THEN LineFrom(text.lines[i], chart.lines[i])
                                       ELSE text.lines[i] = chart.lines[i]
    /\ \A i, j \in DriversLines(chart), d \in Driver :
          d \in Names(text.lines[i]) => d \in Names(text.lines[j])

LEMMA Ml2FromLines ==
  ASSUME NEW text, NEW chart, Ml2From(text, chart)
  PROVE  /\ DriversLines(text) = DriversLines(chart)
         /\ \A i \in DOMAIN chart.lines : text.lines[i].kind = chart.lines[i].kind
  <1>1. \A i \in DOMAIN chart.lines : text.lines[i].kind = chart.lines[i].kind
    BY DEF Ml2From, LineFrom
  <1> QED BY <1>1 DEF DriversLines, Ml2From

LEMMA AddDriverFrom ==
  ASSUME NEW text, NEW chart, Ml2From(text, chart), NEW d \in Driver
  PROVE  Ml2From(AddDriver(text, d), chart)
  <1> DEFINE after == AddDriver(text, d)
  <1>1. text \in AnyText /\ d \in Name /\ DriversLines(text) = DriversLines(chart)
        /\ DOMAIN text.lines = DOMAIN chart.lines /\ text.newline = chart.newline
    BY ConfEditAssumption, Ml2FromLines DEF Ml2From
  <1>2. /\ after \in AnyText /\ after.newline = text.newline
        /\ DOMAIN after.lines = DOMAIN text.lines
        /\ \A i \in DOMAIN text.lines :
              after.lines[i] =
                 IF i \in DriversLines(text) THEN AddName(text.lines[i], d) ELSE text.lines[i]
    BY <1>1, AddDriverLines
  <1> HIDE DEF after
  <1>3. ASSUME NEW i \in DriversLines(chart)
        PROVE  /\ i \in DOMAIN chart.lines
               /\ LineFrom(text.lines[i], chart.lines[i])
               /\ after.lines[i] = AddName(text.lines[i], d)
               /\ Names(after.lines[i]) = Names(text.lines[i]) \cup {d}
    <2>1. i \in DOMAIN chart.lines
      BY DEF DriversLines
    <2>2. LineFrom(text.lines[i], chart.lines[i])
      BY <2>1 DEF Ml2From
    <2>3. after.lines[i] = AddName(text.lines[i], d)
      BY <1>1, <1>2, <2>1
    <2>4. text.lines[i] \in AnyLine
      BY <2>2 DEF LineFrom
    <2> QED BY <1>1, <2>1, <2>2, <2>3, <2>4, AddNameNames
  <1>4. ASSUME NEW i \in DOMAIN chart.lines
        PROVE  IF i \in DriversLines(chart) THEN LineFrom(after.lines[i], chart.lines[i])
                                            ELSE after.lines[i] = chart.lines[i]
    <2>1. CASE i \in DriversLines(chart)
      BY <1>3, <2>1, NamesFrom
    <2>2. CASE i \notin DriversLines(chart)
      BY <1>1, <1>2, <2>2 DEF Ml2From
    <2> QED BY <2>1, <2>2
  <1>5. ASSUME NEW i \in DriversLines(chart), NEW j \in DriversLines(chart), NEW e \in Driver,
               e \in Names(after.lines[i])
        PROVE  e \in Names(after.lines[j])
    <2>1. e \in Names(text.lines[i]) => e \in Names(text.lines[j])
      BY DEF Ml2From
    <2> QED BY <1>3, <1>5, <2>1
  <1> QED BY <1>1, <1>2, <1>4, <1>5 DEF Ml2From, after

LEMMA RemoveDriverFrom ==
  ASSUME NEW text, NEW chart, Ml2From(text, chart), NEW d \in Driver
  PROVE  Ml2From(RemoveDriver(text, d), chart)
  <1> DEFINE after == RemoveDriver(text, d)
  <1>1. text \in AnyText /\ DriversLines(text) = DriversLines(chart)
        /\ DOMAIN text.lines = DOMAIN chart.lines /\ text.newline = chart.newline
    BY Ml2FromLines DEF Ml2From
  <1>2. /\ after \in AnyText /\ after.newline = text.newline
        /\ DOMAIN after.lines = DOMAIN text.lines
        /\ \A i \in DOMAIN text.lines :
              after.lines[i] =
                 IF i \in DriversLines(text) THEN RemoveName(text.lines[i], d) ELSE text.lines[i]
    BY <1>1, RemoveDriverLines
  <1> HIDE DEF after
  <1>3. ASSUME NEW i \in DriversLines(chart)
        PROVE  /\ i \in DOMAIN chart.lines
               /\ LineFrom(text.lines[i], chart.lines[i])
               /\ after.lines[i] = RemoveName(text.lines[i], d)
               /\ Names(after.lines[i]) = Names(text.lines[i]) \ {d}
    <2>1. i \in DOMAIN chart.lines
      BY DEF DriversLines
    <2>2. LineFrom(text.lines[i], chart.lines[i])
      BY <2>1 DEF Ml2From
    <2>3. after.lines[i] = RemoveName(text.lines[i], d)
      BY <1>1, <1>2, <2>1
    <2>4. text.lines[i] \in AnyLine
      BY <2>2 DEF LineFrom
    <2> QED BY <2>1, <2>2, <2>3, <2>4, RemoveNameNames
  <1>4. ASSUME NEW i \in DOMAIN chart.lines
        PROVE  IF i \in DriversLines(chart) THEN LineFrom(after.lines[i], chart.lines[i])
                                            ELSE after.lines[i] = chart.lines[i]
    <2>1. CASE i \in DriversLines(chart)
      BY <1>3, <2>1, NamesFrom
    <2>2. CASE i \notin DriversLines(chart)
      BY <1>1, <1>2, <2>2 DEF Ml2From
    <2> QED BY <2>1, <2>2
  <1>5. ASSUME NEW i \in DriversLines(chart), NEW j \in DriversLines(chart), NEW e \in Driver,
               e \in Names(after.lines[i])
        PROVE  e \in Names(after.lines[j])
    <2>1. e \in Names(text.lines[i]) => e \in Names(text.lines[j])
      BY DEF Ml2From
    <2> QED BY <1>3, <1>5, <2>1
  <1> QED BY <1>1, <1>2, <1>4, <1>5 DEF Ml2From, after

LEMMA RenderedMl2From ==
  ASSUME NEW r \in Renderings
  PROVE  Ml2From(r.ml2, r.ml2)
  <1>1. /\ r.ml2 \in AnyText
        /\ \A i \in DriversLines(r.ml2) : Names(r.ml2.lines[i]) \cap Driver = {}
    BY ConfEditAssumption
  <1>2. ASSUME NEW i \in DriversLines(r.ml2)
        PROVE  LineFrom(r.ml2.lines[i], r.ml2.lines[i])
    <2>1. r.ml2.lines[i] \in AnyLine
      BY <1>1 DEF DriversLines, AnyText
    <2> QED BY <1>1, <2>1, LineFromItself
  <1> QED BY <1>1, <1>2 DEF Ml2From

LEMMA RevertMl2From ==
  ASSUME drivers \in Seq(DriverSpec), NEW chart, Ml2From(ml2, chart)
  PROVE  Ml2From(WithoutDrivers(ml2), chart)
  <1>1. Len(drivers) \in Nat /\ ml2 \in AnyText
    BY DEF Ml2From
  <1>2. PICK f : /\ f \in [0..Len(drivers) -> AnyText]
                 /\ f[0] = ml2
                 /\ \A i \in 1..Len(drivers) : f[i] = RemoveDriver(f[i - 1], drivers[i].name)
                 /\ WithoutDrivers(ml2) = f[Len(drivers)]
    BY <1>1, RemoveDriversSteps
  <1> DEFINE T == {i \in 0..Len(drivers) : Ml2From(f[i], chart)}
  <1>3. 0 \in T
    BY <1>1, <1>2
  <1>4. ASSUME NEW i \in 1..Len(drivers), i - 1 \in T PROVE i \in T
    <2>1. drivers[i].name \in Driver /\ i \in 0..Len(drivers)
      BY <1>1, DriversNamed
    <2>2. Ml2From(RemoveDriver(f[i - 1], drivers[i].name), chart)
      BY <1>4, <2>1, RemoveDriverFrom
    <2> QED BY <1>2, <2>1, <2>2
  <1> HIDE DEF T
  <1>5. \A i \in 0..Len(drivers) : i \in T
    BY <1>1, <1>3, <1>4, InductionUpTo
  <1>6. Len(drivers) \in T
    BY <1>1, <1>5
  <1> QED BY <1>2, <1>6 DEF T

-----------------------------------------------------------------------------
(* Foreign lines. What an edit keeps of a text is moved, in order, and the *)
(* guardian's own entries are put in or taken out around it.               *)
BareKind(kind) == IF kind = "ml2_conf \\" THEN "ml2_conf" ELSE kind
Listing(text, i) ==
    text.lines[i].kind = "mechanism_drivers" \/ InSection(text, i, "loggers")
Alike(text, i, line) ==
    /\ BareKind(line.kind) = BareKind(text.lines[i].kind)
    /\ \/ line.names = text.lines[i].names
       \/ Listing(text, i) /\ Dropping(line.names, Driver) = Dropping(text.lines[i].names, Driver)

(* The lines of s at `keep' are in t, in order and in the same sections.   *)
KeptLines(s, t, keep, move) ==
    /\ s \in AnyText /\ t \in AnyText
    /\ keep \in SUBSET DOMAIN s.lines /\ move \in [keep -> DOMAIN t.lines]
    /\ \A j, k \in keep : j < k => move[j] < move[k]
    /\ \A k \in keep : s.lines[k].kind = "header" \/ t.lines[move[k]].kind = "header"
                          => s.lines[k] = t.lines[move[k]]
    /\ \A i \in keep : \A h \in Headers(s) : LastHeaderBefore(s, i, h) => h \in keep
    /\ \A i \in keep : \A h \in Headers(t) : h > move[i] \/ \E k \in keep : move[k] = h

LEMMA KeptSections ==
  ASSUME NEW s, NEW t, NEW keep, NEW move, KeptLines(s, t, keep, move), NEW i \in keep, NEW name
  PROVE  InSection(t, move[i], name) <=> InSection(s, i, name)
  <1>1. /\ s \in AnyText /\ t \in AnyText
        /\ keep \in SUBSET DOMAIN s.lines /\ move \in [keep -> DOMAIN t.lines]
    BY DEF KeptLines
  <1>2. /\ \A j, k \in keep : j < k => move[j] < move[k]
        /\ \A k \in keep : s.lines[k].kind = "header" \/ t.lines[move[k]].kind = "header"
                              => s.lines[k] = t.lines[move[k]]
        /\ \A h \in Headers(s) : LastHeaderBefore(s, i, h) => h \in keep
        /\ \A h \in Headers(t) : h > move[i] \/ \E k \in keep : move[k] = h
    BY DEF KeptLines
  <1> QED BY <1>1, <1>2, SectionsMoved

LEMMA KeptBare ==
  ASSUME NEW s, NEW t, NEW keep, NEW move, KeptLines(s, t, keep, move), NEW i \in keep,
         Alike(s, i, t.lines[move[i]])
  PROVE  Bare(t, move[i]) = Bare(s, i) /\ (move[i] \in Own(t) <=> i \in Own(s))
  <1> DEFINE old == s.lines[i]
             new == t.lines[move[i]]
  <1>1. i \in DOMAIN s.lines /\ move[i] \in DOMAIN t.lines
    BY DEF KeptLines
  <1>2. \A name : InSection(t, move[i], name) <=> InSection(s, i, name)
    BY KeptSections
  <1>3. /\ BareKind(new.kind) = BareKind(old.kind)
        /\ \/ new.names = old.names
           \/ Listing(s, i) /\ Dropping(new.names, Driver) = Dropping(old.names, Driver)
    BY DEF Alike
  <1>4. /\ \A kind \in {"blank", "flag", "confs+=flag", "mechanism_drivers"} :
              new.kind = kind <=> old.kind = kind
    BY <1>3 DEF BareKind
  <1>5. Listing(t, move[i]) <=> Listing(s, i)
    BY <1>2, <1>4 DEF Listing
  <1>6. Bare(t, move[i]) = Line(BareKind(new.kind),
                                IF Listing(t, move[i]) THEN Dropping(new.names, Driver) ELSE new.names)
    BY DEF Bare, BareKind, Listing
  <1>7. Bare(s, i) = Line(BareKind(old.kind),
                          IF Listing(s, i) THEN Dropping(old.names, Driver) ELSE old.names)
    BY DEF Bare, BareKind, Listing
  <1> HIDE DEF old, new
  <1>8. Bare(t, move[i]) = Bare(s, i)
    BY <1>3, <1>5, <1>6, <1>7
  <1>9. move[i] \in Own(t) <=> i \in Own(s)
    BY <1>1, <1>2, <1>4 DEF Own, old, new
  <1> QED BY <1>8, <1>9

LEMMA BareTyped ==
  ASSUME NEW text \in AnyText, NEW i \in DOMAIN text.lines
  PROVE  Bare(text, i) \in AnyLine
  <1> DEFINE line == text.lines[i]
             names == IF line.kind = "mechanism_drivers" \/ InSection(text, i, "loggers")
                      THEN Dropping(line.names, Driver) ELSE line.names
             kind == IF line.kind = "ml2_conf \\" THEN "ml2_conf" ELSE line.kind
  <1>1. line \in AnyLine
    BY DEF AnyText
  <1> HIDE DEF line
  <1>2. line.names \in Seq(Name) /\ line.kind \in Kind
    BY <1>1 DEF AnyLine
  <1>3. Dropping(line.names, Driver) \in Seq(Name)
    BY <1>2, DroppingNames
  <1>4. names \in Seq(Name)
    BY <1>2, <1>3
  <1> HIDE DEF names
  <1>5. kind \in Kind
    BY <1>2 DEF Kind
  <1>6. Bare(text, i) = [kind |-> kind, names |-> names, tidy |-> TRUE]
    BY DEF Bare, Line, line, names
  <1> HIDE DEF kind
  <1> QED BY <1>4, <1>5, <1>6 DEF AnyLine

LEMMA ForeignMoved ==
  ASSUME NEW s, NEW t, NEW keep, NEW move, KeptLines(s, t, keep, move),
         \A i \in keep : Alike(s, i, t.lines[move[i]]),
         \A i \in DOMAIN s.lines : i \in keep \/ i \in Own(s),
         \A j \in DOMAIN t.lines : j \in Own(t) \/ \E i \in keep : move[i] = j
  PROVE  Foreign(t) = Foreign(s)
  <1> DEFINE S == [i \in DOMAIN s.lines |-> Bare(s, i)]
             T == [j \in DOMAIN t.lines |-> Bare(t, j)]
             at == DOMAIN S \ Own(s)
             to == DOMAIN T \ Own(t)
             going == [i \in at |-> move[i]]
  <1>1. /\ s \in AnyText /\ t \in AnyText
        /\ keep \in SUBSET DOMAIN s.lines /\ move \in [keep -> DOMAIN t.lines]
        /\ \A j, k \in keep : j < k => move[j] < move[k]
    BY DEF KeptLines
  <1>2. S \in Seq(AnyLine) /\ T \in Seq(AnyLine)
    <2>1. \A i \in DOMAIN s.lines : Bare(s, i) \in AnyLine
      BY <1>1, BareTyped
    <2>2. \A i \in DOMAIN t.lines : Bare(t, i) \in AnyLine
      BY <1>1, BareTyped
    <2>3. /\ DOMAIN s.lines = 1..Len(s.lines) /\ Len(s.lines) \in Nat
          /\ DOMAIN t.lines = 1..Len(t.lines) /\ Len(t.lines) \in Nat
      BY <1>1 DEF AnyText
    <2>4. S \in [1..Len(s.lines) -> AnyLine] /\ T \in [1..Len(t.lines) -> AnyLine]
      BY <2>1, <2>2, <2>3
    <2> HIDE DEF S, T
    <2> QED BY <2>3, <2>4
  <1>3. \A i \in keep : Bare(t, move[i]) = Bare(s, i) /\ (move[i] \in Own(t) <=> i \in Own(s))
    BY KeptBare
  <1>4. at \subseteq keep /\ at \in SUBSET DOMAIN S /\ to \in SUBSET DOMAIN T
    OBVIOUS
  <1>5. going \in [at -> to]
    BY <1>1, <1>3, <1>4
  <1>6. ASSUME NEW j \in to PROVE \E i \in at : going[i] = j
    <2>1. PICK i \in keep : move[i] = j
      OBVIOUS
    <2>2. i \in at
      BY <1>1, <1>3, <2>1
    <2> QED BY <2>1, <2>2
  <1>7. \A i, k \in at : i < k => going[i] < going[k]
    BY <1>1, <1>4
  <1>8. ASSUME NEW i \in at PROVE T[going[i]] = S[i]
    <2>1. i \in keep /\ i \in DOMAIN s.lines /\ move[i] \in DOMAIN t.lines
      BY <1>1, <1>4
    <2> QED BY <1>3, <2>1
  <1> HIDE DEF S, T, at, to, going
  <1>9. Selected(T, to) = Selected(S, at)
    BY <1>2, <1>4, <1>5, <1>6, <1>7, <1>8, SelectedMoved
  <1> QED BY <1>9 DEF Foreign, Without, S, T, at, to

-----------------------------------------------------------------------------
(* neutron-server.sh is as rendered, or has the flag at one place more.    *)
ScriptFrom(text, chart) ==
    \/ text = chart
    \/ Anchors(chart) # {} /\ text = AddFlag(chart)

LEMMA RenderedScript ==
  ASSUME NEW r \in Renderings
  PROVE  r.script \in AnyText /\ ~HasFlag(r.script) /\ Uncontinued(r.script)
  BY ConfEditAssumption DEF Uncontinued

LEMMA AddFlagFrom ==
  ASSUME NEW text, NEW chart \in AnyText, ~HasFlag(chart), Uncontinued(chart),
         ScriptFrom(text, chart), CanAddFlag(text)
  PROVE  ScriptFrom(AddFlag(text), chart) /\ HasFlag(AddFlag(text))
  <1>1. CASE text = chart
    <2>1. Anchors(chart) # {}
      BY <1>1 DEF CanAddFlag
    <2> QED BY <1>1, <2>1, FlagRoundTrip DEF ScriptFrom
  <1>2. CASE Anchors(chart) # {} /\ text = AddFlag(chart)
    <2>1. HasFlag(text)
      BY <1>2, FlagRoundTrip
    <2>2. AddFlag(text) = text
      BY <2>1 DEF AddFlag
    <2> QED BY <1>2, <2>1, <2>2 DEF ScriptFrom
  <1> QED BY <1>1, <1>2 DEF ScriptFrom

LEMMA RemoveFlagFrom ==
  ASSUME NEW text, NEW chart \in AnyText, ~HasFlag(chart), Uncontinued(chart),
         ScriptFrom(text, chart)
  PROVE  RemoveFlag(text) = chart /\ (~HasFlag(text) => text = chart)
  <1>1. CASE text = chart
    BY <1>1, RemoveFlagNothing
  <1>2. CASE Anchors(chart) # {} /\ text = AddFlag(chart)
    BY <1>2, FlagRoundTrip
  <1> QED BY <1>1, <1>2 DEF ScriptFrom

(* Where the flag was put in.                                              *)
LEMMA ScriptLines ==
  ASSUME NEW chart \in AnyText, ~HasFlag(chart), Uncontinued(chart), Anchors(chart) # {}
  PROVE  \E i \in DOMAIN chart.lines :
           LET text == AddFlag(chart)
           IN  /\ text \in AnyText
               /\ DOMAIN text.lines = 1..(Len(chart.lines) + 1)
               /\ \A k \in DOMAIN chart.lines : k < i => text.lines[k] = chart.lines[k]
               /\ \A k \in DOMAIN chart.lines : k > i => text.lines[k + 1] = chart.lines[k]
               /\ \/ /\ chart.lines[i] = Plain("ml2_conf")
                     /\ text.lines[i] = Plain("ml2_conf \\")
                     /\ text.lines[i + 1] = Plain("flag")
                  \/ /\ chart.lines[i].kind = "confs+=ml2_conf"
                     /\ text.lines[i] = chart.lines[i]
                     /\ text.lines[i + 1] = Plain("confs+=flag")
  <1> DEFINE text == AddFlag(chart)
  <1>1. PICK i \in Anchors(chart) :
           LET legacy == chart.lines[i].kind = "ml2_conf"
           IN  /\ text \in AnyText
               /\ text.newline = chart.newline
               /\ DOMAIN text.lines = 1..(Len(chart.lines) + 1)
               /\ \A k \in DOMAIN chart.lines : k < i => text.lines[k] = chart.lines[k]
               /\ \A k \in DOMAIN chart.lines : k > i => text.lines[k + 1] = chart.lines[k]
               /\ text.lines[i] = IF legacy THEN Plain("ml2_conf \\") ELSE chart.lines[i]
               /\ text.lines[i + 1] = IF legacy THEN Plain("flag") ELSE Plain("confs+=flag")
    BY AddFlagLines
  <1> HIDE DEF text
  <1>2. i \in DOMAIN chart.lines /\ chart.lines[i].kind \in {"ml2_conf", "confs+=ml2_conf"}
    BY DEF Anchors
  <1>3. chart.lines[i].kind = "ml2_conf" => chart.lines[i] = Plain("ml2_conf")
    BY <1>2 DEF Uncontinued
  <1>4. \/ /\ chart.lines[i] = Plain("ml2_conf")
           /\ text.lines[i] = Plain("ml2_conf \\")
           /\ text.lines[i + 1] = Plain("flag")
        \/ /\ chart.lines[i].kind = "confs+=ml2_conf"
           /\ text.lines[i] = chart.lines[i]
           /\ text.lines[i + 1] = Plain("confs+=flag")
    <2>1. CASE chart.lines[i].kind = "ml2_conf"
      BY <1>1, <1>3, <2>1
    <2>2. CASE chart.lines[i].kind # "ml2_conf"
      BY <1>1, <1>2, <2>2
    <2> QED BY <2>1, <2>2
  <1>5. /\ text \in AnyText
        /\ DOMAIN text.lines = 1..(Len(chart.lines) + 1)
        /\ \A k \in DOMAIN chart.lines : k < i => text.lines[k] = chart.lines[k]
        /\ \A k \in DOMAIN chart.lines : k > i => text.lines[k + 1] = chart.lines[k]
    BY <1>1
  <1> QED BY <1>2, <1>4, <1>5 DEF text

WellFormed(lines) ==
    \A i \in DOMAIN lines :
        /\ lines[i].kind = "ml2_conf \\" => i < Len(lines) /\ lines[i + 1].kind = "flag"
        /\ lines[i].kind = "flag" => i > 1 /\ lines[i - 1].kind = "ml2_conf \\"

LEMMA ScriptFromWellFormed ==
  ASSUME NEW text, NEW chart \in AnyText, ~HasFlag(chart), Uncontinued(chart),
         ScriptFrom(text, chart)
  PROVE  text \in AnyText /\ WellFormed(text.lines) /\ Foreign(text) = Foreign(chart)
  <1> DEFINE n == Len(chart.lines)
  <1>1. n \in Nat /\ DOMAIN chart.lines = 1..n
    BY DEF AnyText
  <1>2. \A k \in DOMAIN chart.lines :
           chart.lines[k].kind \notin {"flag", "confs+=flag", "ml2_conf \\"}
    BY DEF HasFlag, Flags, Uncontinued
  <1>3. CASE text = chart
    BY <1>2, <1>3 DEF WellFormed
  <1>4. CASE Anchors(chart) # {} /\ text = AddFlag(chart)
    <2>1. PICK i \in DOMAIN chart.lines :
               /\ text \in AnyText
               /\ DOMAIN text.lines = 1..(Len(chart.lines) + 1)
               /\ \A k \in DOMAIN chart.lines : k < i => text.lines[k] = chart.lines[k]
               /\ \A k \in DOMAIN chart.lines : k > i => text.lines[k + 1] = chart.lines[k]
               /\ \/ /\ chart.lines[i] = Plain("ml2_conf")
                     /\ text.lines[i] = Plain("ml2_conf \\")
                     /\ text.lines[i + 1] = Plain("flag")
                  \/ /\ chart.lines[i].kind = "confs+=ml2_conf"
                     /\ text.lines[i] = chart.lines[i]
                     /\ text.lines[i + 1] = Plain("confs+=flag")
      BY <1>4, ScriptLines
    <2>2. /\ Plain("ml2_conf").kind = "ml2_conf" /\ Plain("ml2_conf \\").kind = "ml2_conf \\"
          /\ Plain("flag").kind = "flag" /\ Plain("confs+=flag").kind = "confs+=flag"
          /\ Plain("ml2_conf").names = Plain("ml2_conf \\").names
      BY DEF Plain, Line
    <2> HIDE DEF n
    <2>3. /\ text.lines \in Seq(AnyLine) /\ Len(text.lines) = n + 1 /\ i \in 1..n
          /\ DOMAIN text.lines = 1..(n + 1)
      <3>1. text.lines \in Seq(AnyLine)
        BY <2>1 DEF AnyText
      <3>2. DOMAIN text.lines = 1..Len(text.lines) /\ Len(text.lines) \in Nat
        BY <3>1
      <3>3. i \in 1..n /\ DOMAIN text.lines = 1..(n + 1)
        BY <1>1, <2>1 DEF n
      <3>4. n + 1 \in 1..Len(text.lines) /\ Len(text.lines) \in 1..(n + 1)
        <4>1. n + 1 \in 1..Len(text.lines)
          BY <1>1, <3>2, <3>3
        <4>2. Len(text.lines) \in 1..Len(text.lines)
          BY <3>2, <4>1
        <4> QED BY <3>2, <3>3, <4>1, <4>2
      <3> QED BY <1>1, <3>1, <3>3, <3>4
    <2>0. \A k \in 1..n : (k < i => text.lines[k] = chart.lines[k])
                           /\ (k > i => text.lines[k + 1] = chart.lines[k])
      BY <1>1, <2>1
    <2>4. /\ text.lines[i].kind \in {"ml2_conf \\", "confs+=ml2_conf"}
          /\ text.lines[i + 1].kind \in {"flag", "confs+=flag"}
          /\ text.lines[i].kind = "ml2_conf \\" <=> text.lines[i + 1].kind = "flag"
      BY <2>1, <2>2
    <2>5. ASSUME NEW k \in 1..(n + 1), k # i, k # i + 1
          PROVE  \E l \in 1..n : text.lines[k] = chart.lines[l] /\ l # i
                                 /\ k = IF l <= i THEN l ELSE l + 1
      <3>1. CASE k < i
        <4>1. k \in 1..n /\ k # i /\ text.lines[k] = chart.lines[k]
          BY <1>1, <2>0, <2>3, <3>1
        <4> QED BY <3>1, <4>1, <2>3
      <3>2. CASE k > i
        <4>1. k - 1 \in 1..n /\ k - 1 > i /\ k - 1 + 1 = k
          BY <1>1, <2>3, <2>5, <3>2
        <4>2. text.lines[k] = chart.lines[k - 1]
          BY <2>0, <4>1
        <4> QED BY <2>3, <4>1, <4>2
      <3> QED BY <2>3, <2>5, <3>1, <3>2
    <2>6. ASSUME NEW k \in 1..(n + 1), k # i, k # i + 1
          PROVE  text.lines[k].kind \notin {"flag", "confs+=flag", "ml2_conf \\"}
      BY <1>1, <1>2, <2>5, <2>6
    <2>7. WellFormed(text.lines)
      <3>1. ASSUME NEW k \in 1..(n + 1), text.lines[k].kind = "ml2_conf \\"
            PROVE  k < n + 1 /\ text.lines[k + 1].kind = "flag"
        <4>1. k = i
          BY <2>4, <2>6, <3>1
        <4>2. i < n + 1 /\ text.lines[i + 1].kind = "flag"
          <5>1. text.lines[i].kind = "ml2_conf \\"
            BY <3>1, <4>1
          <5>2. i < n + 1
            BY <1>1, <2>3
          <5> QED BY <2>4, <5>1, <5>2
        <4> QED BY <4>1, <4>2
      <3>2. ASSUME NEW k \in 1..(n + 1), text.lines[k].kind = "flag"
            PROVE  k > 1 /\ text.lines[k - 1].kind = "ml2_conf \\"
        <4>1. k = i + 1
          BY <2>4, <2>6, <3>2
        <4>2. k - 1 = i /\ k > 1
          BY <1>1, <2>3, <4>1
        <4> QED BY <2>4, <3>2, <4>1, <4>2
      <3> QED BY <2>3, <3>1, <3>2 DEF WellFormed
    <2> DEFINE move == [k \in 1..n |-> IF k <= i THEN k ELSE k + 1]
    <2>8. ASSUME NEW k \in 1..n
          PROVE  /\ move[k] \in 1..(n + 1) /\ move[k] # i + 1
                 /\ k # i => text.lines[move[k]] = chart.lines[k]
                 /\ k = i => move[k] = i
      <3>1. move[k] \in 1..(n + 1) /\ move[k] # i + 1 /\ (k = i => move[k] = i)
        BY <1>1, <2>3
      <3>2. CASE k < i
        BY <2>0, <2>3, <3>1, <3>2
      <3>3. CASE k > i
        <4>1. move[k] = k + 1
          BY <2>3, <3>3
        <4> QED BY <2>0, <3>1, <3>3, <4>1
      <3> QED BY <2>3, <3>1, <3>2, <3>3
    <2>9. ASSUME NEW k \in 1..(n + 1), k # i + 1 PROVE \E l \in 1..n : move[l] = k
      <3>1. CASE k <= i
        <4>1. k \in 1..n /\ move[k] = k
          BY <1>1, <2>3, <3>1
        <4> QED BY <4>1
      <3>2. CASE ~(k <= i)
        <4>1. k - 1 \in 1..n /\ move[k - 1] = k
          BY <1>1, <2>3, <2>9, <3>2
        <4> QED BY <4>1
      <3> QED BY <3>1, <3>2
    <2>10. \A j, k \in 1..n : j < k => move[j] < move[k]
      BY <1>1, <2>3
    <2>11. move \in [1..n -> DOMAIN text.lines]
      BY <2>3, <2>8
    <2> HIDE DEF move
    <2>12. ASSUME NEW k \in 1..n
           PROVE  /\ Alike(chart, k, text.lines[move[k]])
                  /\ chart.lines[k].kind = "header" \/ text.lines[move[k]].kind = "header"
                        => chart.lines[k] = text.lines[move[k]]
      <3>1. CASE k # i
        BY <2>8, <3>1 DEF Alike
      <3>2. CASE k = i
        <4>1. move[k] = i
          BY <2>8, <3>2
        <4> QED BY <2>1, <2>2, <3>2, <4>1 DEF Alike, BareKind
      <3> QED BY <3>1, <3>2
    <2>13. ASSUME NEW h \in Headers(text) PROVE \E k \in 1..n : move[k] = h
      <3>1. h \in 1..(n + 1) /\ h # i + 1
        BY <2>3, <2>4 DEF Headers
      <3> QED BY <2>9, <3>1
    <2>14. KeptLines(chart, text, 1..n, move)
      <3>1. 1..n \in SUBSET DOMAIN chart.lines /\ Headers(chart) \subseteq 1..n
        BY <1>1 DEF Headers
      <3> QED BY <2>1, <2>10, <2>11, <2>12, <2>13, <3>1 DEF KeptLines
    <2>15. \A j \in DOMAIN text.lines : j \in Own(text) \/ \E k \in 1..n : move[k] = j
      <3>1. i + 1 \in DOMAIN text.lines => i + 1 \in Own(text)
        BY <2>4 DEF Own
      <3> QED BY <2>3, <2>9, <3>1
    <2>16. Foreign(text) = Foreign(chart)
      BY <1>1, <2>12, <2>14, <2>15, ForeignMoved
    <2> QED BY <2>1, <2>7, <2>16
  <1> QED BY <1>3, <1>4 DEF ScriptFrom

-----------------------------------------------------------------------------
(* logging.conf. What the two edits do to headers, sections and keys.      *)
LEMMA RemoveLoggerTyped ==
  ASSUME NEW text \in AnyText, NEW d
  PROVE  RemoveLogger(text, d) \in AnyText
  BY RemoveLoggerLines

WithoutLoggers(text) == ForDrivers(RemoveLogger, text)

LEMMA RemoveLoggersSteps ==
  ASSUME drivers \in Seq(DriverSpec), NEW text \in AnyText
  PROVE  \E f : /\ f \in [0..Len(drivers) -> AnyText]
               /\ f[0] = text
               /\ \A i \in 1..Len(drivers) : f[i] = RemoveLogger(f[i - 1], drivers[i].name)
               /\ WithoutLoggers(text) = f[Len(drivers)]
  <1> DEFINE n == Len(drivers)
             step == [i \in 1..n |-> [t \in AnyText |-> RemoveLogger(t, drivers[i].name)]]
             Loop(f) == [i \in 0..n |-> IF i = 0 THEN text
                                        ELSE RemoveLogger(f[i - 1], drivers[i].name)]
  <1>1. n \in Nat
    OBVIOUS
  <1>2. \A i \in 1..n, t \in AnyText : RemoveLogger(t, drivers[i].name) \in AnyText
    BY RemoveLoggerTyped
  <1>3. /\ \A i \in 1..n, t \in AnyText : step[i][t] = RemoveLogger(t, drivers[i].name)
        /\ StepsIn(step, n, AnyText)
    BY <1>2 DEF StepsIn
  <1> HIDE DEF n, step
  <1>4. PICK f \in [0..n -> AnyText] : Stepwise(f, n, text, step)
    BY <1>1, <1>3, StepwiseExists
  <1>5. ASSUME NEW i \in 0..n, i # 0
        PROVE  i \in 1..n /\ i - 1 \in 0..n
    BY <1>1, <1>5
  <1>6. f = Loop(f)
    <2>1. ASSUME NEW i \in 0..n, i # 0
          PROVE  f[i] = RemoveLogger(f[i - 1], drivers[i].name)
      BY <1>3, <1>4, <1>5, <2>1 DEF Stepwise
    <2> QED BY <1>4, <2>1 DEF Stepwise
  <1> DEFINE g == CHOOSE g : g = Loop(g)
  <1>7. g = Loop(g)
    BY <1>6
  <1>8. WithoutLoggers(text) = g[n]
    BY DEF ForDrivers, WithoutLoggers, n
  <1> HIDE DEF g
  <1>9. /\ g = [i \in 0..n |-> g[i]] /\ g[0] = text
        /\ \A i \in 0..n : i # 0 => g[i] = RemoveLogger(g[i - 1], drivers[i].name)
    <2>1. \A i \in 0..n : g[i] = IF i = 0 THEN text ELSE RemoveLogger(g[i - 1], drivers[i].name)
      BY <1>7
    <2>2. g = [i \in 0..n |-> g[i]] /\ 0 \in 0..n
      BY <1>1, <1>7
    <2> QED BY <2>1, <2>2
  <1>10. \A i \in 1..n : g[i] = RemoveLogger(g[i - 1], drivers[i].name)
    BY <1>1, <1>9
  <1>11. \A i \in 0..n : g[i] \in AnyText
    <2> DEFINE T == {i \in 0..n : g[i] \in AnyText}
    <2>1. 0 \in T
      BY <1>1, <1>9
    <2>2. ASSUME NEW i \in 1..n, i - 1 \in T PROVE i \in T
      <3>1. g[i - 1] \in AnyText
        BY <2>2
      <3>2. g[i] \in AnyText /\ i \in 0..n
        BY <1>1, <1>2, <1>10, <3>1
      <3> QED BY <3>2
    <2> HIDE DEF T
    <2>3. \A i \in 0..n : i \in T
      BY <1>1, <2>1, <2>2, InductionUpTo
    <2> QED BY <2>3 DEF T
  <1> QED BY <1>8, <1>9, <1>10, <1>11 DEF n

LEMMA AddLoggerKeeps ==
  ASSUME NEW text \in AnyText, NEW d \in Driver, ~HasLogger(text, d), LoggerKeys(text) # {}
  PROVE  LET after == AddLogger(text, d)
             n == Len(text.lines)
         IN  \E new \in DOMAIN after.lines :
                /\ new > n
                /\ KeptLines(text, after, 1..n, [k \in 1..n |-> k])
                /\ \A k \in 1..n : after.lines[k] =
                      IF k \in LoggerKeys(text) THEN AddName(text.lines[k], d) ELSE text.lines[k]
                /\ Headers(after) = Headers(text) \cup {new}
                /\ after.lines[new] = Header(d)
                /\ LoggerKeys(after) = LoggerKeys(text)
                /\ \A k \in DOMAIN after.lines : k \in 1..n \/ k \in Own(after)
  <1> DEFINE after == AddLogger(text, d)
             n == Len(text.lines)
             move == [k \in 1..n |-> k]
  <1>1. n \in Nat /\ DOMAIN text.lines = 1..n /\ \A k \in 1..n : text.lines[k] \in AnyLine
    BY DEF AnyText
  <1>2. d \in Name /\ d # "loggers"
    BY ConfEditAssumption
  <1>3. PICK g \in {0, 1} :
             /\ after \in AnyText
             /\ \A k \in 1..n : after.lines[k] =
                   IF k \in LoggerKeys(text) THEN AddName(text.lines[k], d) ELSE text.lines[k]
             /\ DOMAIN after.lines = 1..(n + g + 2)
             /\ g = 1 => after.lines[n + 1] = Blank
             /\ after.lines[n + g + 1] = Header(d)
             /\ after.lines[n + g + 2] = Plain("logger")
    BY <1>2, AddLoggerLines
  <1> HIDE DEF after, n
  <1> DEFINE new == n + g + 1
  <1>4. /\ DOMAIN after.lines = 1..(new + 1) /\ new \in Nat /\ new > n /\ new \in 1..(new + 1)
        /\ \A k \in 1..(new + 1) : k \in 1..n \/ k = new \/ k = new + 1 \/ (k = n + 1 /\ g = 1)
        /\ 1..n \subseteq 1..(new + 1)
        /\ after.lines[new] = Header(d) /\ after.lines[new + 1] = Plain("logger")
    BY <1>1, <1>3
  <1>5. /\ Header(d).kind = "header" /\ Plain("logger").kind = "logger" /\ Blank.kind = "blank"
    BY DEF Header, Plain, Blank, Line
  <1> HIDE DEF new
  <1>6. ASSUME NEW k \in 1..n
        PROVE  /\ after.lines[k].kind = text.lines[k].kind
               /\ text.lines[k].kind = "header" => after.lines[k] = text.lines[k]
    <2>1. CASE k \in LoggerKeys(text)
      <3>1. after.lines[k] = AddName(text.lines[k], d) /\ text.lines[k] \in AnyLine
        BY <1>1, <1>3, <2>1
      <3>2. text.lines[k].kind = "keys"
        BY <2>1 DEF LoggerKeys
      <3> QED BY <1>2, <3>1, <3>2, AddNameNames
    <2>2. CASE k \notin LoggerKeys(text)
      BY <1>3, <2>2
    <2> QED BY <2>1, <2>2
  <1>7. ASSUME NEW k \in 1..(new + 1), k \notin 1..n
        PROVE  /\ after.lines[k].kind = "header" <=> k = new
               /\ after.lines[k].kind # "keys"
               /\ k = new \/ k = new + 1 \/ after.lines[k].kind = "blank"
    <2>1. CASE k = new
      BY <1>4, <1>5, <2>1
    <2>2. CASE k = new + 1
      BY <1>4, <1>5, <2>2
    <2>3. CASE k = n + 1 /\ g = 1
      BY <1>3, <1>4, <1>5, <2>3
    <2> QED BY <1>4, <1>7, <2>1, <2>2, <2>3
  <1>8. \A k \in DOMAIN after.lines : k \in Headers(after) <=> k \in Headers(text) \/ k = new
    <2> TAKE k \in DOMAIN after.lines
    <2>1. CASE k \in 1..n
      BY <1>1, <1>4, <1>6, <2>1 DEF Headers
    <2>2. CASE k \notin 1..n
      BY <1>1, <1>4, <1>7, <2>2 DEF Headers
    <2> QED BY <2>1, <2>2
  <1>9. Headers(after) = Headers(text) \cup {new}
    <2>1. Headers(after) \subseteq DOMAIN after.lines /\ Headers(text) \subseteq DOMAIN after.lines
      BY <1>1, <1>4 DEF Headers
    <2> QED BY <1>4, <1>8, <2>1
  <1>10. KeptLines(text, after, 1..n, move)
    <2>1. \A k \in 1..n : move[k] = k
      OBVIOUS
    <2>2. move \in [1..n -> DOMAIN after.lines]
      BY <1>4
    <2> HIDE DEF move
    <2>3. 1..n \in SUBSET DOMAIN text.lines /\ Headers(text) \subseteq 1..n
      BY <1>1 DEF Headers
    <2>4. \A k \in 1..n : text.lines[k].kind = "header" \/ after.lines[move[k]].kind = "header"
                             => text.lines[k] = after.lines[move[k]]
      BY <1>6, <2>1
    <2>5. \A i \in 1..n : \A h \in Headers(after) : h > move[i] \/ \E k \in 1..n : move[k] = h
      <3>1. \A i \in 1..n : new > i
        BY <1>1, <1>4
      <3> QED BY <1>9, <2>1, <2>3, <3>1
    <2>6. \A j, k \in 1..n : j < k => move[j] < move[k]
      BY <2>1
    <2> QED BY <1>3, <2>2, <2>3, <2>4, <2>5, <2>6 DEF KeptLines
  <1>11. ASSUME NEW k \in 1..n, NEW name
         PROVE  InSection(after, k, name) <=> InSection(text, k, name)
    <2>1. InSection(after, move[k], name) <=> InSection(text, k, name)
      <3> HIDE DEF move
      <3> QED BY <1>10, KeptSections
    <2> QED BY <2>1
  <1>12. LoggerKeys(after) = LoggerKeys(text)
    <2>1. \A k \in 1..n : k \in LoggerKeys(after) <=> k \in LoggerKeys(text)
      BY <1>1, <1>4, <1>6, <1>11 DEF LoggerKeys
    <2>2. LoggerKeys(after) \subseteq 1..n /\ LoggerKeys(text) \subseteq 1..n
      BY <1>1, <1>4, <1>7 DEF LoggerKeys
    <2> QED BY <2>1, <2>2
  <1>13. ASSUME NEW k \in DOMAIN after.lines, k \notin 1..n
         PROVE  k \in Own(after)
    <2>1. CASE after.lines[k].kind = "blank"
      BY <2>1 DEF Own
    <2>2. CASE k = new \/ k = new + 1
      <3>1. new \in Headers(after) /\ new <= k
        BY <1>4, <1>9, <2>2
      <3>2. \A h \in Headers(after) : h <= new \/ h > k
        <4>1. \A h \in Headers(text) : h \in 1..n
          BY <1>1 DEF Headers
        <4> QED BY <1>1, <1>4, <1>9, <4>1
      <3>3. InSection(after, k, d)
        BY <1>4, <3>1, <3>2 DEF InSection
      <3> QED BY <3>3 DEF Own
    <2> QED BY <1>4, <1>7, <1>13, <2>1, <2>2
  <1> QED BY <1>3, <1>4, <1>9, <1>10, <1>12, <1>13 DEF after, n

LEMMA RemoveLoggerKeeps ==
  ASSUME NEW text \in AnyText, NEW d \in Driver
  PROVE  LET after == RemoveLogger(text, d)
         IN  \E keep \in SUBSET DOMAIN text.lines :
               \E move \in [keep -> DOMAIN after.lines] :
                 /\ KeptLines(text, after, keep, move)
                 /\ \A j \in DOMAIN after.lines : \E i \in keep : move[i] = j
                 /\ \A i \in keep : after.lines[move[i]] =
                       IF i \in LoggerKeys(text) THEN RemoveName(text.lines[i], d) ELSE text.lines[i]
                 /\ \A i \in DOMAIN text.lines : i \in keep \/ i \in Own(text)
                 /\ \A i \in DOMAIN text.lines : i \in keep <=> ~GoesWith(text, d, i)
                 /\ \A h \in Headers(text) : h \in keep <=> text.lines[h] # Header(d)
                 /\ \A i \in LoggerKeys(text) : i \in keep
                 /\ \A i \in keep : move[i] \in LoggerKeys(after) <=> i \in LoggerKeys(text)
                 /\ \A i \in keep : move[i] \in Headers(after) <=> i \in Headers(text)
  <1> DEFINE after == RemoveLogger(text, d)
  <1>1. d # "loggers"
    BY ConfEditAssumption
  <1>2. PICK keep \in SUBSET DOMAIN text.lines :
             /\ \A i \in DOMAIN text.lines : i \in keep <=> ~GoesWith(text, d, i)
             /\ \E move \in [keep -> DOMAIN after.lines] :
                   /\ \A j \in DOMAIN after.lines : \E i \in keep : move[i] = j
                   /\ \A i, k \in keep : i < k => move[i] < move[k]
                   /\ \A i \in keep :
                         after.lines[move[i]] =
                            IF i \in LoggerKeys(text) THEN RemoveName(text.lines[i], d)
                                                      ELSE text.lines[i]
    BY RemoveLoggerLines
  <1>3. PICK move \in [keep -> DOMAIN after.lines] :
                   /\ \A j \in DOMAIN after.lines : \E i \in keep : move[i] = j
                   /\ \A i, k \in keep : i < k => move[i] < move[k]
                   /\ \A i \in keep :
                         after.lines[move[i]] =
                            IF i \in LoggerKeys(text) THEN RemoveName(text.lines[i], d)
                                                      ELSE text.lines[i]
    BY <1>2
  <1>4. after \in AnyText
    BY RemoveLoggerLines
  <1> HIDE DEF after
  <1>5. ASSUME NEW i \in keep
        PROVE  /\ after.lines[move[i]].kind = text.lines[i].kind
               /\ text.lines[i].kind = "header" => after.lines[move[i]] = text.lines[i]
    <2>1. CASE i \in LoggerKeys(text)
      <3>1. after.lines[move[i]] = RemoveName(text.lines[i], d) /\ text.lines[i] \in AnyLine
        BY <1>3, <2>1 DEF AnyText
      <3>2. text.lines[i].kind = "keys"
        BY <2>1 DEF LoggerKeys
      <3>3. RemoveName(text.lines[i], d).kind = text.lines[i].kind
        BY <3>1, RemoveNameNames
      <3> QED BY <3>1, <3>2, <3>3
    <2>2. CASE i \notin LoggerKeys(text)
      BY <1>3, <2>2
    <2> QED BY <2>1, <2>2
  <1>6. ASSUME NEW h \in Headers(text)
        PROVE  h \in keep <=> text.lines[h] # Header(d)
    <2>1. h \in DOMAIN text.lines /\ text.lines[h] # Blank
      BY DEF Headers, Blank, Plain, Line
    <2>2. GoesWith(text, d, h) <=> text.lines[h] = Header(d)
      BY <2>1, HeaderSection DEF GoesWith
    <2> QED BY <1>2, <2>1, <2>2
  <1>7. ASSUME NEW i \in keep, NEW h \in Headers(text), LastHeaderBefore(text, i, h)
        PROVE  h \in keep
    <2>1. SUFFICES ASSUME text.lines[h] = Header(d) PROVE FALSE
      BY <1>6
    <2>2. InSection(text, i, d)
      BY <1>7, <2>1 DEF InSection, LastHeaderBefore
    <2> QED BY <1>2, <2>2 DEF GoesWith
  <1>8. KeptLines(text, after, keep, move)
    <2>1. \A i \in keep : \A h \in Headers(after) : \E k \in keep : move[k] = h
      BY <1>3 DEF Headers
    <2>2. \A k \in keep : text.lines[k].kind = "header" \/ after.lines[move[k]].kind = "header"
                             => text.lines[k] = after.lines[move[k]]
      BY <1>5
    <2> QED BY <1>3, <1>4, <1>7, <2>1, <2>2 DEF KeptLines
  <1>9. \A i \in keep : move[i] \in Headers(after) <=> i \in Headers(text)
    BY <1>5 DEF Headers
  <1>10. ASSUME NEW i \in keep
         PROVE  move[i] \in LoggerKeys(after) <=> i \in LoggerKeys(text)
    <2>1. InSection(after, move[i], "loggers") <=> InSection(text, i, "loggers")
      BY <1>8, KeptSections
    <2> QED BY <1>5, <2>1 DEF LoggerKeys
  <1>11. ASSUME NEW i \in LoggerKeys(text) PROVE i \in keep
    <2>1. i \in DOMAIN text.lines /\ InSection(text, i, "loggers") /\ text.lines[i] # Blank
      BY DEF LoggerKeys, Blank, Plain, Line
    <2>2. ~InSection(text, i, d)
      BY <1>1, <2>1, SectionUnique
    <2> QED BY <1>2, <2>1, <2>2 DEF GoesWith
  <1>12. ASSUME NEW i \in DOMAIN text.lines, i \notin keep PROVE i \in Own(text)
    <2>1. GoesWith(text, d, i)
      BY <1>2, <1>12
    <2>2. CASE InSection(text, i, d)
      BY <2>2 DEF Own
    <2>3. CASE text.lines[i] = Blank
      <3>1. text.lines[i].kind = "blank"
        BY <2>3 DEF Blank, Plain, Line
      <3> QED BY <3>1 DEF Own
    <2> QED BY <2>1, <2>2, <2>3 DEF GoesWith
  <1> QED BY <1>2, <1>3, <1>6, <1>8, <1>9, <1>10, <1>11, <1>12 DEF after

-----------------------------------------------------------------------------
(* Each driver is a key and has a section, or neither.                     *)
Matched(text, d) ==
    \/ /\ \A i \in LoggerKeys(text) : d \notin Names(text.lines[i])
       /\ ~HasLogger(text, d)
    \/ /\ \A i \in LoggerKeys(text) : d \in Names(text.lines[i])
       /\ \E h \in Headers(text) :
             /\ text.lines[h] = Header(d)
             /\ \A k \in Headers(text) : text.lines[k] = Header(d) => k = h

(* add_driver_logger_to_logging_conf adds one logger, and keeps what is    *)
(* not the guardian's.                                                     *)
THEOREM AddLoggerAddsOne ==
  ASSUME NEW text \in AnyText, NEW d \in Driver, CanAddLogger(text, d),
         \A e \in Driver : Matched(text, e)
  PROVE  /\ AddLogger(text, d) \in AnyText
         /\ \A e \in Driver : Matched(AddLogger(text, d), e)
         /\ \A e \in Driver : HasLogger(AddLogger(text, d), e) <=> HasLogger(text, e) \/ e = d
         /\ Foreign(AddLogger(text, d)) = Foreign(text)
  <1> DEFINE after == AddLogger(text, d)
             n == Len(text.lines)
             move == [k \in 1..n |-> k]
  <1>1. CASE HasLogger(text, d)
    <2>1. after = text
      BY <1>1 DEF AddLogger
    <2> QED BY <1>1, <2>1
  <1>2. CASE ~HasLogger(text, d)
    <2>1. LoggerKeys(text) # {}
      BY <1>2 DEF CanAddLogger
    <2>2. PICK new \in DOMAIN after.lines :
                /\ new > n
                /\ KeptLines(text, after, 1..n, move)
                /\ \A k \in 1..n : after.lines[k] =
                      IF k \in LoggerKeys(text) THEN AddName(text.lines[k], d) ELSE text.lines[k]
                /\ Headers(after) = Headers(text) \cup {new}
                /\ after.lines[new] = Header(d)
                /\ LoggerKeys(after) = LoggerKeys(text)
                /\ \A k \in DOMAIN after.lines : k \in 1..n \/ k \in Own(after)
      BY <1>2, <2>1, AddLoggerKeeps
    <2>3. /\ n \in Nat /\ DOMAIN text.lines = 1..n /\ \A k \in 1..n : text.lines[k] \in AnyLine
          /\ d \in Name
      <3>1. d \in Name
        BY ConfEditAssumption
      <3> QED BY <3>1 DEF AnyText
    <2>4. \A k \in 1..n : move[k] = k
      OBVIOUS
    <2> HIDE DEF after, n, move
    <2>5. after \in AnyText
      BY <2>2 DEF KeptLines
    <2>6. ASSUME NEW k \in LoggerKeys(text)
          PROVE  k \in 1..n /\ Names(after.lines[k]) = Names(text.lines[k]) \cup {d}
                 /\ Dropping(after.lines[k].names, Driver) = Dropping(text.lines[k].names, Driver)
                 /\ after.lines[k].kind = text.lines[k].kind
      <3>1. k \in 1..n
        BY <2>3 DEF LoggerKeys
      <3>2. after.lines[k] = AddName(text.lines[k], d) /\ text.lines[k] \in AnyLine
        BY <2>2, <2>3, <3>1
      <3> QED BY <2>3, <3>1, <3>2, AddNameNames, NamesDropped
    <2>7. ASSUME NEW h \in Headers(text)
          PROVE  h \in 1..n /\ after.lines[h] = text.lines[h] /\ h # new
      <3>1. h \in 1..n /\ h \notin LoggerKeys(text)
        BY <2>3 DEF LoggerKeys, Headers
      <3> QED BY <2>2, <2>3, <3>1
    <2>8. ASSUME NEW e \in Driver
          PROVE  /\ Matched(after, e)
                 /\ HasLogger(after, e) <=> HasLogger(text, e) \/ e = d
      <3>1. CASE e = d
        <4>1. \A k \in Headers(after) : after.lines[k] = Header(d) => k = new
          BY <1>2, <2>2, <2>7 DEF HasLogger
        <4>2. \A k \in LoggerKeys(after) : d \in Names(after.lines[k])
          BY <2>2, <2>6
        <4> QED BY <2>2, <3>1, <4>1, <4>2 DEF Matched, HasLogger
      <3>2. CASE e # d
        <4>1. after.lines[new] # Header(e)
          <5>1. <<d>> # <<e>>
            BY <3>2
          <5> QED BY <2>2, <5>1 DEF Header, Line
        <4>2. HasLogger(after, e) <=> HasLogger(text, e)
          BY <2>2, <2>7, <4>1 DEF HasLogger
        <4>3. \A k \in LoggerKeys(after) :
                 e \in Names(after.lines[k]) <=> e \in Names(text.lines[k])
          BY <2>2, <2>6, <3>2
        <4>4. Matched(text, e)
          OBVIOUS
        <4>5. CASE /\ \A i \in LoggerKeys(text) : e \notin Names(text.lines[i])
                   /\ ~HasLogger(text, e)
          BY <2>2, <3>2, <4>2, <4>3, <4>5 DEF Matched
        <4>6. CASE /\ \A i \in LoggerKeys(text) : e \in Names(text.lines[i])
                   /\ \E h \in Headers(text) :
                         /\ text.lines[h] = Header(e)
                         /\ \A k \in Headers(text) : text.lines[k] = Header(e) => k = h
          <5>1. PICK h \in Headers(text) :
                         /\ text.lines[h] = Header(e)
                         /\ \A k \in Headers(text) : text.lines[k] = Header(e) => k = h
            BY <4>6
          <5>2. h \in Headers(after) /\ after.lines[h] = Header(e)
                /\ \A k \in Headers(after) : after.lines[k] = Header(e) => k = h
            BY <2>2, <2>7, <4>1, <5>1
          <5>3. \A i \in LoggerKeys(after) : e \in Names(after.lines[i])
            BY <2>2, <4>3, <4>6
          <5> QED BY <3>2, <4>2, <5>2, <5>3 DEF Matched
        <4> QED BY <3>2, <4>2, <4>4, <4>5, <4>6 DEF Matched
      <3> QED BY <3>1, <3>2
    <2>9. \A i \in 1..n : Alike(text, i, after.lines[move[i]])
      <3> TAKE i \in 1..n
      <3>1. CASE i \in LoggerKeys(text)
        BY <2>4, <2>6, <3>1 DEF Alike, Listing, LoggerKeys
      <3>2. CASE i \notin LoggerKeys(text)
        BY <2>2, <2>4, <3>2 DEF Alike
      <3> QED BY <3>1, <3>2
    <2>10. Foreign(after) = Foreign(text)
      <3>1. \A j \in DOMAIN after.lines : j \in Own(after) \/ \E i \in 1..n : move[i] = j
        BY <2>2, <2>4
      <3>2. \A i \in DOMAIN text.lines : i \in 1..n \/ i \in Own(text)
        BY <2>3
      <3>3. KeptLines(text, after, 1..n, move)
        BY <2>2
      <3> DEFINE all == 1..n
      <3>4. /\ KeptLines(text, after, all, move)
            /\ \A i \in all : Alike(text, i, after.lines[move[i]])
            /\ \A j \in DOMAIN after.lines : j \in Own(after) \/ \E i \in all : move[i] = j
            /\ \A i \in DOMAIN text.lines : i \in all \/ i \in Own(text)
        BY <2>9, <3>1, <3>2, <3>3
      <3> HIDE DEF all
      <3> QED BY <3>4, ForeignMoved
    <2> QED BY <2>5, <2>8, <2>10 DEF after
  <1> QED BY <1>1, <1>2

(* remove_driver_logger_from_logging_conf takes one logger out, and keeps  *)
(* what is not the guardian's.                                             *)
THEOREM RemoveLoggerRemovesOne ==
  ASSUME NEW text \in AnyText, NEW d \in Driver, \A e \in Driver : Matched(text, e)
  PROVE  /\ RemoveLogger(text, d) \in AnyText
         /\ \A e \in Driver : Matched(RemoveLogger(text, d), e)
         /\ \A e \in Driver : HasLogger(RemoveLogger(text, d), e) <=> HasLogger(text, e) /\ e # d
         /\ Foreign(RemoveLogger(text, d)) = Foreign(text)
  <1> DEFINE after == RemoveLogger(text, d)
  <1>1. PICK keep \in SUBSET DOMAIN text.lines :
               \E move \in [keep -> DOMAIN after.lines] :
                 /\ KeptLines(text, after, keep, move)
                 /\ \A j \in DOMAIN after.lines : \E i \in keep : move[i] = j
                 /\ \A i \in keep : after.lines[move[i]] =
                       IF i \in LoggerKeys(text) THEN RemoveName(text.lines[i], d) ELSE text.lines[i]
                 /\ \A i \in DOMAIN text.lines : i \in keep \/ i \in Own(text)
                 /\ \A i \in DOMAIN text.lines : i \in keep <=> ~GoesWith(text, d, i)
                 /\ \A h \in Headers(text) : h \in keep <=> text.lines[h] # Header(d)
                 /\ \A i \in LoggerKeys(text) : i \in keep
                 /\ \A i \in keep : move[i] \in LoggerKeys(after) <=> i \in LoggerKeys(text)
                 /\ \A i \in keep : move[i] \in Headers(after) <=> i \in Headers(text)
    BY RemoveLoggerKeeps
  <1>2. PICK move \in [keep -> DOMAIN after.lines] :
                 /\ KeptLines(text, after, keep, move)
                 /\ \A j \in DOMAIN after.lines : \E i \in keep : move[i] = j
                 /\ \A i \in keep : after.lines[move[i]] =
                       IF i \in LoggerKeys(text) THEN RemoveName(text.lines[i], d) ELSE text.lines[i]
                 /\ \A i \in DOMAIN text.lines : i \in keep \/ i \in Own(text)
                 /\ \A i \in DOMAIN text.lines : i \in keep <=> ~GoesWith(text, d, i)
                 /\ \A h \in Headers(text) : h \in keep <=> text.lines[h] # Header(d)
                 /\ \A i \in LoggerKeys(text) : i \in keep
                 /\ \A i \in keep : move[i] \in LoggerKeys(after) <=> i \in LoggerKeys(text)
                 /\ \A i \in keep : move[i] \in Headers(after) <=> i \in Headers(text)
    BY <1>1
  <1> HIDE DEF after
  <1>3. after \in AnyText
    BY <1>2 DEF KeptLines
  <1>4. ASSUME NEW i \in LoggerKeys(text)
        PROVE  /\ i \in keep /\ move[i] \in LoggerKeys(after)
               /\ Names(after.lines[move[i]]) = Names(text.lines[i]) \ {d}
               /\ Dropping(after.lines[move[i]].names, Driver) = Dropping(text.lines[i].names, Driver)
               /\ after.lines[move[i]].kind = text.lines[i].kind
    <2>1. i \in keep /\ move[i] \in LoggerKeys(after)
      BY <1>2
    <2>2. after.lines[move[i]] = RemoveName(text.lines[i], d)
      BY <1>2, <2>1
    <2>3. text.lines[i] \in AnyLine
      BY DEF LoggerKeys, AnyText
    <2>4. /\ RemoveName(text.lines[i], d).kind = text.lines[i].kind
          /\ Names(RemoveName(text.lines[i], d)) = Names(text.lines[i]) \ {d}
      BY <2>3, RemoveNameNames
    <2> QED BY <2>1, <2>2, <2>3, <2>4, NamesDropped
  <1>5. ASSUME NEW j \in LoggerKeys(after) PROVE \E i \in LoggerKeys(text) : move[i] = j
    <2>1. j \in DOMAIN after.lines
      BY DEF LoggerKeys
    <2> QED BY <1>2, <2>1
  <1>6. ASSUME NEW h \in Headers(text), text.lines[h] # Header(d)
        PROVE  h \in keep /\ move[h] \in Headers(after) /\ after.lines[move[h]] = text.lines[h]
    <2>1. h \in keep /\ move[h] \in Headers(after)
      BY <1>2, <1>6
    <2>2. h \notin LoggerKeys(text)
      BY DEF Headers, LoggerKeys
    <2> QED BY <1>2, <2>1, <2>2
  <1>7. ASSUME NEW g \in Headers(after)
        PROVE  \E h \in Headers(text) : move[h] = g /\ text.lines[h] # Header(d)
                                        /\ after.lines[g] = text.lines[h]
    <2>1. g \in DOMAIN after.lines
      BY DEF Headers
    <2>2. PICK h \in keep : move[h] = g
      BY <1>2, <2>1
    <2>3. h \in Headers(text) /\ text.lines[h] # Header(d)
      BY <1>2, <2>2
    <2> QED BY <1>6, <2>2, <2>3
  <1>8. ASSUME NEW e \in Driver
        PROVE  /\ Matched(after, e)
               /\ HasLogger(after, e) <=> HasLogger(text, e) /\ e # d
    <2>1. CASE e = d
      <3>1. ~HasLogger(after, d)
        BY <1>7 DEF HasLogger
      <3>2. \A j \in LoggerKeys(after) : d \notin Names(after.lines[j])
        BY <1>4, <1>5
      <3> QED BY <2>1, <3>1, <3>2 DEF Matched
    <2>2. CASE e # d
      <3>1. Header(e) # Header(d)
        <4>1. <<e>> # <<d>>
          BY <2>2
        <4> QED BY <4>1 DEF Header, Line
      <3>2. HasLogger(after, e) <=> HasLogger(text, e)
        <4>1. ASSUME HasLogger(text, e) PROVE HasLogger(after, e)
          BY <1>6, <3>1, <4>1 DEF HasLogger
        <4>2. ASSUME HasLogger(after, e) PROVE HasLogger(text, e)
          BY <1>7, <4>2 DEF HasLogger
        <4> QED BY <4>1, <4>2
      <3>3. Matched(text, e)
        OBVIOUS
      <3>4. CASE /\ \A i \in LoggerKeys(text) : e \notin Names(text.lines[i])
                 /\ ~HasLogger(text, e)
        <4>1. \A j \in LoggerKeys(after) : e \notin Names(after.lines[j])
          BY <1>4, <1>5, <3>4
        <4> QED BY <2>2, <3>2, <3>4, <4>1 DEF Matched
      <3>5. CASE /\ \A i \in LoggerKeys(text) : e \in Names(text.lines[i])
                 /\ \E h \in Headers(text) :
                       /\ text.lines[h] = Header(e)
                       /\ \A k \in Headers(text) : text.lines[k] = Header(e) => k = h
        <4>1. PICK h \in Headers(text) :
                       /\ text.lines[h] = Header(e)
                       /\ \A k \in Headers(text) : text.lines[k] = Header(e) => k = h
          BY <3>5
        <4>2. move[h] \in Headers(after) /\ after.lines[move[h]] = Header(e)
          BY <1>6, <3>1, <4>1
        <4>3. \A g \in Headers(after) : after.lines[g] = Header(e) => g = move[h]
          BY <1>7, <4>1
        <4>4. \A j \in LoggerKeys(after) : e \in Names(after.lines[j])
          BY <1>4, <1>5, <2>2, <3>5
        <4> QED BY <2>2, <3>2, <4>2, <4>3, <4>4 DEF Matched
      <3> QED BY <2>2, <3>2, <3>3, <3>4, <3>5 DEF Matched
    <2> QED BY <2>1, <2>2
  <1>9. \A i \in keep : Alike(text, i, after.lines[move[i]])
    <2> TAKE i \in keep
    <2>1. CASE i \in LoggerKeys(text)
      BY <1>4, <2>1 DEF Alike, Listing, LoggerKeys
    <2>2. CASE i \notin LoggerKeys(text)
      BY <1>2, <2>2 DEF Alike
    <2> QED BY <2>1, <2>2
  <1>10. Foreign(after) = Foreign(text)
    BY <1>2, <1>9, ForeignMoved
  <1> QED BY <1>3, <1>8, <1>10 DEF after

-----------------------------------------------------------------------------
(* logging.conf, when the chart has written it as the guardian would: its  *)
(* lines come first, with edited keys, and every line after them goes with *)
(* the logger of some driver.                                              *)
LogFrom(text, chart) ==
    /\ text \in AnyText
    /\ text.newline = chart.newline
    /\ LoggerKeys(text) = LoggerKeys(chart)
    /\ DOMAIN chart.lines \subseteq DOMAIN text.lines
    /\ \A i \in DOMAIN chart.lines :
          IF i \in LoggerKeys(chart) THEN LineFrom(text.lines[i], chart.lines[i])
                                     ELSE text.lines[i] = chart.lines[i]
    /\ \A i \in DOMAIN text.lines :
          i \in DOMAIN chart.lines \/ \E d \in Driver : GoesWith(text, d, i)

WrittenChart(chart) ==
    /\ chart \in AnyText /\ AsWritten(chart)
    /\ \A d \in Driver : ~HasLogger(chart, d)
    /\ \A i \in LoggerKeys(chart) : Names(chart.lines[i]) \cap Driver = {}

LEMMA LogFromItself ==
  ASSUME NEW chart, WrittenChart(chart)
  PROVE  LogFrom(chart, chart)
  <1>1. \A i \in LoggerKeys(chart) : chart.lines[i] \in AnyLine
    BY DEF WrittenChart, LoggerKeys, AnyText
  <1>2. \A i \in LoggerKeys(chart) : LineFrom(chart.lines[i], chart.lines[i])
    BY <1>1, LineFromItself DEF WrittenChart
  <1> QED BY <1>2 DEF LogFrom, WrittenChart

(* What is the chart's has no header of a driver, and no blank line last.  *)
LEMMA ChartLines ==
  ASSUME NEW text, NEW chart, WrittenChart(chart), LogFrom(text, chart),
         NEW i \in DOMAIN chart.lines, NEW d \in Driver
  PROVE  text.lines[i] # Header(d) /\ (i = Len(chart.lines) => text.lines[i] # Blank)
  <1>1. Header(d).kind = "header" /\ Blank.kind = "blank"
    BY DEF Header, Blank, Plain, Line
  <1>2. CASE i \in LoggerKeys(chart)
    <2>1. text.lines[i].kind = "keys"
      BY <1>2 DEF LogFrom, LineFrom, LoggerKeys
    <2> QED BY <1>1, <2>1
  <1>3. CASE i \notin LoggerKeys(chart)
    <2>1. text.lines[i] = chart.lines[i]
      BY <1>3 DEF LogFrom
    <2>2. chart.lines[i] # Header(d)
      BY <1>1 DEF WrittenChart, HasLogger, Headers
    <2>3. i = Len(chart.lines) => chart.lines[i] # Blank
      BY DEF WrittenChart, AsWritten, Last
    <2> QED BY <2>1, <2>2, <2>3
  <1> QED BY <1>2, <1>3

LEMMA AddLoggerFrom ==
  ASSUME NEW text, NEW chart, WrittenChart(chart), LogFrom(text, chart),
         NEW d \in Driver, CanAddLogger(text, d)
  PROVE  LogFrom(AddLogger(text, d), chart)
  <1> DEFINE after == AddLogger(text, d)
             n == Len(text.lines)
             move == [k \in 1..n |-> k]
  <1>1. CASE HasLogger(text, d)
    BY <1>1 DEF AddLogger
  <1>2. CASE ~HasLogger(text, d)
    <2>1. LoggerKeys(text) # {} /\ text \in AnyText /\ d \in Name
      <3>1. d \in Name
        BY ConfEditAssumption
      <3> QED BY <1>2, <3>1 DEF CanAddLogger, LogFrom
    <2>2. PICK new \in DOMAIN after.lines :
                /\ new > n
                /\ KeptLines(text, after, 1..n, move)
                /\ \A k \in 1..n : after.lines[k] =
                      IF k \in LoggerKeys(text) THEN AddName(text.lines[k], d) ELSE text.lines[k]
                /\ Headers(after) = Headers(text) \cup {new}
                /\ after.lines[new] = Header(d)
                /\ LoggerKeys(after) = LoggerKeys(text)
                /\ \A k \in DOMAIN after.lines : k \in 1..n \/ k \in Own(after)
      BY <1>2, <2>1, AddLoggerKeeps
    <2>3. after.newline = TRUE
      BY <1>2, <2>1, AddLoggerLines
    <2>4. PICK g \in {0, 1} :
                /\ DOMAIN after.lines = 1..(n + g + 2)
                /\ g = 1 => after.lines[n + 1] = Blank
                /\ after.lines[n + g + 1] = Header(d)
                /\ after.lines[n + g + 2] = Plain("logger")
      BY <1>2, <2>1, AddLoggerLines
    <2>5. n \in Nat /\ DOMAIN text.lines = 1..n /\ DOMAIN chart.lines \subseteq 1..n
      <3>1. n \in Nat /\ DOMAIN text.lines = 1..n
        BY <2>1 DEF AnyText
      <3> QED BY <3>1 DEF LogFrom
    <2>6. \A k \in 1..n : move[k] = k
      OBVIOUS
    <2> HIDE DEF after, n, move
    <2>7. /\ after \in AnyText /\ 1..n \subseteq DOMAIN after.lines
          /\ n + g + 1 \in DOMAIN after.lines
      <3>1. 1..n \subseteq 1..(n + g + 2) /\ n + g + 1 \in 1..(n + g + 2)
        BY <2>5
      <3> QED BY <2>2, <2>4, <3>1 DEF KeptLines
    <2>8. new = n + g + 1
      <3>1. n + g + 1 \in Headers(after)
        BY <2>4, <2>7 DEF Headers, Header, Line
      <3>2. n + g + 1 \notin Headers(text)
        BY <2>5 DEF Headers
      <3> QED BY <2>2, <3>1, <3>2
    <2>9. ASSUME NEW i \in DOMAIN chart.lines
          PROVE  IF i \in LoggerKeys(chart) THEN LineFrom(after.lines[i], chart.lines[i])
                                            ELSE after.lines[i] = chart.lines[i]
      <3>1. i \in 1..n /\ LoggerKeys(text) = LoggerKeys(chart)
        BY <2>5 DEF LogFrom
      <3>2. CASE i \in LoggerKeys(chart)
        <4>1. after.lines[i] = AddName(text.lines[i], d)
          BY <2>2, <3>1, <3>2
        <4>2. LineFrom(text.lines[i], chart.lines[i])
          BY <3>2 DEF LogFrom
        <4> QED BY <3>2, <4>1, <4>2, NamesFrom
      <3>3. CASE i \notin LoggerKeys(chart)
        <4>1. after.lines[i] = text.lines[i]
          BY <2>2, <3>1, <3>3
        <4> QED BY <3>3, <4>1 DEF LogFrom
      <3> QED BY <3>2, <3>3
    <2>10. \A i \in 1..n, e \in Driver : InSection(after, i, e) <=> InSection(text, i, e)
      <3> TAKE i \in 1..n, e \in Driver
      <3> DEFINE all == 1..n
      <3>1. KeptLines(text, after, all, move) /\ i \in all
        BY <2>2
      <3> HIDE DEF all
      <3>2. InSection(after, move[i], e) <=> InSection(text, i, e)
        BY <3>1, KeptSections
      <3> QED BY <2>6, <3>2
    <2>11. ASSUME NEW i \in DOMAIN after.lines, i \notin DOMAIN chart.lines
           PROVE  \E e \in Driver : GoesWith(after, e, i)
      <3>1. CASE i \in 1..n
        <4>1. PICK e \in Driver : GoesWith(text, e, i)
          BY <2>5, <2>11, <3>1 DEF LogFrom
        <4>2. CASE InSection(text, i, e)
          BY <2>10, <3>1, <4>2 DEF GoesWith
        <4>3. CASE text.lines[i] = Blank /\ i + 1 \in Headers(text) /\ InSection(text, i + 1, e)
          <5>1. i + 1 \in 1..n
            BY <2>5, <4>3 DEF Headers
          <5>2. i \notin LoggerKeys(text)
            BY <4>3 DEF LoggerKeys, Blank, Plain, Line
          <5>3. after.lines[i] = Blank /\ i + 1 \in Headers(after) /\ InSection(after, i + 1, e)
            BY <2>2, <2>10, <3>1, <4>3, <5>1, <5>2
          <5> QED BY <5>3 DEF GoesWith
        <4> QED BY <4>1, <4>2, <4>3 DEF GoesWith
      <3>2. CASE i \notin 1..n
        <4>1. InSection(after, new, d)
          BY <2>2, <2>7, HeaderSection
        <4>2. i = new \/ i = new + 1 \/ (i + 1 = new /\ after.lines[i] = Blank)
          BY <2>4, <2>5, <2>8, <3>2
        <4>3. CASE i = new
          BY <4>1, <4>3 DEF GoesWith
        <4>4. CASE i = new + 1
          <5>1. \A h \in Headers(after) : h <= new \/ h > i
            <6>1. \A h \in Headers(text) : h \in 1..n
              BY <2>5 DEF Headers
            <6> QED BY <2>2, <2>5, <2>8, <4>4, <6>1
          <5>2. new <= i /\ new \in Headers(after)
            BY <2>2, <2>5, <2>8, <4>4
          <5>3. InSection(after, i, d)
            BY <2>2, <5>1, <5>2 DEF InSection
          <5> QED BY <5>3 DEF GoesWith
        <4>5. CASE i + 1 = new /\ after.lines[i] = Blank
          BY <2>2, <4>1, <4>5 DEF GoesWith
        <4> QED BY <4>2, <4>3, <4>4, <4>5
      <3> QED BY <3>1, <3>2
    <2>12. after.newline = chart.newline /\ LoggerKeys(after) = LoggerKeys(chart)
      BY <2>2, <2>3 DEF LogFrom, WrittenChart, AsWritten
    <2>13. DOMAIN chart.lines \subseteq DOMAIN after.lines
      BY <2>5, <2>7
    <2>14. LogFrom(after, chart)
      BY <2>7, <2>9, <2>11, <2>12, <2>13 DEF LogFrom
    <2> QED BY <2>14 DEF after
  <1> QED BY <1>1, <1>2

(* The numbers in keep, of 1..m, become 1..c in their order.               *)
Renumbers(move, keep, m, c) ==
    /\ keep \in SUBSET (1..m) /\ move \in [keep -> 1..c]
    /\ \A j \in 1..c : \E i \in keep : move[i] = j
    /\ \A j, k \in keep : j < k => move[j] < move[k]

Prefix(n, keep) == 1..n \subseteq keep

LEMMA FirstLinesStay ==
  ASSUME NEW n \in Nat, NEW m \in Nat, NEW c \in Nat, NEW keep, NEW move,
         Renumbers(move, keep, m, c), Prefix(n, keep)
  PROVE  \A i \in 1..n : move[i] = i
  <1> USE DEF Renumbers, Prefix
  <1> DEFINE T == {i \in 0..n : i = 0 \/ move[i] = i}
  <1>1. 0 \in T
    OBVIOUS
  <1>2. ASSUME NEW i \in 1..n, i - 1 \in T PROVE i \in T
    <2>1. i \in keep /\ move[i] \in 1..c
      OBVIOUS
    <2>2. i = 1 \/ (i - 1 \in keep /\ move[i - 1] = i - 1)
      BY <1>2
    <2>3. move[i] >= i
      <3>1. CASE i = 1
        BY <2>1, <3>1
      <3>2. CASE i - 1 \in keep /\ move[i - 1] = i - 1
        BY <2>1, <3>2
      <3> QED BY <2>2, <3>1, <3>2
    <2>4. ASSUME move[i] > i PROVE FALSE
      <3>1. PICK k \in keep : move[k] = i
        BY <2>1, <2>4
      <3>2. CASE k < i
        <4>1. i - 1 \in keep /\ move[i - 1] = i - 1
          BY <2>2, <3>2
        <4>2. k = i - 1 \/ move[k] < move[i - 1]
          BY <3>2, <4>1
        <4> QED BY <3>1, <4>1, <4>2
      <3>3. CASE k > i
        <4>1. move[i] < move[k]
          BY <2>1, <3>3
        <4> QED BY <2>1, <2>4, <3>1, <4>1
      <3>4. CASE k = i
        BY <2>4, <3>1, <3>4
      <3> QED BY <3>2, <3>3, <3>4
    <2>5. move[i] = i
      BY <2>1, <2>3, <2>4
    <2> QED BY <2>5
  <1> HIDE DEF T
  <1>3. \A i \in 0..n : i \in T
    BY <1>1, <1>2, InductionUpTo
  <1> QED BY <1>3 DEF T

LEMMA NeighboursStay ==
  ASSUME NEW m \in Nat, NEW c \in Nat, NEW keep, NEW move, Renumbers(move, keep, m, c),
         NEW i \in keep, i + 1 \in keep
  PROVE  move[i + 1] = move[i] + 1
  <1> USE DEF Renumbers
  <1>1. move[i] \in 1..c /\ move[i + 1] \in 1..c /\ move[i] < move[i + 1]
    OBVIOUS
  <1>2. SUFFICES ASSUME move[i] + 1 < move[i + 1] PROVE FALSE
    BY <1>1
  <1>3. PICK k \in keep : move[k] = move[i] + 1
    BY <1>1, <1>2
  <1>4. k \in Nat /\ i \in Nat
    OBVIOUS
  <1>5. CASE k < i
    BY <1>1, <1>3, <1>5
  <1>6. CASE k = i
    BY <1>1, <1>3, <1>6
  <1>7. CASE k = i + 1
    BY <1>1, <1>2, <1>3, <1>7
  <1>8. CASE k > i + 1
    BY <1>1, <1>2, <1>3, <1>8
  <1> QED BY <1>4, <1>5, <1>6, <1>7, <1>8

LEMMA RemoveLoggerFrom ==
  ASSUME NEW text, NEW chart, WrittenChart(chart), LogFrom(text, chart), NEW d \in Driver
  PROVE  LogFrom(RemoveLogger(text, d), chart)
  <1> DEFINE after == RemoveLogger(text, d)
             n == Len(chart.lines)
             m == Len(text.lines)
             c == Len(after.lines)
  <1>0. text \in AnyText
    BY DEF LogFrom
  <1>1. PICK keep \in SUBSET DOMAIN text.lines :
               \E move \in [keep -> DOMAIN after.lines] :
                 /\ KeptLines(text, after, keep, move)
                 /\ \A j \in DOMAIN after.lines : \E i \in keep : move[i] = j
                 /\ \A i \in keep : after.lines[move[i]] =
                       IF i \in LoggerKeys(text) THEN RemoveName(text.lines[i], d) ELSE text.lines[i]
                 /\ \A i \in DOMAIN text.lines : i \in keep \/ i \in Own(text)
                 /\ \A i \in DOMAIN text.lines : i \in keep <=> ~GoesWith(text, d, i)
                 /\ \A h \in Headers(text) : h \in keep <=> text.lines[h] # Header(d)
                 /\ \A i \in LoggerKeys(text) : i \in keep
                 /\ \A i \in keep : move[i] \in LoggerKeys(after) <=> i \in LoggerKeys(text)
                 /\ \A i \in keep : move[i] \in Headers(after) <=> i \in Headers(text)
    BY <1>0, RemoveLoggerKeeps
  <1>2. PICK move \in [keep -> DOMAIN after.lines] :
                 /\ KeptLines(text, after, keep, move)
                 /\ \A j \in DOMAIN after.lines : \E i \in keep : move[i] = j
                 /\ \A i \in keep : after.lines[move[i]] =
                       IF i \in LoggerKeys(text) THEN RemoveName(text.lines[i], d) ELSE text.lines[i]
                 /\ \A i \in DOMAIN text.lines : i \in keep \/ i \in Own(text)
                 /\ \A i \in DOMAIN text.lines : i \in keep <=> ~GoesWith(text, d, i)
                 /\ \A h \in Headers(text) : h \in keep <=> text.lines[h] # Header(d)
                 /\ \A i \in LoggerKeys(text) : i \in keep
                 /\ \A i \in keep : move[i] \in LoggerKeys(after) <=> i \in LoggerKeys(text)
                 /\ \A i \in keep : move[i] \in Headers(after) <=> i \in Headers(text)
    BY <1>1
  <1>3. after \in AnyText /\ after.newline = text.newline
    BY <1>0, RemoveLoggerLines
  <1> HIDE DEF after
  <1>4. /\ n \in Nat /\ DOMAIN chart.lines = 1..n
        /\ m \in Nat /\ DOMAIN text.lines = 1..m
        /\ c \in Nat /\ DOMAIN after.lines = 1..c
        /\ 1..n \subseteq 1..m
    <2>1. n \in Nat /\ DOMAIN chart.lines = 1..n
      BY DEF WrittenChart, AnyText
    <2>2. m \in Nat /\ DOMAIN text.lines = 1..m /\ c \in Nat /\ DOMAIN after.lines = 1..c
      BY <1>0, <1>3 DEF AnyText
    <2> QED BY <2>1, <2>2 DEF LogFrom
  <1>5. \A j, k \in keep : j < k => move[j] < move[k]
    BY <1>2 DEF KeptLines
  <1>6. 1..n \subseteq keep
    <2> SUFFICES ASSUME NEW i \in 1..n, GoesWith(text, d, i) PROVE FALSE
      BY <1>2, <1>4
    <2>1. \A k \in 1..n : text.lines[k] # Header(d)
      BY <1>4, ChartLines
    <2>2. CASE InSection(text, i, d)
      <3>1. PICK h \in Headers(text) : h <= i /\ text.lines[h] = Header(d)
        BY <2>2 DEF InSection
      <3>2. h \in 1..n
        BY <1>4, <3>1 DEF Headers
      <3> QED BY <2>1, <3>1, <3>2
    <2>3. CASE text.lines[i] = Blank /\ i + 1 \in Headers(text) /\ InSection(text, i + 1, d)
      <3>1. text.lines[i + 1] = Header(d)
        BY <1>0, <2>3, HeaderSection
      <3>2. i = n
        BY <1>4, <2>1, <3>1
      <3> QED BY <1>4, <2>3, <3>2, ChartLines
    <2> QED BY <2>2, <2>3 DEF GoesWith
  <1>7. Renumbers(move, keep, m, c)
    BY <1>2, <1>4, <1>5 DEF Renumbers
  <1>8. Prefix(n, keep)
    BY <1>6 DEF Prefix
  <1> HIDE DEF n, m, c
  <1>9. \A i \in 1..n : move[i] = i
    BY <1>4, <1>7, <1>8, FirstLinesStay
  <1>10. LoggerKeys(after) = LoggerKeys(chart)
    <2>1. LoggerKeys(text) = LoggerKeys(chart) /\ LoggerKeys(chart) \subseteq 1..n
      BY <1>4 DEF LogFrom, LoggerKeys
    <2>2. \A i \in LoggerKeys(text) : i \in LoggerKeys(after)
      BY <1>2, <1>6, <1>9, <2>1
    <2>3. ASSUME NEW j \in LoggerKeys(after) PROVE j \in LoggerKeys(text)
      <3>1. j \in DOMAIN after.lines
        BY DEF LoggerKeys
      <3>2. PICK i \in keep : move[i] = j
        BY <1>2, <3>1
      <3>3. i \in LoggerKeys(text)
        BY <1>2, <3>2
      <3> QED BY <1>9, <2>1, <3>2, <3>3
    <2> QED BY <2>1, <2>2, <2>3
  <1>11. ASSUME NEW i \in DOMAIN chart.lines
         PROVE  /\ i \in DOMAIN after.lines
                /\ IF i \in LoggerKeys(chart) THEN LineFrom(after.lines[i], chart.lines[i])
                                              ELSE after.lines[i] = chart.lines[i]
    <2>1. i \in keep /\ move[i] = i /\ i \in DOMAIN after.lines /\ LoggerKeys(text) = LoggerKeys(chart)
      BY <1>2, <1>4, <1>6, <1>9 DEF LogFrom
    <2>2. CASE i \in LoggerKeys(chart)
      <3>1. after.lines[i] = RemoveName(text.lines[i], d)
        BY <1>2, <2>1, <2>2
      <3>2. LineFrom(text.lines[i], chart.lines[i])
        BY <2>2 DEF LogFrom
      <3> QED BY <2>1, <2>2, <3>1, <3>2, NamesFrom
    <2>3. CASE i \notin LoggerKeys(chart)
      <3>1. after.lines[i] = text.lines[i]
        BY <1>2, <2>1, <2>3
      <3> QED BY <2>1, <2>3, <3>1 DEF LogFrom
    <2> QED BY <2>2, <2>3
  <1>12. ASSUME NEW j \in DOMAIN after.lines, j \notin DOMAIN chart.lines
         PROVE  \E e \in Driver : GoesWith(after, e, j)
    <2>1. PICK i \in keep : move[i] = j
      BY <1>2
    <2>2. i \in DOMAIN text.lines /\ i \notin DOMAIN chart.lines /\ ~GoesWith(text, d, i)
      BY <1>2, <1>4, <1>9, <1>12, <2>1
    <2>3. PICK e \in Driver : GoesWith(text, e, i)
      BY <2>2 DEF LogFrom
    <2>4. e # d
      BY <2>2, <2>3
    <2>5. CASE InSection(text, i, e)
      <3>1. InSection(after, move[i], e)
        BY <1>2, <2>5, KeptSections
      <3> QED BY <2>1, <3>1 DEF GoesWith
    <2>6. CASE text.lines[i] = Blank /\ i + 1 \in Headers(text) /\ InSection(text, i + 1, e)
      <3>1. text.lines[i + 1] = Header(e) /\ Header(e) # Header(d)
        <4>1. <<e>> # <<d>>
          BY <2>4
        <4> QED BY <1>0, <2>6, <4>1, HeaderSection DEF Header, Line
      <3>2. i + 1 \in keep
        BY <1>2, <2>6, <3>1
      <3>3. move[i + 1] = move[i] + 1
        <4>1. i \in keep /\ i + 1 \in keep
          BY <3>2
        <4>2. m \in Nat /\ c \in Nat
          BY <1>4
        <4> QED BY ONLY <1>7, <4>1, <4>2, NeighboursStay
      <3>4. InSection(after, move[i + 1], e)
        BY <1>2, <2>6, <3>2, KeptSections
      <3>5. move[i + 1] \in Headers(after)
        BY <1>2, <2>6, <3>2
      <3>6. i \notin LoggerKeys(text)
        BY <2>6 DEF LoggerKeys, Blank, Plain, Line
      <3>7. after.lines[move[i]] = Blank
        BY <1>2, <2>6, <3>6
      <3> QED BY <2>1, <3>3, <3>4, <3>5, <3>7 DEF GoesWith
    <2> QED BY <2>3, <2>5, <2>6 DEF GoesWith
  <1>13. after.newline = chart.newline
    BY <1>3 DEF LogFrom
  <1>14. LogFrom(after, chart)
    <2>1. DOMAIN chart.lines \subseteq DOMAIN after.lines
      BY <1>11
    <2>2. \A i \in DOMAIN chart.lines :
             IF i \in LoggerKeys(chart) THEN LineFrom(after.lines[i], chart.lines[i])
                                        ELSE after.lines[i] = chart.lines[i]
      BY <1>11
    <2>3. \A j \in DOMAIN after.lines : j \in DOMAIN chart.lines \/ \E e \in Driver : GoesWith(after, e, j)
      BY <1>12
    <2> QED BY <1>3, <1>10, <1>13, <2>1, <2>2, <2>3 DEF LogFrom
  <1> QED BY <1>14 DEF after

-----------------------------------------------------------------------------
(* With the drivers out of them, the texts are the chart's.                *)
LEMMA SameText ==
  ASSUME NEW text \in AnyText, NEW chart \in AnyText,
         text.newline = chart.newline, DOMAIN text.lines = DOMAIN chart.lines,
         \A i \in DOMAIN chart.lines : text.lines[i] = chart.lines[i]
  PROVE  text = chart
  <1>1. text.lines \in Seq(AnyLine) /\ chart.lines \in Seq(AnyLine)
    BY DEF AnyText
  <1>2. Len(text.lines) = Len(chart.lines)
    BY <1>1
  <1>3. text.lines = chart.lines
    BY <1>1, <1>2
  <1> QED BY <1>3 DEF AnyText

LEMMA SameLine ==
  ASSUME NEW line, NEW chart \in AnyLine, LineFrom(line, chart), chart.tidy,
         Names(line) \cap Driver = {}
  PROVE  line = chart
  <1>1. line \in AnyLine /\ line.kind = chart.kind /\ line.tidy = chart.tidy
    BY DEF LineFrom, AnyLine
  <1>2. line.names \in Seq(Name) /\ \A i \in DOMAIN line.names : line.names[i] \notin Driver
    BY <1>1 DEF AnyLine, Names
  <1>3. line.names = chart.names
    BY <1>2, DroppingNames DEF LineFrom
  <1>4. /\ line = [kind |-> line.kind, names |-> line.names, tidy |-> line.tidy]
        /\ chart = [kind |-> chart.kind, names |-> chart.names, tidy |-> chart.tidy]
    BY <1>1 DEF AnyLine
  <1> QED BY <1>1, <1>3, <1>4

LEMMA Ml2Back ==
  ASSUME NEW text, NEW chart \in AnyText, Ml2From(text, chart), AsWritten(chart), Added(text) = {}
  PROVE  text = chart
  <1>1. text \in AnyText /\ DriversLines(text) = DriversLines(chart)
    BY Ml2FromLines DEF Ml2From
  <1>2. ASSUME NEW i \in DriversLines(chart), NEW d \in Driver, d \in Names(text.lines[i])
        PROVE  FALSE
    <2>1. PICK first \in DriversLines(text) : FirstDrivers(text, first)
      BY <1>1, FirstDriversExists
    <2>2. d \in Names(text.lines[first])
      BY <1>1, <1>2 DEF Ml2From
    <2>3. Includes(text, d)
      BY <2>1, <2>2 DEF Includes, FirstDrivers
    <2> QED BY <2>3 DEF Added
  <1>3. ASSUME NEW i \in DOMAIN chart.lines
        PROVE  text.lines[i] = chart.lines[i]
    <2>1. CASE i \in DriversLines(chart)
      <3>1. Names(text.lines[i]) \cap Driver = {}
        BY <1>2, <2>1
      <3>2. LineFrom(text.lines[i], chart.lines[i]) /\ chart.lines[i] \in AnyLine
        BY <2>1 DEF Ml2From, AnyText
      <3> QED BY <3>1, <3>2, SameLine DEF AsWritten
    <2>2. CASE i \notin DriversLines(chart)
      BY <2>2 DEF Ml2From
    <2> QED BY <2>1, <2>2
  <1> QED BY <1>1, <1>3, SameText DEF Ml2From

LEMMA Ml2Foreign ==
  ASSUME NEW text, NEW chart \in AnyText, Ml2From(text, chart),
         \A i \in DriversLines(chart) : Names(chart.lines[i]) \cap Driver = {}
  PROVE  Foreign(text) = Foreign(chart)
  <1> DEFINE all == DOMAIN chart.lines
             same == [i \in all |-> i]
  <1>1. text \in AnyText /\ DOMAIN text.lines = all
    BY DEF Ml2From
  <1>2. \A i \in all : i \in Nat
    BY DEF AnyText
  <1>3. ASSUME NEW i \in all
        PROVE  /\ chart.lines[i].kind = text.lines[i].kind
               /\ chart.lines[i].kind = "header" => chart.lines[i] = text.lines[i]
               /\ Alike(chart, i, text.lines[i])
    <2>1. CASE i \in DriversLines(chart)
      <3>1. LineFrom(text.lines[i], chart.lines[i])
        BY <2>1 DEF Ml2From
      <3>2. LineFrom(chart.lines[i], chart.lines[i])
        BY <2>1, LineFromItself DEF AnyText
      <3>3. chart.lines[i].kind = "mechanism_drivers"
        BY <2>1 DEF DriversLines
      <3> QED BY <3>1, <3>2, <3>3 DEF LineFrom, Alike, Listing
    <2>2. CASE i \notin DriversLines(chart)
      BY <2>2 DEF Ml2From, Alike
    <2> QED BY <2>1, <2>2
  <1>4. \A i \in all : same[i] = i
    OBVIOUS
  <1>5. same \in [all -> DOMAIN text.lines]
    BY <1>1
  <1> HIDE DEF all, same
  <1>6. KeptLines(chart, text, all, same)
    <2>1. Headers(chart) \subseteq all /\ Headers(text) \subseteq all
      BY <1>1 DEF Headers, all
    <2>2. \A i \in all : \A h \in Headers(text) : h > same[i] \/ \E k \in all : same[k] = h
      BY <1>4, <2>1
    <2>3. \A k \in all : chart.lines[k].kind = "header" \/ text.lines[same[k]].kind = "header"
                            => chart.lines[k] = text.lines[same[k]]
      BY <1>3, <1>4
    <2>4. all \in SUBSET DOMAIN chart.lines
      BY DEF all
    <2> QED BY <1>1, <1>4, <1>5, <2>1, <2>2, <2>3, <2>4 DEF KeptLines
  <1>7. \A i \in all : Alike(chart, i, text.lines[same[i]])
    BY <1>3, <1>4
  <1>8. \A i \in DOMAIN chart.lines : i \in all \/ i \in Own(chart)
    BY DEF all
  <1>9. \A j \in DOMAIN text.lines : j \in Own(text) \/ \E i \in all : same[i] = j
    BY <1>1, <1>4
  <1> QED BY <1>6, <1>7, <1>8, <1>9, ForeignMoved

LEMMA LogBack ==
  ASSUME NEW text, NEW chart, WrittenChart(chart), LogFrom(text, chart),
         \A d \in Driver : Matched(text, d), Logged(text) = {}
  PROVE  text = chart
  <1>1. text \in AnyText /\ chart \in AnyText /\ AsWritten(chart)
    BY DEF LogFrom, WrittenChart
  <1>2. \A d \in Driver : ~HasLogger(text, d)
    BY DEF Logged
  <1>3. ASSUME NEW i \in DOMAIN text.lines, NEW d \in Driver, GoesWith(text, d, i)
        PROVE  FALSE
    BY <1>2, <1>3 DEF GoesWith, InSection, HasLogger
  <1>4. DOMAIN text.lines = DOMAIN chart.lines
    BY <1>3 DEF LogFrom
  <1>5. ASSUME NEW i \in DOMAIN chart.lines
        PROVE  text.lines[i] = chart.lines[i]
    <2>1. CASE i \in LoggerKeys(chart)
      <3>1. i \in LoggerKeys(text)
        BY <2>1 DEF LogFrom
      <3>2. Names(text.lines[i]) \cap Driver = {}
        <4> SUFFICES ASSUME NEW d \in Driver, d \in Names(text.lines[i]) PROVE FALSE
          OBVIOUS
        <4>1. Matched(text, d) /\ ~HasLogger(text, d)
          BY <1>2
        <4> QED BY <3>1, <4>1 DEF Matched, HasLogger
      <3>3. LineFrom(text.lines[i], chart.lines[i]) /\ chart.lines[i] \in AnyLine
        BY <1>1, <2>1 DEF LogFrom, AnyText
      <3> QED BY <1>1, <3>2, <3>3, SameLine DEF AsWritten
    <2>2. CASE i \notin LoggerKeys(chart)
      BY <2>2 DEF LogFrom
    <2> QED BY <2>1, <2>2
  <1> QED BY <1>1, <1>4, <1>5, SameText DEF LogFrom

-----------------------------------------------------------------------------
(* A revert takes out the drivers of the list, and no others.              *)
Named(i) == {drivers[k].name : k \in 1..i}

LEMMA NamedGrows ==
  ASSUME drivers \in Seq(DriverSpec)
  PROVE  /\ Named(0) = {}
         /\ \A i \in 1..Len(drivers) : Named(i) = Named(i - 1) \cup {drivers[i].name}
         /\ Named(Len(drivers)) = {drivers[i].name : i \in DOMAIN drivers}
  <1>1. Named(0) = {}
    BY DEF Named
  <1>2. ASSUME NEW i \in 1..Len(drivers)
        PROVE  Named(i) = Named(i - 1) \cup {drivers[i].name}
    <2>1. \A k : k \in 1..i <=> k \in 1..(i - 1) \/ k = i
      OBVIOUS
    <2> QED BY <2>1 DEF Named
  <1> QED BY <1>1, <1>2 DEF Named

LEMMA RevertMl2Removes ==
  ASSUME drivers \in Seq(DriverSpec), ml2 \in AnyText, NEW d
  PROVE  Includes(WithoutDrivers(ml2), d) <=> Includes(ml2, d) /\ d \notin Named(Len(drivers))
  <1>1. Len(drivers) \in Nat
    OBVIOUS
  <1>2. PICK f : /\ f \in [0..Len(drivers) -> AnyText]
                 /\ f[0] = ml2
                 /\ \A i \in 1..Len(drivers) : f[i] = RemoveDriver(f[i - 1], drivers[i].name)
                 /\ WithoutDrivers(ml2) = f[Len(drivers)]
    BY <1>1, RemoveDriversSteps
  <1> DEFINE T == {i \in 0..Len(drivers) : Includes(f[i], d) <=> Includes(ml2, d) /\ d \notin Named(i)}
  <1>3. 0 \in T
    BY <1>1, <1>2, NamedGrows
  <1>4. ASSUME NEW i \in 1..Len(drivers), i - 1 \in T PROVE i \in T
    <2>1. i - 1 \in 0..Len(drivers) /\ i \in 0..Len(drivers)
      BY <1>1
    <2>2. f[i - 1] \in AnyText /\ f[i] = RemoveDriver(f[i - 1], drivers[i].name)
      BY <1>2, <2>1
    <2>3. Includes(f[i], d) <=> Includes(f[i - 1], d) /\ d # drivers[i].name
      BY <2>2, RemoveDriverRemovesOne
    <2>4. Named(i) = Named(i - 1) \cup {drivers[i].name}
      BY NamedGrows
    <2> QED BY <1>4, <2>1, <2>3, <2>4
  <1> HIDE DEF T
  <1>5. \A i \in 0..Len(drivers) : i \in T
    BY <1>1, <1>3, <1>4, InductionUpTo
  <1>6. Len(drivers) \in T
    BY <1>1, <1>5
  <1> QED BY <1>2, <1>6 DEF T

(* What every edit keeps of logging.conf.                                  *)
LogInv(text, chart) ==
    /\ text \in AnyText
    /\ \A d \in Driver : Matched(text, d)
    /\ Foreign(text) = Foreign(chart)
    /\ WrittenChart(chart) => LogFrom(text, chart)

LEMMA RenderedLogInv ==
  ASSUME NEW r \in Renderings
  PROVE  LogInv(r.log, r.log)
  <1>1. /\ r.log \in AnyText
        /\ \A i \in LoggerKeys(r.log) : Names(r.log.lines[i]) \cap Driver = {}
        /\ \A d \in Driver : ~HasLogger(r.log, d)
    BY ConfEditAssumption
  <1>2. \A d \in Driver : Matched(r.log, d)
    BY <1>1 DEF Matched
  <1> QED BY <1>1, <1>2, LogFromItself DEF LogInv

LEMMA RepairLogInv ==
  ASSUME NEW text, NEW chart, LogInv(text, chart), NEW d \in Driver, CanAddLogger(text, d)
  PROVE  LogInv(AddLogger(text, d), chart)
  <1>1. text \in AnyText /\ \A e \in Driver : Matched(text, e)
    BY DEF LogInv
  <1>2. /\ AddLogger(text, d) \in AnyText
        /\ \A e \in Driver : Matched(AddLogger(text, d), e)
        /\ Foreign(AddLogger(text, d)) = Foreign(text)
    BY <1>1, AddLoggerAddsOne
  <1>3. WrittenChart(chart) => LogFrom(AddLogger(text, d), chart)
    BY AddLoggerFrom DEF LogInv
  <1> QED BY <1>2, <1>3 DEF LogInv

LEMMA RemoveLogInv ==
  ASSUME NEW text, NEW chart, LogInv(text, chart), NEW d \in Driver
  PROVE  LogInv(RemoveLogger(text, d), chart)
  <1>1. text \in AnyText /\ \A e \in Driver : Matched(text, e)
    BY DEF LogInv
  <1>2. /\ RemoveLogger(text, d) \in AnyText
        /\ \A e \in Driver : Matched(RemoveLogger(text, d), e)
        /\ Foreign(RemoveLogger(text, d)) = Foreign(text)
    BY <1>1, RemoveLoggerRemovesOne
  <1>3. WrittenChart(chart) => LogFrom(RemoveLogger(text, d), chart)
    BY RemoveLoggerFrom DEF LogInv
  <1> QED BY <1>2, <1>3 DEF LogInv

LEMMA RevertLogInv ==
  ASSUME drivers \in Seq(DriverSpec), NEW chart, LogInv(log, chart)
  PROVE  /\ LogInv(WithoutLoggers(log), chart)
         /\ \A d \in Driver : HasLogger(WithoutLoggers(log), d)
                                 <=> HasLogger(log, d) /\ d \notin Named(Len(drivers))
  <1>1. Len(drivers) \in Nat /\ log \in AnyText
    BY DEF LogInv
  <1>2. PICK f : /\ f \in [0..Len(drivers) -> AnyText]
                 /\ f[0] = log
                 /\ \A i \in 1..Len(drivers) : f[i] = RemoveLogger(f[i - 1], drivers[i].name)
                 /\ WithoutLoggers(log) = f[Len(drivers)]
    BY <1>1, RemoveLoggersSteps
  <1> DEFINE T == {i \in 0..Len(drivers) :
                      /\ LogInv(f[i], chart)
                      /\ \A d \in Driver : HasLogger(f[i], d) <=> HasLogger(log, d) /\ d \notin Named(i)}
  <1>3. 0 \in T
    BY <1>1, <1>2, NamedGrows
  <1>4. ASSUME NEW i \in 1..Len(drivers), i - 1 \in T PROVE i \in T
    <2>1. i - 1 \in 0..Len(drivers) /\ i \in 0..Len(drivers) /\ drivers[i].name \in Driver
      BY <1>1, DriversNamed
    <2>2. LogInv(f[i - 1], chart) /\ f[i] = RemoveLogger(f[i - 1], drivers[i].name)
      BY <1>2, <1>4
    <2>3. LogInv(f[i], chart)
      BY <2>1, <2>2, RemoveLogInv
    <2>4. \A d \in Driver : HasLogger(f[i], d) <=> HasLogger(f[i - 1], d) /\ d # drivers[i].name
      <3>1. f[i - 1] \in AnyText /\ \A e \in Driver : Matched(f[i - 1], e)
        BY <2>2 DEF LogInv
      <3> QED BY <2>1, <2>2, <3>1, RemoveLoggerRemovesOne
    <2>5. Named(i) = Named(i - 1) \cup {drivers[i].name}
      BY NamedGrows
    <2>6. \A d \in Driver : HasLogger(f[i], d) <=> HasLogger(log, d) /\ d \notin Named(i)
      BY <1>4, <2>4, <2>5
    <2> QED BY <2>1, <2>3, <2>6
  <1> HIDE DEF T
  <1>5. \A i \in 0..Len(drivers) : i \in T
    BY <1>1, <1>3, <1>4, InductionUpTo
  <1>6. Len(drivers) \in T
    BY <1>1, <1>5
  <1> QED BY <1>2, <1>6 DEF T

-----------------------------------------------------------------------------
(* The inductive invariant: each text is the rendered one with edits in it.*)
Ml2Inv == Ml2From(ml2, rendered.ml2)
ScriptInv == ScriptFrom(script, rendered.script)
EditInv ==
    /\ drivers \in Seq(DriverSpec)
    /\ ValidSoleDrivers(drivers) /\ ValidExtraConfig(drivers)
    /\ dryRun \in BOOLEAN
    /\ rendered \in Renderings
    /\ Ml2Inv /\ LogInv(log, rendered.log) /\ ScriptInv

LEMMA Configured ==
  ASSUME NEW list \in DriverLists, NEW exists \in BOOLEAN
  PROVE  Loaded(list, exists) \in Seq(DriverSpec)
  <1>1. list \in Seq(DriverSpec)
    BY ConfEditAssumption
  <1>2. CASE exists
    BY <1>1, <1>2 DEF Loaded
  <1>3. CASE ~exists
    BY <1>3 DEF Loaded
  <1> QED BY <1>2, <1>3

LEMMA RenderedInv ==
  ASSUME NEW r \in Renderings
  PROVE  Ml2From(r.ml2, r.ml2) /\ LogInv(r.log, r.log) /\ ScriptFrom(r.script, r.script)
  BY RenderedMl2From, RenderedLogInv DEF ScriptFrom

LEMMA EditInit ==
  ASSUME Init
  PROVE  EditInv
  <1>1. /\ rendered \in Renderings /\ dryRun \in BOOLEAN
        /\ ml2 = rendered.ml2 /\ log = rendered.log /\ script = rendered.script
    BY DEF Init
  <1>2. drivers \in Seq(DriverSpec) /\ ValidSoleDrivers(drivers) /\ ValidExtraConfig(drivers)
    BY ConfEditAssumption DEF Init
  <1>3. Ml2Inv /\ LogInv(log, rendered.log) /\ ScriptInv
    BY <1>1, RenderedInv DEF Ml2Inv, ScriptInv
  <1> QED BY <1>1, <1>2, <1>3 DEF EditInv

LEMMA EditStep ==
  ASSUME EditInv, [Next]_vars
  PROVE  EditInv'
  <1> USE DEF EditInv
  <1>1. ASSUME NEW i \in DOMAIN drivers
        PROVE  i \in 1..Len(drivers) /\ drivers[i].name \in Driver
    <2>1. i \in 1..Len(drivers)
      OBVIOUS
    <2> QED BY <2>1, DriversNamed
  <1>2. ASSUME NEW i \in DOMAIN drivers, RepairMl2(i)
        PROVE  EditInv'
    <2>1. Ml2From(AddDriver(ml2, drivers[i].name), rendered.ml2)
      BY <1>1, AddDriverFrom DEF Ml2Inv
    <2> QED BY <1>2, <2>1 DEF RepairMl2, Ml2Inv, ScriptInv
  <1>3. ASSUME NEW i \in DOMAIN drivers, RepairLog(i)
        PROVE  EditInv'
    <2>1. LogInv(AddLogger(log, drivers[i].name), rendered.log)
      BY <1>1, <1>3, RepairLogInv DEF RepairLog
    <2> QED BY <1>3, <2>1 DEF RepairLog, Ml2Inv, ScriptInv
  <1>4. ASSUME NEW i \in DOMAIN drivers, RepairScript(i)
        PROVE  EditInv'
    <2>1. ScriptFrom(AddFlag(script), rendered.script)
      BY <1>4, RenderedScript, AddFlagFrom DEF RepairScript, ScriptInv
    <2> QED BY <1>4, <2>1 DEF RepairScript, Ml2Inv, ScriptInv
  <1>5. CASE RevertMl2
    <2>1. Ml2From(WithoutDrivers(ml2), rendered.ml2)
      BY RevertMl2From DEF Ml2Inv
    <2> QED BY <1>5, <2>1 DEF RevertMl2, WithoutDrivers, Ml2Inv, ScriptInv
  <1>6. CASE RevertLog
    <2>1. LogInv(WithoutLoggers(log), rendered.log)
      BY RevertLogInv
    <2> QED BY <1>6, <2>1 DEF RevertLog, WithoutLoggers, Ml2Inv, ScriptInv
  <1>7. CASE RevertScript
    <2>1. RemoveFlag(script) = rendered.script
      BY RenderedScript, RemoveFlagFrom DEF ScriptInv
    <2> QED BY <1>7, <2>1 DEF RevertScript, Ml2Inv, ScriptInv, ScriptFrom
  <1>8. CASE Restart
    <2>1. /\ drivers' \in Seq(DriverSpec) /\ dryRun' \in BOOLEAN
          /\ ValidSoleDrivers(drivers') /\ ValidExtraConfig(drivers')
      BY <1>8, Configured DEF Restart, Configure, ParsedDryRun
    <2> QED BY <1>8, <2>1 DEF Restart, texts, Ml2Inv, ScriptInv
  <1>9. CASE HelmUpgrade
    <2>1. /\ rendered' \in Renderings
          /\ ml2' = rendered'.ml2 /\ log' = rendered'.log /\ script' = rendered'.script
      BY <1>9 DEF HelmUpgrade
    <2>2. /\ Ml2From(ml2', rendered'.ml2) /\ LogInv(log', rendered'.log)
          /\ ScriptFrom(script', rendered'.script)
      BY <2>1, RenderedInv
    <2> QED BY <1>9, <2>1, <2>2 DEF HelmUpgrade, Ml2Inv, ScriptInv
  <1>10. CASE UNCHANGED vars
    BY <1>10 DEF vars, Ml2Inv, ScriptInv
  <1> QED BY <1>2, <1>3, <1>4, <1>5, <1>6, <1>7, <1>8, <1>9, <1>10 DEF Next

LEMMA EditInvHolds == Spec => []EditInv
  <1>1. Init => EditInv
    BY EditInit
  <1>2. EditInv /\ [Next]_vars => EditInv'
    BY EditStep
  <1> QED BY <1>1, <1>2, PTL DEF Spec

(* The texts stay texts, and the guardian runs with a valid configuration. *)
THEOREM EditsTyped == Spec => []TypeOK
  <1>1. EditInv => TypeOK
    <2> SUFFICES ASSUME EditInv PROVE TypeOK
      OBVIOUS
    <2>1. script \in AnyText
      BY RenderedScript, ScriptFromWellFormed DEF EditInv, ScriptInv
    <2>2. ml2 \in AnyText /\ log \in AnyText
      BY DEF EditInv, Ml2Inv, Ml2From, LogInv
    <2> QED BY <2>1, <2>2 DEF EditInv, TypeOK
  <1> QED BY <1>1, EditInvHolds, PTL

(* Whatever guardians edit, and however often, no line or name of PCD's is *)
(* lost, moved or duplicated.                                              *)
THEOREM NothingForeignLost == Spec => []ForeignKept
  <1>1. EditInv => ForeignKept
    <2> SUFFICES ASSUME EditInv PROVE ForeignKept
      OBVIOUS
    <2>1. Foreign(script) = Foreign(rendered.script)
      BY RenderedScript, ScriptFromWellFormed DEF EditInv, ScriptInv
    <2>2. Foreign(log) = Foreign(rendered.log)
      BY DEF EditInv, LogInv
    <2>3. /\ rendered.ml2 \in AnyText
          /\ \A i \in DriversLines(rendered.ml2) : Names(rendered.ml2.lines[i]) \cap Driver = {}
      BY ConfEditAssumption DEF EditInv
    <2>4. Foreign(ml2) = Foreign(rendered.ml2)
      BY <2>3, Ml2Foreign DEF EditInv, Ml2Inv
    <2> QED BY <2>1, <2>2, <2>4 DEF ForeignKept
  <1> QED BY <1>1, EditInvHolds, PTL

(* neutron-server never sees a logger's key without its section, nor a     *)
(* section without its key.                                                *)
THEOREM LoggersPaired == Spec => []LoggersMatch
  <1>1. EditInv => LoggersMatch
    <2> SUFFICES ASSUME EditInv, NEW d \in Driver
                 PROVE  LET keyed == {i \in LoggerKeys(log) : d \in Names(log.lines[i])}
                            sections == {h \in Headers(log) : log.lines[h] = Header(d)}
                        IN  \/ keyed = {} /\ sections = {}
                            \/ \E h \in Headers(log) : sections = {h} /\ keyed = LoggerKeys(log)
      BY DEF LoggersMatch
    <2>1. Matched(log, d)
      BY DEF EditInv, LogInv
    <2>2. CASE /\ \A i \in LoggerKeys(log) : d \notin Names(log.lines[i])
               /\ ~HasLogger(log, d)
      BY <2>2 DEF HasLogger
    <2>3. CASE /\ \A i \in LoggerKeys(log) : d \in Names(log.lines[i])
               /\ \E h \in Headers(log) :
                     /\ log.lines[h] = Header(d)
                     /\ \A k \in Headers(log) : log.lines[k] = Header(d) => k = h
      <3>1. PICK h \in Headers(log) :
                     /\ log.lines[h] = Header(d)
                     /\ \A k \in Headers(log) : log.lines[k] = Header(d) => k = h
        BY <2>3
      <3>2. {k \in Headers(log) : log.lines[k] = Header(d)} = {h}
        BY <3>1
      <3>3. {i \in LoggerKeys(log) : d \in Names(log.lines[i])} = LoggerKeys(log)
        BY <2>3
      <3> QED BY <3>2, <3>3
    <2> QED BY <2>1, <2>2, <2>3 DEF Matched
  <1> QED BY <1>1, EditInvHolds, PTL

(* No edit leaves a continued line without its argument, or an argument    *)
(* without the line it belongs to.                                         *)
THEOREM ScriptStaysWellFormed == Spec => []ScriptWellFormed
  <1>1. EditInv => ScriptWellFormed
    <2> SUFFICES ASSUME EditInv PROVE ScriptWellFormed
      OBVIOUS
    <2>1. WellFormed(script.lines)
      BY RenderedScript, ScriptFromWellFormed DEF EditInv, ScriptInv
    <2> QED BY <2>1 DEF WellFormed, ScriptWellFormed
  <1> QED BY <1>1, EditInvHolds, PTL

(* Once no driver of the guardian's is in a text that the chart wrote the  *)
(* way the guardian writes one, it is the chart's, byte for byte.          *)
THEOREM EditsUndone == Spec => []RoundTrip
  <1>1. EditInv => RoundTrip
    <2> SUFFICES ASSUME EditInv PROVE RoundTrip
      OBVIOUS
    <2>1. /\ rendered.ml2 \in AnyText /\ rendered.log \in AnyText
          /\ \A i \in LoggerKeys(rendered.log) : Names(rendered.log.lines[i]) \cap Driver = {}
          /\ \A d \in Driver : ~HasLogger(rendered.log, d)
      BY ConfEditAssumption DEF EditInv
    <2>2. ASSUME AsWritten(rendered.ml2), Added(ml2) = {} PROVE ml2 = rendered.ml2
      BY <2>1, <2>2, Ml2Back DEF EditInv, Ml2Inv
    <2>3. ASSUME AsWritten(rendered.log), Logged(log) = {} PROVE log = rendered.log
      <3>1. WrittenChart(rendered.log)
        BY <2>1, <2>3 DEF WrittenChart
      <3>2. LogFrom(log, rendered.log) /\ \A d \in Driver : Matched(log, d)
        BY <3>1 DEF EditInv, LogInv
      <3> QED BY <2>3, <3>1, <3>2, LogBack
    <2>4. ~HasFlag(script) => script = rendered.script
      BY RenderedScript, RemoveFlagFrom DEF EditInv, ScriptInv
    <2> QED BY <2>2, <2>3, <2>4 DEF RoundTrip
  <1> QED BY <1>1, EditInvHolds, PTL

-----------------------------------------------------------------------------
(* Line by line the edits are what the reconcile loop takes them for: a    *)
(* repair adds one entry to one text, a revert takes out those of the      *)
(* configured drivers, and nothing else changes an entry.                  *)
Added3 == [ml2 |-> Added(ml2), log |-> Logged(log), script |-> Flagged(script)]
ConfiguredNames == {drivers[i].name : i \in DOMAIN drivers}

LEMMA NamesConfigured ==
  ASSUME drivers \in Seq(DriverSpec)
  PROVE  /\ ConfiguredNames \in SUBSET Driver
         /\ Named(Len(drivers)) = ConfiguredNames
         /\ ConfigDir \notin ConfiguredNames
         /\ \A i \in DOMAIN drivers : drivers[i].name \in ConfiguredNames \cap Driver
  <1>1. \A i \in DOMAIN drivers : drivers[i].name \in Driver
    <2> TAKE i \in DOMAIN drivers
    <2>1. i \in 1..Len(drivers)
      OBVIOUS
    <2> QED BY <2>1, DriversNamed
  <1>2. ConfigDir \notin Driver
    BY ConfEditAssumption
  <1> QED BY <1>1, <1>2, NamedGrows DEF ConfiguredNames

LEMMA RepairMl2Adds ==
  ASSUME EditInv, NEW d \in Driver, CanAddDriver(ml2)
  PROVE  Added(AddDriver(ml2, d)) = Added(ml2) \cup {d}
  <1>1. ml2 \in AnyText /\ Driver \subseteq Name
    BY ConfEditAssumption DEF EditInv, Ml2Inv, Ml2From
  <1>2. PICK first \in DriversLines(ml2) : FirstDrivers(ml2, first)
    BY <1>1, FirstDriversExists DEF CanAddDriver
  <1>3. \A e \in Driver : Includes(AddDriver(ml2, d), e) <=> Includes(ml2, e) \/ e = d
    BY <1>1, <1>2, AddDriverAddsOne
  <1> QED BY <1>3 DEF Added

LEMMA RepairLogAdds ==
  ASSUME EditInv, NEW d \in Driver, CanAddLogger(log, d)
  PROVE  Logged(AddLogger(log, d)) = Logged(log) \cup {d}
  <1>1. log \in AnyText /\ \A e \in Driver : Matched(log, e)
    BY DEF EditInv, LogInv
  <1>2. \A e \in Driver : HasLogger(AddLogger(log, d), e) <=> HasLogger(log, e) \/ e = d
    BY <1>1, AddLoggerAddsOne
  <1> QED BY <1>2 DEF Logged

LEMMA RepairScriptAdds ==
  ASSUME EditInv, CanAddFlag(script)
  PROVE  Flagged(AddFlag(script)) = Flagged(script) \cup {ConfigDir}
  <1>1. HasFlag(AddFlag(script))
    BY RenderedScript, AddFlagFrom DEF EditInv, ScriptInv
  <1> QED BY <1>1 DEF Flagged

LEMMA RevertRemoves ==
  ASSUME EditInv
  PROVE  /\ Added(WithoutDrivers(ml2)) = Added(ml2) \ (ConfiguredNames \cup {ConfigDir})
         /\ Logged(WithoutLoggers(log)) = Logged(log) \ (ConfiguredNames \cup {ConfigDir})
         /\ Flagged(RemoveFlag(script)) = {}
  <1>1. /\ drivers \in Seq(DriverSpec) /\ ml2 \in AnyText /\ LogInv(log, rendered.log)
        /\ ConfigDir \notin Driver
    BY ConfEditAssumption DEF EditInv, Ml2Inv, Ml2From
  <1>2. Named(Len(drivers)) = ConfiguredNames
    BY <1>1, NamesConfigured
  <1>3. \A d \in Driver : Includes(WithoutDrivers(ml2), d)
                             <=> Includes(ml2, d) /\ d \notin ConfiguredNames
    BY <1>1, <1>2, RevertMl2Removes
  <1>4. \A d \in Driver : HasLogger(WithoutLoggers(log), d)
                             <=> HasLogger(log, d) /\ d \notin ConfiguredNames
    BY <1>1, <1>2, RevertLogInv
  <1>5. RemoveFlag(script) = rendered.script /\ ~HasFlag(rendered.script)
    BY RenderedScript, RemoveFlagFrom DEF EditInv, ScriptInv
  <1> QED BY <1>1, <1>3, <1>4, <1>5 DEF Added, Logged, Flagged

LEMMA RenderedEntries ==
  ASSUME NEW r \in Renderings
  PROVE  Added(r.ml2) = {} /\ Logged(r.log) = {} /\ Flagged(r.script) = {}
  <1>1. /\ \A i \in DriversLines(r.ml2) : Names(r.ml2.lines[i]) \cap Driver = {}
        /\ \A d \in Driver : ~HasLogger(r.log, d)
        /\ ~HasFlag(r.script)
    BY ConfEditAssumption
  <1>2. \A d \in Driver : ~Includes(r.ml2, d)
    BY <1>1 DEF Includes
  <1> QED BY <1>1, <1>2 DEF Added, Logged, Flagged

LEMMA ContractInit ==
  ASSUME Init
  PROVE  Contract!Init
  <1>1. EditInv /\ rendered \in Renderings
        /\ ml2 = rendered.ml2 /\ log = rendered.log /\ script = rendered.script
    BY EditInit DEF Init
  <1>2. Added(ml2) = {} /\ Logged(log) = {} /\ Flagged(script) = {}
    BY <1>1, RenderedEntries
  <1>3. ConfiguredNames \in SUBSET Driver
    BY <1>1, NamesConfigured DEF EditInv
  <1>4. Added3 = [f \in {"ml2", "log", "script"} |-> {}]
    BY <1>2 DEF Added3
  <1> QED BY <1>3, <1>4 DEF Contract!Init, Contract!File, Added3, ConfiguredNames

(* Every step of the edits is one of the contract.                         *)
LEMMA EditContractStep ==
  ASSUME EditInv, EditInv', [Next]_vars
  PROVE  [Contract!Next]_(Contract!vars)
  <1>1. ASSUME NEW i \in DOMAIN drivers, RepairMl2(i)
        PROVE  Contract!Next
    <2>1. drivers[i].name \in ConfiguredNames \cap Driver
      BY NamesConfigured DEF EditInv
    <2>2. Added(ml2') = Added(ml2) \cup {drivers[i].name}
      BY <1>1, <2>1, RepairMl2Adds DEF RepairMl2
    <2>3. Added3' = [Added3 EXCEPT !["ml2"] = @ \cup {drivers[i].name}]
      BY <1>1, <2>2 DEF RepairMl2, Added3
    <2>4. ConfiguredNames' = ConfiguredNames
      BY <1>1 DEF RepairMl2, ConfiguredNames
    <2>5. Contract!Add("ml2", drivers[i].name)
      BY <2>3, <2>4 DEF Contract!Add, Added3, ConfiguredNames
    <2>6. drivers[i].name \in Contract!Entries("ml2") \cap (ConfiguredNames \cup {ConfigDir})
      BY <2>1 DEF Contract!Entries
    <2> QED BY <2>5, <2>6 DEF Contract!Next, Contract!File, ConfiguredNames
  <1>2. ASSUME NEW i \in DOMAIN drivers, RepairLog(i)
        PROVE  Contract!Next
    <2>1. drivers[i].name \in ConfiguredNames \cap Driver
      BY NamesConfigured DEF EditInv
    <2>2. Logged(log') = Logged(log) \cup {drivers[i].name}
      BY <1>2, <2>1, RepairLogAdds DEF RepairLog
    <2>3. Added3' = [Added3 EXCEPT !["log"] = @ \cup {drivers[i].name}]
      BY <1>2, <2>2 DEF RepairLog, Added3
    <2>4. ConfiguredNames' = ConfiguredNames
      BY <1>2 DEF RepairLog, ConfiguredNames
    <2>5. Contract!Add("log", drivers[i].name)
      BY <2>3, <2>4 DEF Contract!Add, Added3, ConfiguredNames
    <2>6. drivers[i].name \in Contract!Entries("log") \cap (ConfiguredNames \cup {ConfigDir})
      BY <2>1 DEF Contract!Entries
    <2> QED BY <2>5, <2>6 DEF Contract!Next, Contract!File, ConfiguredNames
  <1>3. ASSUME NEW i \in DOMAIN drivers, RepairScript(i)
        PROVE  Contract!Next
    <2>2. Flagged(script') = Flagged(script) \cup {ConfigDir}
      BY <1>3, RepairScriptAdds DEF RepairScript
    <2>3. Added3' = [Added3 EXCEPT !["script"] = @ \cup {ConfigDir}]
      BY <1>3, <2>2 DEF RepairScript, Added3
    <2>4. ConfiguredNames' = ConfiguredNames
      BY <1>3 DEF RepairScript, ConfiguredNames
    <2>5. Contract!Add("script", ConfigDir)
      BY <2>3, <2>4 DEF Contract!Add, Added3, ConfiguredNames
    <2>6. ConfigDir \in Contract!Entries("script") \cap (ConfiguredNames \cup {ConfigDir})
      BY DEF Contract!Entries
    <2> QED BY <2>5, <2>6 DEF Contract!Next, Contract!File, ConfiguredNames
  <1>4. CASE RevertMl2
    <2>1. Added(ml2') = Added(ml2) \ (ConfiguredNames \cup {ConfigDir})
      BY <1>4, RevertRemoves DEF RevertMl2, WithoutDrivers
    <2>2. Added3' = [Added3 EXCEPT !["ml2"] = @ \ (ConfiguredNames \cup {ConfigDir})]
      BY <1>4, <2>1 DEF RevertMl2, Added3
    <2>3. Contract!Remove("ml2")
      BY <1>4, <2>2 DEF RevertMl2, Contract!Remove, Added3, ConfiguredNames
    <2> QED BY <2>3 DEF Contract!Next, Contract!File
  <1>5. CASE RevertLog
    <2>1. Logged(log') = Logged(log) \ (ConfiguredNames \cup {ConfigDir})
      BY <1>5, RevertRemoves DEF RevertLog, WithoutLoggers
    <2>2. Added3' = [Added3 EXCEPT !["log"] = @ \ (ConfiguredNames \cup {ConfigDir})]
      BY <1>5, <2>1 DEF RevertLog, Added3
    <2>3. Contract!Remove("log")
      BY <1>5, <2>2 DEF RevertLog, Contract!Remove, Added3, ConfiguredNames
    <2> QED BY <2>3 DEF Contract!Next, Contract!File
  <1>6. CASE RevertScript
    <2>1. Flagged(script') = Flagged(script) \ (ConfiguredNames \cup {ConfigDir})
      BY <1>6, RevertRemoves DEF RevertScript, Flagged
    <2>2. Added3' = [Added3 EXCEPT !["script"] = @ \ (ConfiguredNames \cup {ConfigDir})]
      BY <1>6, <2>1 DEF RevertScript, Added3
    <2>3. Contract!Remove("script")
      BY <1>6, <2>2 DEF RevertScript, Contract!Remove, Added3, ConfiguredNames
    <2> QED BY <2>3 DEF Contract!Next, Contract!File
  <1>7. CASE Restart
    <2>1. ConfiguredNames' \in SUBSET Driver
      <3>1. drivers' \in Seq(DriverSpec)
        BY DEF EditInv
      <3>2. \A i \in DOMAIN drivers' : drivers'[i] \in DriverSpec
        BY <3>1
      <3> QED BY <3>2 DEF ConfiguredNames, DriverSpec
    <2>2. Added3' = Added3
      BY <1>7 DEF Restart, texts, Added3
    <2>3. Contract!Reconfigure
      BY <2>1, <2>2 DEF Contract!Reconfigure, Added3, ConfiguredNames
    <2> QED BY <2>3 DEF Contract!Next
  <1>8. CASE HelmUpgrade
    <2>1. Added(ml2') = {} /\ Logged(log') = {} /\ Flagged(script') = {}
      BY <1>8, RenderedEntries DEF HelmUpgrade
    <2>2. Added3' = [f \in {"ml2", "log", "script"} |-> {}]
      BY <2>1 DEF Added3
    <2>3. Contract!Render
      BY <1>8, <2>2 DEF HelmUpgrade, Contract!Render, Contract!File, Added3, ConfiguredNames
    <2> QED BY <2>3 DEF Contract!Next
  <1>9. CASE UNCHANGED vars
    BY <1>9 DEF vars, Contract!vars
  <1> QED BY <1>1, <1>2, <1>3, <1>4, <1>5, <1>6, <1>7, <1>8, <1>9 DEF Next

(* The edits of ConfEdit implement the contract that Cluster and Guardian  *)
(* are written against.                                                    *)
THEOREM EditsImplementContract == Spec => EditsAsEntries
  <1>1. Init => Contract!Init
    BY ContractInit
  <1>2. EditInv /\ EditInv' /\ [Next]_vars => [Contract!Next]_(Contract!vars)
    BY EditContractStep
  <1> QED BY <1>1, <1>2, EditInvHolds, PTL DEF Spec, EditsAsEntries, Contract!Spec
=============================================================================
