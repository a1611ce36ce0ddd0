-------------------------- MODULE StringifyProofs --------------------------
(***************************************************************************)
(* Proofs about stringify for any number of commands, runs and names: what *)
(* it publishes is whole and in order, and it implements AtomicPublish.    *)
(***************************************************************************)
EXTENDS Stringify, TLAPS

-----------------------------------------------------------------------------
(* The inductive invariant: what a run knows of its own files.             *)

\* Where a run has not come to write its text.
Unwritten(s) == {"createHpp", "createCpp", "open", "writeHpp"}
                  \cup IF s = "hpp" THEN {} ELSE {"writeCpp"}

\* Its temporary files are its own: the text is there, or was refused by the
\* stream, or is not written yet.  At the rename it is there.
TempsOf(p) ==
  \A s \in Holds(p) :
     /\ Temp(p, s) \in Temps
     /\ temps[Temp(p, s)].run = run[p]
     /\ pc[p] \notin Unwritten(s) => <<p, s>> \in broken \/ temps[Temp(p, s)].whole
     /\ pc[p] = "renameCpp" /\ s = "cpp" => temps[Temp(p, s)].whole
     /\ pc[p] = "renameHpp" => temps[Temp(p, s)].whole

\* A destination has a whole text of this run or of one before; the .cpp has
\* that of this run when the destructor of the header is reached.
DstsOf(p) ==
  /\ \A s \in Suffixes : dst[<<p, s>>].whole /\ dst[<<p, s>>].run <= run[p]
  /\ dst[<<p, "hpp">>].run <= dst[<<p, "cpp">>].run
  /\ pc[p] \in {"closeHpp", "renameHpp", "succeeded"} =>
       dst[<<p, "cpp">>] = Text(run[p], TRUE)
  /\ pc[p] = "succeeded" => dst[<<p, "hpp">>] = Text(run[p], TRUE)

\* No two runs hold the same temporary file.
Apart ==
  \A p, q \in Runners : \A s \in Suffixes :
     p # q /\ s \in Holds(p) /\ s \in Holds(q) => Temp(p, s) # Temp(q, s)

IInv ==
  /\ TypeOK
  /\ Apart
  /\ \A p \in Runners : TempsOf(p) /\ DstsOf(p)

-----------------------------------------------------------------------------
(* Types.                                                                  *)

\* Texts have a run and are whole or not.
LEMMA TextTypes ==
  /\ \A n \in Nat, w \in BOOLEAN :
        /\ Text(n, w) \in TextType
        /\ Text(n, w).run = n
        /\ Text(n, w).whole = w
  /\ Absent.run = -1
  /\ \A t \in TextType : t.run \in Nat /\ t.whole \in BOOLEAN
BY DEF Text, TextType, Absent

\* A text is known by its run and by whether it is whole.
LEMMA TextIs ==
  ASSUME NEW t \in TextType, NEW n \in Nat, t.run = n, t.whole
  PROVE  t = Text(n, TRUE)
BY DEF TextType, Text

\* So has what a run writes.
LEMMA RunTypes ==
  ASSUME TypeOK, NEW p \in Runners
  PROVE  /\ run[p] # -1
         /\ \A w \in BOOLEAN : /\ Text(run[p], w) \in TextType
                               /\ Text(run[p], w).run = run[p]
                               /\ Text(run[p], w).whole = w
<1>1. run[p] \in Nat
  BY DEF TypeOK
<1> QED BY <1>1, TextTypes

\* The two files of a command and of a random name.
LEMMA FilesAndTemps ==
  /\ \A p \in Runners : \A s \in Suffixes : <<p, s>> \in Files
  /\ \A r \in Random : \A s \in Suffixes : <<r, s>> \in Temps
  /\ "hpp" \in Suffixes /\ "cpp" \in Suffixes
BY DEF Files, Temps, Suffixes

\* Where Start, Abort, Step and the end of a step lead.
LEMMA Labels ==
  /\ \A l \in {"createHpp", "createCpp", "open", "writeHpp", "writeCpp", "closeCpp",
               "renameCpp", "closeHpp", "renameHpp", "succeeded", "failed", "idle"} :
        l \in Over \cup Working
BY DEF Over, Working

\* There are no files yet.
LEMMA TypeInit == Init => TypeOK
<1> SUFFICES ASSUME Init PROVE TypeOK
  OBVIOUS
<1>1. Text(0, TRUE) \in TextType
  BY TextTypes
<1>2. pc \in [Runners -> Over \cup Working]
  BY DEF Init, Over
<1>3. dst \in [Files -> TextType]
  BY <1>1 DEF Init
<1>4. /\ run \in [Runners -> Nat]
      /\ name \in [Files -> Random \cup {Unnamed}]
      /\ temps \in [Temps -> TextType \cup {Absent}]
      /\ broken \subseteq Files
  BY DEF Init
<1> QED BY <1>2, <1>3, <1>4 DEF TypeOK

\* A run that stops only changes its own state.
LEMMA AbortTypes ==
  ASSUME TypeOK, NEW p \in Runners, Abort(p)
  PROVE  TypeOK'
BY Labels DEF TypeOK, Abort, Goto

\* A run that starts is counted.
LEMMA StartTypes ==
  ASSUME TypeOK, NEW p \in Runners, Start(p)
  PROVE  TypeOK'
BY Labels DEF TypeOK, Start, Goto

\* A temporary file is created, or creating it fails.
LEMMA CreateTypes ==
  ASSUME TypeOK, NEW p \in Runners, NEW s \in Suffixes, NEW from,
         NEW to \in Over \cup Working, Create(p, s, from, to)
  PROVE  TypeOK'
<1>1. PICK r \in Random :
        /\ name' = [name EXCEPT ![<<p, s>>] = r]
        /\ temps' = [temps EXCEPT ![<<r, s>>] = Text(run[p], FALSE)]
  BY DEF Create
<1>2. Text(run[p], FALSE) \in TextType
  BY TextTypes DEF TypeOK
<1>3. temps' \in [Temps -> TextType \cup {Absent}]
  BY <1>1, <1>2 DEF TypeOK
<1>4. name' \in [Files -> Random \cup {Unnamed}]
  BY <1>1 DEF TypeOK
<1> QED BY <1>3, <1>4 DEF TypeOK, Create, Goto

\* A file gets its text, or writing it fails.
LEMMA WriteTypes ==
  ASSUME TypeOK, NEW p \in Runners, NEW s \in Suffixes, NEW from,
         NEW to \in Over \cup Working, Write(p, s, from, to)
  PROVE  TypeOK'
<1>1. Text(run[p], TRUE) \in TextType
  BY TextTypes DEF TypeOK
<1>2. temps' \in [Temps -> TextType \cup {Absent}]
  BY <1>1 DEF TypeOK, Write
<1>3. <<p, s>> \in Files
  BY DEF Files
<1>4. broken' \subseteq Files
  BY <1>3 DEF TypeOK, Write
<1> QED BY <1>2, <1>4 DEF TypeOK, Write, Goto

\* A stream is closed, or its error is found.
LEMMA CloseTypes ==
  ASSUME TypeOK, NEW p \in Runners, NEW s \in Suffixes, NEW from,
         NEW to \in Over \cup Working, Close(p, s, from, to)
  PROVE  TypeOK'
BY AbortTypes DEF TypeOK, Close, Goto

\* A file that is renamed exists, so that what is published is a text.
LEMMA RenameTypes ==
  ASSUME TypeOK, NEW p \in Runners, NEW s \in Suffixes, NEW from,
         NEW to \in Over \cup Working, Rename(p, s, from, to),
         Temp(p, s) \in Temps, temps[Temp(p, s)].run = run[p]
  PROVE  TypeOK'
<1>1. temps[Temp(p, s)] \in TextType
  BY TextTypes DEF TypeOK
<1>2. dst' \in [Files -> TextType]
  BY <1>1 DEF TypeOK, Rename
<1>3. temps' \in [Temps -> TextType \cup {Absent}]
  BY DEF TypeOK, Rename
<1>4. name' \in [Files -> Random \cup {Unnamed}]
  BY DEF TypeOK, Rename
<1> QED BY <1>2, <1>3, <1>4 DEF TypeOK, Rename, Goto

-----------------------------------------------------------------------------
(* What a step of one run leaves alone.                                    *)

\* A step of p may have happened, as far as q can see.
Unseen(q) ==
  /\ pc'[q] = pc[q]
  /\ run'[q] = run[q]
  /\ \A s \in Suffixes :
       /\ name'[<<q, s>>] = name[<<q, s>>]
       /\ dst'[<<q, s>>] = dst[<<q, s>>]
       /\ <<q, s>> \in broken => <<q, s>> \in broken'
  /\ \A s \in Holds(q) : temps'[Temp(q, s)] = temps[Temp(q, s)]

\* What a command does not see changes nothing for it.
LEMMA UnseenKeeps ==
  ASSUME NEW q \in Runners, TempsOf(q), DstsOf(q), Unseen(q)
  PROVE  TempsOf(q)' /\ DstsOf(q)'
<1>1. \A s \in Suffixes : Temp(q, s)' = Temp(q, s)
  BY DEF Unseen, Temp
<1>2. Holds(q)' = Holds(q) /\ Holds(q) \subseteq Suffixes
  BY DEF Unseen, Holds
<1>3. TempsOf(q)'
  BY <1>1, <1>2 DEF TempsOf, Unseen
<1>4. DstsOf(q)'
  BY FilesAndTemps DEF DstsOf, Unseen
<1> QED BY <1>3, <1>4

\* Other commands do not see that one stops.
LEMMA AbortUnseen ==
  ASSUME IInv, NEW p \in Runners, NEW q \in Runners \ {p}, Abort(p)
  PROVE  Unseen(q)
BY DEF IInv, TypeOK, Abort, Goto, Unseen, Temp, Files, Holds

\* Nor that one starts.
LEMMA StartUnseen ==
  ASSUME IInv, NEW p \in Runners, NEW q \in Runners \ {p}, Start(p)
  PROVE  Unseen(q)
BY DEF IInv, TypeOK, Start, Goto, Unseen, Temp, Files, Holds

\* The file that is created did not exist, and those that q holds do.
LEMMA CreateUnseen ==
  ASSUME IInv, NEW p \in Runners, NEW q \in Runners \ {p}, NEW s \in Suffixes,
         NEW from, NEW to, Create(p, s, from, to)
  PROVE  Unseen(q)
<1>1. PICK r \in Random :
        /\ temps[<<r, s>>] = Absent
        /\ name' = [name EXCEPT ![<<p, s>>] = r]
        /\ temps' = [temps EXCEPT ![<<r, s>>] = Text(run[p], FALSE)]
  BY DEF Create
<1>2. \A t \in Holds(q) : Temp(q, t) # <<r, s>>
  <2>1. \A t \in Holds(q) : temps[Temp(q, t)].run = run[q]
    BY DEF IInv, TempsOf
  <2>2. run[q] # -1
    BY DEF IInv, TypeOK
  <2>3. temps[<<r, s>>].run = -1
    BY <1>1, TextTypes
  <2> QED BY <2>1, <2>2, <2>3, Zenon
<1>3. \A t \in Holds(q) : temps'[Temp(q, t)] = temps[Temp(q, t)]
  BY <1>1, <1>2 DEF IInv, TempsOf, TypeOK
<1>4. \A t \in Suffixes : name'[<<q, t>>] = name[<<q, t>>]
  BY <1>1 DEF IInv, TypeOK, Files
<1> QED BY <1>3, <1>4 DEF Unseen, Create, Goto, IInv, TypeOK

\* What a run writes or renames is its own file.
LEMMA OwnUnseen ==
  ASSUME IInv, NEW p \in Runners, NEW q \in Runners \ {p}, NEW s \in Holds(p),
         NEW from, NEW to, Write(p, s, from, to) \/ Rename(p, s, from, to)
  PROVE  Unseen(q)
<1>1. s \in Suffixes
  BY DEF Holds
<1>2. \A t \in Holds(q) : Temp(q, t) # Temp(p, s)
  BY <1>1 DEF IInv, Apart, Temp, Holds
<1>3. \A t \in Holds(q) : temps'[Temp(q, t)] = temps[Temp(q, t)]
  BY <1>2 DEF IInv, TempsOf, TypeOK, Write, Rename
<1>4. \A t \in Suffixes : /\ name'[<<q, t>>] = name[<<q, t>>]
                          /\ dst'[<<q, t>>] = dst[<<q, t>>]
                          /\ <<q, t>> \in broken => <<q, t>> \in broken'
  BY DEF IInv, TypeOK, Files, Write, Rename
<1> QED BY <1>3, <1>4 DEF Unseen, Write, Rename, Goto, IInv, TypeOK

\* Nor that one closes a file.
LEMMA CloseUnseen ==
  ASSUME IInv, NEW p \in Runners, NEW q \in Runners \ {p}, NEW s \in Suffixes,
         NEW from, NEW to, Close(p, s, from, to)
  PROVE  Unseen(q)
<1>1. CASE Abort(p)
  BY <1>1, AbortUnseen
<1>2. CASE Goto(p, to) /\ UNCHANGED <<run, name, temps, broken, dst>>
  BY <1>2 DEF IInv, TypeOK, Goto, Unseen, Temp
<1> QED BY <1>1, <1>2 DEF Close

-----------------------------------------------------------------------------
(* What a step does to the run that takes it.                              *)

\* Nobody takes a file somebody holds.
LEMMA KeepsApart ==
  ASSUME IInv, NEW p \in Runners,
         \A q \in Runners \ {p} : Unseen(q),
         \A s \in Suffixes : s \in Holds(p)' => s \in Holds(p) /\ Temp(p, s)' = Temp(p, s)
  PROVE  Apart'
<1>1. \A q \in Runners \ {p} : \A s \in Suffixes :
        (s \in Holds(q)' <=> s \in Holds(q)) /\ Temp(q, s)' = Temp(q, s)
  BY DEF Unseen, Holds, Temp
<1> QED BY <1>1 DEF IInv, Apart

\* A new file is one that no run holds.
LEMMA CreateKeeps ==
  ASSUME IInv, NEW p \in Runners, NEW s \in Suffixes, NEW from, NEW to,
         <<s, from, to>> \in {<<"hpp", "createHpp", "createCpp">>,
                              <<"cpp", "createCpp", "open">>},
         Create(p, s, from, to)
  PROVE  TempsOf(p)' /\ DstsOf(p)' /\ Apart'
<1>1. PICK r \in Random :
        /\ temps[<<r, s>>] = Absent
        /\ name' = [name EXCEPT ![<<p, s>>] = r]
        /\ temps' = [temps EXCEPT ![<<r, s>>] = Text(run[p], FALSE)]
  BY DEF Create
<1>2. /\ pc[p] = from /\ pc'[p] = to
      /\ UNCHANGED <<run, broken, dst>>
  BY DEF Create, Goto, IInv, TypeOK
<1>3. Temp(p, s)' = <<r, s>> /\ <<r, s>> \in Temps
  BY <1>1, FilesAndTemps DEF Temp, IInv, TypeOK
<1>4. \A t \in Holds(p)' : t = s \/ (t \in Holds(p) /\ t # s)
  BY <1>2 DEF Holds, Suffixes, HppHeldAt, CppHeldAt
<1>5. temps'[<<r, s>>].run = run[p]
  <2>1. temps'[<<r, s>>] = Text(run[p], FALSE)
    BY <1>1, <1>3 DEF IInv, TypeOK
  <2> QED BY <2>1, RunTypes DEF IInv
<1>6. \A t \in Suffixes : pc'[p] \in Unwritten(t)
  BY <1>2 DEF Unwritten
<1>7. \A t \in Holds(p) : t # s => /\ Temp(p, t)' = Temp(p, t) 
                                   /\ temps'[Temp(p, t)] = temps[Temp(p, t)]
  BY <1>1 DEF IInv, TypeOK, TempsOf, Temp, Files, Holds
<1>8. TempsOf(p)'
  <2> SUFFICES ASSUME NEW t \in Holds(p)'
               PROVE  /\ Temp(p, t)' \in Temps
                      /\ temps'[Temp(p, t)'].run = run'[p]
    BY <1>2, <1>6 DEF TempsOf, Holds
  <2>1. CASE t = s
    BY <2>1, <1>2, <1>3, <1>5
  <2>2. CASE t \in Holds(p) /\ t # s
    BY <2>2, <1>2, <1>7 DEF IInv, TempsOf
  <2> QED BY <1>4, <2>1, <2>2
<1>9. DstsOf(p)'
  BY <1>2 DEF DstsOf, IInv
<1>10. Apart'
  <2>1. \A q \in Runners \ {p} : Unseen(q)
    BY CreateUnseen
  <2>2. \A q \in Runners \ {p} : \A t \in Suffixes :
          (t \in Holds(q)' <=> t \in Holds(q)) /\ Temp(q, t)' = Temp(q, t)
    BY <2>1 DEF Unseen, Holds, Temp
  <2>3. \A q \in Runners \ {p} : s \in Holds(q) => Temp(q, s) # <<r, s>>
    <3> SUFFICES ASSUME NEW q \in Runners \ {p}, s \in Holds(q)
                 PROVE  Temp(q, s) # <<r, s>>
      OBVIOUS
    <3>1. temps[Temp(q, s)].run = run[q] /\ run[q] # -1
      BY RunTypes DEF IInv, TempsOf
    <3> QED BY <1>1, <3>1, TextTypes
  <2> QED BY <1>3, <1>4, <1>7, <2>2, <2>3 DEF IInv, Apart
<1> QED BY <1>8, <1>9, <1>10

\* Every text a run writes is for a file it holds.
LEMMA WriteKeeps ==
  ASSUME IInv, NEW p \in Runners, NEW s \in Suffixes, NEW from, NEW to,
         <<s, from, to>> \in {<<"hpp", "writeHpp", "writeCpp">>,
                              <<"cpp", "writeCpp", "closeCpp">>},
         Write(p, s, from, to)
  PROVE  TempsOf(p)' /\ DstsOf(p)' /\ Apart'
<1>2. /\ pc[p] = from /\ pc'[p] = to
      /\ UNCHANGED <<run, name, dst>>
  BY DEF Write, Goto, IInv, TypeOK
<1>3. \A t \in Suffixes : Temp(p, t)' = Temp(p, t)
  BY <1>2 DEF Temp
<1>4. Holds(p)' = Suffixes /\ Holds(p) = Suffixes
  BY <1>2 DEF Holds, Suffixes, HppHeldAt, CppHeldAt
<1>5. \A t \in Suffixes : t # s => /\ temps'[Temp(p, t)] = temps[Temp(p, t)]
                                   /\ <<p, t>> \in broken => <<p, t>> \in broken'
  <2> SUFFICES ASSUME NEW t \in Suffixes, t # s
               PROVE  /\ temps'[Temp(p, t)] = temps[Temp(p, t)]
                      /\ <<p, t>> \in broken => <<p, t>> \in broken'
    OBVIOUS
  <2>1. Temp(p, t) \in Temps /\ Temp(p, t) # Temp(p, s)
    BY <1>4 DEF IInv, TempsOf, Temp
  <2> QED BY <2>1 DEF IInv, TypeOK, Write
<1>6. /\ temps'[Temp(p, s)].run = run[p]
      /\ <<p, s>> \in broken' \/ temps'[Temp(p, s)].whole
  <2>1. CASE temps' = [temps EXCEPT ![Temp(p, s)] = Text(run[p], TRUE)]
    <3>1. Temp(p, s) \in Temps
      BY <1>4 DEF IInv, TempsOf
    <3>2. temps'[Temp(p, s)] = Text(run[p], TRUE)
      BY <2>1, <3>1 DEF IInv, TypeOK
    <3> QED BY <3>2, RunTypes DEF IInv
  <2>2. CASE <<p, s>> \in broken' /\ UNCHANGED temps
    BY <2>2, <1>4 DEF IInv, TempsOf
  <2> QED BY <2>1, <2>2 DEF Write
<1>7. TempsOf(p)'
  <2>1. SUFFICES ASSUME NEW t \in Suffixes
        PROVE  /\ Temp(p, t) \in Temps
               /\ temps'[Temp(p, t)].run = run[p]
               /\ to \notin Unwritten(t) => <<p, t>> \in broken' \/ temps'[Temp(p, t)].whole
    BY <1>2, <1>3, <1>4 DEF TempsOf
  <2>2. CASE t = s
    BY <1>4, <1>6, <2>2 DEF IInv, TempsOf
  <2>3. CASE t # s
    <3>1. /\ Temp(p, t) \in Temps
          /\ temps[Temp(p, t)].run = run[p]
          /\ from \notin Unwritten(t) => <<p, t>> \in broken \/ temps[Temp(p, t)].whole
      BY <1>2, <1>4 DEF IInv, TempsOf
    <3>2. from \in Unwritten(t) => to \in Unwritten(t)
      BY <2>3 DEF Unwritten, Suffixes
    <3> QED BY <3>1, <3>2, <1>5, <2>3
  <2> QED BY <2>2, <2>3
<1>8. DstsOf(p)'
  BY <1>2 DEF DstsOf, IInv
<1>9. Apart'
  <2>1. \A q \in Runners \ {p} : Unseen(q)
    BY <1>4, OwnUnseen
  <2> QED BY <2>1, <1>3, <1>4, KeepsApart
<1> QED BY <1>7, <1>8, <1>9

\* What is renamed is whole and of this run.
LEMMA RenameKeeps ==
  ASSUME IInv, NEW p \in Runners, NEW s \in Suffixes, NEW from, NEW to,
         <<s, from, to>> \in {<<"cpp", "renameCpp", "closeHpp">>,
                              <<"hpp", "renameHpp", "succeeded">>},
         Rename(p, s, from, to)
  PROVE  TempsOf(p)' /\ DstsOf(p)' /\ Apart'
<1>1. /\ pc[p] = from /\ pc'[p] = to
      /\ UNCHANGED <<run, broken>>
  BY DEF Rename, Goto, IInv, TypeOK
<1>2. s \in Holds(p) /\ \A t \in Holds(p)' : t \in Holds(p) /\ t # s
  BY <1>1 DEF Holds, Suffixes, HppHeldAt, CppHeldAt
<1>3. temps[Temp(p, s)] = Text(run[p], TRUE)
  <2>1. /\ Temp(p, s) \in Temps
        /\ temps[Temp(p, s)].run = run[p]
        /\ temps[Temp(p, s)].whole
    BY <1>1, <1>2 DEF IInv, TempsOf
  <2>2. temps[Temp(p, s)] \in TextType
    BY <2>1, RunTypes, TextTypes DEF IInv, TypeOK
  <2> QED BY <2>1, <2>2, TextIs DEF IInv, TypeOK
<1>4. \A t \in Holds(p) : t # s =>
        /\ Temp(p, t)' = Temp(p, t)
        /\ temps'[Temp(p, t)] = temps[Temp(p, t)]
  <2> SUFFICES ASSUME NEW t \in Holds(p), t # s
               PROVE  /\ Temp(p, t)' = Temp(p, t)
                      /\ temps'[Temp(p, t)] = temps[Temp(p, t)]
    OBVIOUS
  <2>1. Temp(p, t) \in Temps /\ Temp(p, t) # Temp(p, s)
    BY DEF IInv, TempsOf, Temp
  <2>2. t \in Suffixes
    BY DEF Holds
  <2> QED BY <2>1, <2>2 DEF IInv, TypeOK, Rename, Temp, Files
<1>5. TempsOf(p)'
  <2> SUFFICES ASSUME NEW t \in Holds(p)'
               PROVE  /\ Temp(p, t)' \in Temps
                      /\ temps'[Temp(p, t)'].run = run'[p]
                      /\ to \notin Unwritten(t) =>
                           <<p, t>> \in broken' \/ temps'[Temp(p, t)'].whole
    BY <1>1, <1>2 DEF TempsOf
  <2>1. /\ Temp(p, t) \in Temps
        /\ temps[Temp(p, t)].run = run[p]
        /\ from \notin Unwritten(t) => <<p, t>> \in broken \/ temps[Temp(p, t)].whole
    BY <1>1, <1>2 DEF IInv, TempsOf
  <2>2. from \notin Unwritten(t)
    BY DEF Unwritten
  <2> QED BY <1>1, <1>2, <1>4, <2>1, <2>2
<1>6. DstsOf(p)'
  <2>1. /\ dst'[<<p, s>>] = Text(run[p], TRUE)
        /\ \A t \in Suffixes : t # s => dst'[<<p, t>>] = dst[<<p, t>>]
    BY <1>3, FilesAndTemps DEF IInv, TypeOK, Rename
  <2>2. Text(run[p], TRUE).run = run[p] /\ Text(run[p], TRUE).whole /\ run[p] \in Nat
    BY RunTypes DEF IInv, TypeOK
  <2>3. DstsOf(p)
    BY DEF IInv
  <2>4. CASE s = "cpp"
    <3>1. dst'[<<p, "hpp">>] = dst[<<p, "hpp">>]
      BY <2>1, <2>4, FilesAndTemps
    <3>2. /\ dst[<<p, "hpp">>].whole
          /\ dst[<<p, "hpp">>].run <= run[p]
      BY <2>3, FilesAndTemps DEF DstsOf
    <3>3. pc'[p] = "closeHpp"
      BY <1>1, <2>4
    <3>4. dst'[<<p, "cpp">>] = Text(run[p], TRUE)
      BY <2>1, <2>4
    <3>5. dst'[<<p, "cpp">>].whole
      BY <2>2, <3>4
    <3>6. dst'[<<p, "cpp">>].run <= run[p] /\ dst'[<<p, "hpp">>].run <= dst'[<<p, "cpp">>].run
      <4>1. dst'[<<p, "cpp">>].run = run[p] /\ run[p] \in Nat
        BY <2>2, <3>4
      <4> QED BY <4>1, <3>1, <3>2
    <3>7. \A t \in Suffixes : dst'[<<p, t>>].whole /\ dst'[<<p, t>>].run <= run[p]
      BY <3>1, <3>2, <3>5, <3>6 DEF Suffixes
    <3> QED BY <1>1, <3>3, <3>4, <3>6, <3>7 DEF DstsOf
  <2>5. CASE s = "hpp"
    BY <1>1, <2>1, <2>2, <2>3, <2>5 DEF DstsOf, Suffixes
  <2> QED BY <2>4, <2>5 DEF Suffixes
<1>7. Apart'
  <2>1. \A q \in Runners \ {p} : Unseen(q)
    BY <1>2, OwnUnseen
  <2> QED BY <2>1, <1>2, <1>4, KeepsApart
<1> QED BY <1>5, <1>6, <1>7

\* A stream without an error has written its text.
LEMMA CloseKeeps ==
  ASSUME IInv, NEW p \in Runners, NEW s \in Suffixes, NEW from, NEW to,
         <<s, from, to>> \in {<<"cpp", "closeCpp", "renameCpp">>,
                              <<"hpp", "closeHpp", "renameHpp">>},
         pc[p] = from, <<p, s>> \notin broken, Goto(p, to),
         UNCHANGED <<run, name, temps, broken, dst>>
  PROVE  TempsOf(p)' /\ DstsOf(p)' /\ Apart'
<1>1. pc'[p] = to
  BY DEF Goto, IInv, TypeOK
<1>2. Holds(p)' = Holds(p) /\ s \in Holds(p)
  BY <1>1 DEF Holds, Suffixes, HppHeldAt, CppHeldAt
<1>3. \A t \in Suffixes : Temp(p, t)' = Temp(p, t)
  BY DEF Temp
<1>4. \A t \in Holds(p) : to \notin Unwritten(t) /\ from \notin Unwritten(t)
  BY DEF Unwritten
<1>5. temps[Temp(p, s)].whole
  BY <1>2, <1>4 DEF IInv, TempsOf
<1>6. \A t \in Holds(p) : t \in Suffixes
  BY DEF Holds
<1>7. TempsOf(p)'
  <2>1. \A t \in Holds(p) : to = "renameHpp" => t = s
    BY <1>1, <1>2 DEF Holds, Suffixes, HppHeldAt, CppHeldAt
  <2> QED BY <1>1, <1>2, <1>3, <1>4, <1>5, <1>6, <2>1 DEF IInv, TempsOf
<1>8. DstsOf(p)'
  BY <1>1 DEF IInv, DstsOf
<1>9. Apart'
  BY <1>2, <1>3, <1>6, KeepsApart, CloseUnseen DEF Close
<1> QED BY <1>7, <1>8, <1>9

\* A run that stops has no more files of its own.
LEMMA AbortKeeps ==
  ASSUME IInv, NEW p \in Runners, Abort(p)
  PROVE  TempsOf(p)' /\ DstsOf(p)' /\ Apart'
<1>1. pc'[p] = "failed" /\ UNCHANGED <<run, dst>>
  BY DEF Abort, Goto, IInv, TypeOK
<1>2. Holds(p)' = {}
  BY <1>1 DEF Holds, Suffixes, HppHeldAt, CppHeldAt
<1> QED BY <1>1, <1>2, KeepsApart, AbortUnseen DEF TempsOf, DstsOf, IInv

\* A run that starts has none yet.
LEMMA StartKeeps ==
  ASSUME IInv, NEW p \in Runners, Start(p)
  PROVE  TempsOf(p)' /\ DstsOf(p)' /\ Apart'
<1>1. /\ pc'[p] \in {"createHpp", "failed"}
      /\ run'[p] = run[p] + 1
      /\ UNCHANGED dst
  BY DEF Start, Goto, IInv, TypeOK
<1>2. Holds(p)' = {}
  BY <1>1 DEF Holds, Suffixes, HppHeldAt, CppHeldAt
<1>3. \A s \in Suffixes : dst[<<p, s>>].run \in Nat /\ run[p] \in Nat
  BY FilesAndTemps, TextTypes DEF IInv, TypeOK
<1>4. DstsOf(p)'
  <2>1. \A s \in Suffixes : dst[<<p, s>>].whole /\ dst[<<p, s>>].run <= run[p] + 1
    <3> SUFFICES ASSUME NEW s \in Suffixes
                 PROVE  dst[<<p, s>>].whole /\ dst[<<p, s>>].run <= run[p] + 1
      OBVIOUS
    <3>1. dst[<<p, s>>].whole /\ dst[<<p, s>>].run <= run[p]
      BY DEF DstsOf, IInv
    <3>2. dst[<<p, s>>].run \in Nat /\ run[p] \in Nat
      BY <1>3
    <3> QED BY <3>1, <3>2
  <2>2. dst[<<p, "hpp">>].run <= dst[<<p, "cpp">>].run
    BY DEF DstsOf, IInv
  <2> QED BY <1>1, <2>1, <2>2 DEF DstsOf
<1> QED BY <1>2, <1>4, KeepsApart, StartUnseen DEF TempsOf

-----------------------------------------------------------------------------
(* The invariant.                                                          *)

\* No command has run.
LEMMA IInvInit == Init => IInv
<1> SUFFICES ASSUME Init PROVE IInv
  OBVIOUS
<1>1. TypeOK
  BY TypeInit
<1>2. \A p \in Runners : Holds(p) = {} /\ pc[p] = "idle" /\ run[p] = 0
  BY DEF Init, Holds, HppHeldAt, CppHeldAt
<1>3. \A p \in Runners : \A s \in Suffixes :
        dst[<<p, s>>].whole /\ dst[<<p, s>>].run = 0
  BY TextTypes DEF Init, Files
<1>4. Apart
  BY <1>2 DEF Apart
<1>5. ASSUME NEW p \in Runners PROVE TempsOf(p) /\ DstsOf(p)
  <2>1. TempsOf(p)
    BY <1>2 DEF TempsOf
  <2>2. /\ dst[<<p, "hpp">>].run <= dst[<<p, "cpp">>].run
        /\ \A s \in Suffixes : dst[<<p, s>>].whole /\ dst[<<p, s>>].run <= run[p]
    BY <1>2, <1>3, FilesAndTemps
  <2>3. pc[p] \notin {"closeHpp", "renameHpp", "succeeded"}
    BY <1>2
  <2> QED BY <2>1, <2>2, <2>3 DEF DstsOf
<1> QED BY <1>1, <1>4, <1>5 DEF IInv

\* What a step of p keeps.
Kept(p) == TypeOK' /\ TempsOf(p)' /\ DstsOf(p)' /\ Apart' /\ \A q \in Runners \ {p} : Unseen(q)

\* Whatever a command does keeps the invariant.
LEMMA RunKeeps ==
  ASSUME IInv, NEW p \in Runners, Start(p) \/ Fail(p) \/ Step(p)
  PROVE  Kept(p)
<1> USE FilesAndTemps DEF Kept
<1>1. TypeOK
  BY DEF IInv
<1>2. CASE Start(p)
  BY <1>1, <1>2, StartTypes, StartKeeps, StartUnseen
<1>3. CASE Abort(p)
  BY <1>1, <1>3, AbortTypes, AbortKeeps, AbortUnseen
<1>4. CASE Create(p, "hpp", "createHpp", "createCpp")
  BY <1>1, <1>4, CreateTypes, CreateKeeps, CreateUnseen, Labels
<1>5. CASE Create(p, "cpp", "createCpp", "open")
  BY <1>1, <1>5, CreateTypes, CreateKeeps, CreateUnseen, Labels
<1>6. CASE OpenInput(p)
  <2>1. TypeOK'
    BY <1>1, <1>6, Labels DEF OpenInput, Goto, TypeOK
  <2>2. \A q \in Runners \ {p} : Unseen(q)
    BY <1>1, <1>6 DEF OpenInput, Goto, Unseen, TypeOK, Temp
  <2>3. pc[p] = "open" /\ pc'[p] = "writeHpp" /\ UNCHANGED <<run, name, temps, broken, dst>>
    BY <1>1, <1>6 DEF OpenInput, Goto, TypeOK
  <2>4. Holds(p)' = Holds(p) /\ \A s \in Suffixes : Temp(p, s)' = Temp(p, s)
    BY <2>3 DEF Holds, HppHeldAt, CppHeldAt, Temp
  <2>5. TempsOf(p)'
    BY <2>3, <2>4 DEF IInv, TempsOf, Unwritten, Holds
  <2>6. DstsOf(p)'
    BY <2>3 DEF IInv, DstsOf
  <2>7. Apart'
    BY <2>2, <2>4, KeepsApart
  <2> QED BY <2>1, <2>2, <2>5, <2>6, <2>7
<1>7. CASE Write(p, "hpp", "writeHpp", "writeCpp")
  <2>1. "hpp" \in Holds(p)
    BY <1>7 DEF Write, Holds, HppHeldAt, CppHeldAt
  <2> QED BY <1>1, <1>7, <2>1, WriteTypes, WriteKeeps, OwnUnseen, Labels
<1>8. CASE Write(p, "cpp", "writeCpp", "closeCpp")
  <2>1. "cpp" \in Holds(p)
    BY <1>8 DEF Write, Holds, HppHeldAt, CppHeldAt
  <2> QED BY <1>1, <1>8, <2>1, WriteTypes, WriteKeeps, OwnUnseen, Labels
<1>9. CASE Close(p, "cpp", "closeCpp", "renameCpp")
  BY <1>1, <1>3, <1>9, CloseTypes, CloseKeeps, CloseUnseen, Labels DEF Close
<1>10. CASE Close(p, "hpp", "closeHpp", "renameHpp")
  BY <1>1, <1>3, <1>10, CloseTypes, CloseKeeps, CloseUnseen, Labels DEF Close
<1>11. CASE Rename(p, "cpp", "renameCpp", "closeHpp")
  <2>1. "cpp" \in Holds(p)
    BY <1>11 DEF Rename, Holds, HppHeldAt, CppHeldAt
  <2>2. Temp(p, "cpp") \in Temps /\ temps[Temp(p, "cpp")].run = run[p]
    BY <2>1 DEF IInv, TempsOf
  <2> QED BY <1>1, <1>11, <2>1, <2>2, RenameTypes, RenameKeeps, OwnUnseen, Labels
<1>12. CASE Rename(p, "hpp", "renameHpp", "succeeded")
  <2>1. "hpp" \in Holds(p)
    BY <1>12 DEF Rename, Holds, HppHeldAt, CppHeldAt
  <2>2. Temp(p, "hpp") \in Temps /\ temps[Temp(p, "hpp")].run = run[p]
    BY <2>1 DEF IInv, TempsOf
  <2> QED BY <1>1, <1>12, <2>1, <2>2, RenameTypes, RenameKeeps, OwnUnseen, Labels
<1> QED BY <1>2, <1>3, <1>4, <1>5, <1>6, <1>7, <1>8, <1>9, <1>10, <1>11, <1>12
        DEF Fail, Step

\* And so does every step.
LEMMA IInvStep == IInv /\ [Next]_vars => IInv'
<1> SUFFICES ASSUME IInv, [Next]_vars PROVE IInv'
  OBVIOUS
<1>1. CASE Next
  <2>1. PICK p \in Runners : Start(p) \/ Fail(p) \/ Step(p)
    BY <1>1 DEF Next
  <2>2. Kept(p)
    BY <2>1, RunKeeps
  <2>3. ASSUME NEW q \in Runners \ {p} PROVE TempsOf(q)' /\ DstsOf(q)'
    BY <2>2, UnseenKeeps DEF Kept, IInv
  <2> QED BY <2>2, <2>3 DEF Kept, IInv
<1>2. CASE UNCHANGED vars
  <2>1. TypeOK' /\ \A q \in Runners : Unseen(q)
    BY <1>2 DEF vars, Unseen, Temp, IInv, TypeOK
  <2>2. \A q \in Runners : TempsOf(q)' /\ DstsOf(q)'
    BY <2>1, UnseenKeeps DEF IInv
  <2>3. Apart'
    BY <1>2 DEF vars, IInv, Apart, Holds, Temp
  <2> QED BY <2>1, <2>2, <2>3 DEF IInv
<1> QED BY <1>1, <1>2

\* The strengthened invariant holds in every behaviour.
THEOREM Invariance == Spec => []IInv
BY IInvInit, IInvStep, PTL DEF Spec

-----------------------------------------------------------------------------
(* What follows from it.                                                   *)

\* Types: also that a file which is published exists.
THEOREM TypeCorrect == Spec => []TypeOK
<1>1. IInv => TypeOK
  BY DEF IInv
<1> QED BY <1>1, Invariance, PTL

\* Runs side by side write to files of their own, however many there are and
\* whatever earlier ones left behind.
THEOREM OwnTemps == Spec => []TempsAreOwn
<1>1. IInv => TempsAreOwn
  BY DEF IInv, TempsOf, Apart, TempsAreOwn, Holds
<1> QED BY <1>1, Invariance, PTL

\* No destination ever holds part of a text, wherever runs fail.
THEOREM AlwaysWhole == Spec => []PublishedWhole
<1>1. IInv => PublishedWhole
  <2> SUFFICES ASSUME IInv, NEW f \in Files PROVE dst[f].whole
    BY DEF PublishedWhole
  <2>1. PICK p \in Runners, s \in Suffixes : f = <<p, s>>
    BY DEF Files
  <2> QED BY <2>1 DEF IInv, DstsOf
<1> QED BY <1>1, Invariance, PTL

\* A header never looks newer than its implementation.
THEOREM HeaderFollows == Spec => []HeaderNotNewer
<1>1. IInv => HeaderNotNewer
  BY DEF IInv, DstsOf, HeaderNotNewer
<1> QED BY <1>1, Invariance, PTL

\* Exit status 0 means that both files are in place.
THEOREM SuccessMeansBoth == Spec => []SuccessPublishesBoth
<1>1. IInv => SuccessPublishesBoth
  BY DEF IInv, DstsOf, SuccessPublishesBoth, Suffixes
<1> QED BY <1>1, Invariance, PTL

-----------------------------------------------------------------------------
(* stringify implements AtomicPublish.                                     *)

Phases    == [p \in Runners |-> Phase(p)]
Published == [f \in Files |-> PublishedRun(f)]

\* The first state promises nothing.
LEMMA PromiseInit == Init => Promise!Init
<1> SUFFICES ASSUME Init PROVE Promise!Init
  OBVIOUS
<1>1. Phases = [p \in Runners |-> "idle"]
  BY DEF Init, Phases, Phase
<1>2. \A f \in Files : PublishedRun(f) = 0
  BY TextTypes DEF Init, PublishedRun
<1>3. Published = [f \in Runners \X {"hpp", "cpp"} |-> 0]
  BY <1>2 DEF Published, Files, Suffixes
<1> QED BY <1>1, <1>3 DEF Init, Promise!Init, Phases, Published

\* A step of p shows in the phase of p only, whatever it is.
LEMMA PhaseChanges ==
  ASSUME TypeOK, NEW p \in Runners, NEW to, Goto(p, to)
  PROVE  Phases' = [Phases EXCEPT ![p] = Phase(p)']
BY DEF TypeOK, Goto, Phases, Phase

\* What is published is what is at the destinations.
LEMMA PublishedStays == dst' = dst => Published' = Published
BY DEF Published, PublishedRun

\* A rename publishes what this run has written.
LEMMA RenamePublishes ==
  ASSUME IInv, IInv', NEW p \in Runners, NEW s \in Suffixes,
         dst'[<<p, s>>] = Text(run[p], TRUE),
         dst' = [dst EXCEPT ![<<p, s>>] = dst'[<<p, s>>]]
  PROVE  Published' = [Published EXCEPT ![<<p, s>>] = run[p]]
<1>1. dst'[<<p, s>>].whole /\ dst'[<<p, s>>].run = run[p]
  BY RunTypes DEF IInv
<1>2. \A f \in Files : f # <<p, s>> => dst'[f] = dst[f]
  BY DEF IInv, TypeOK
<1> QED BY <1>1, <1>2 DEF Published, PublishedRun

\* Steps the build does not see.
LEMMA Stutters ==
  ASSUME TypeOK, NEW p \in Runners, NEW to, Goto(p, to), Phase(p)' = Phase(p),
         UNCHANGED <<run, dst>>
  PROVE  UNCHANGED <<Phases, run, Published>>
<1>1. Phases' = Phases
  BY PhaseChanges DEF Phases
<1> QED BY <1>1, PublishedStays

\* A run that stops gives up.
LEMMA AbortGivesUp ==
  ASSUME TypeOK, NEW p \in Runners, pc[p] \in Working, Abort(p)
  PROVE  Promise!GiveUp(p)
<1>1. Phase(p) \in {"working", "half"} /\ Phase(p)' = "idle"
  BY DEF Abort, Goto, TypeOK, Phase, Working
<1>2. Phases' = [Phases EXCEPT ![p] = "idle"] /\ Phases[p] = Phase(p)
  BY <1>1, PhaseChanges DEF Abort, Phases
<1>3. UNCHANGED <<run, Published>>
  BY PublishedStays DEF Abort
<1> QED BY <1>1, <1>2, <1>3 DEF Promise!GiveUp, Phases, Published

\* A run that starts begins, or is refused.
LEMMA StartBegins ==
  ASSUME TypeOK, NEW p \in Runners, Start(p)
  PROVE  Promise!Begin(p) \/ Promise!Refuse(p)
<1>1. Phase(p) \in {"idle", "both"} /\ Phases[p] = Phase(p)
  BY DEF Start, Over, Phase, Phases
<1>2. run' = [run EXCEPT ![p] = @ + 1] /\ UNCHANGED Published
  BY PublishedStays DEF Start
<1>3. CASE Goto(p, "createHpp")
  <2>1. Phase(p)' = "working"
    BY <1>3 DEF Goto, TypeOK, Phase
  <2>2. Phases' = [Phases EXCEPT ![p] = "working"]
    BY <1>3, <2>1, PhaseChanges
  <2> QED BY <1>1, <1>2, <2>2 DEF Promise!Begin, Phases, Published
<1>4. CASE Goto(p, "failed")
  <2>1. Phase(p)' = "idle"
    BY <1>4 DEF Goto, TypeOK, Phase
  <2>2. Phases' = [Phases EXCEPT ![p] = "idle"]
    BY <1>4, <2>1, PhaseChanges
  <2> QED BY <1>1, <1>2, <2>2 DEF Promise!Refuse, Phases, Published
<1> QED BY <1>3, <1>4 DEF Start

\* The first rename publishes the implementation.
LEMMA RenameCppShows ==
  ASSUME IInv, IInv', NEW p \in Runners, Rename(p, "cpp", "renameCpp", "closeHpp")
  PROVE  Promise!PublishCpp(p)
<1>1. /\ Phase(p) = "working" /\ Phases[p] = Phase(p) /\ Phase(p)' = "half"
      /\ pc'[p] = "closeHpp" /\ run' = run
  BY DEF Rename, Goto, IInv, TypeOK, Phase, Phases
<1>2. Phases' = [Phases EXCEPT ![p] = "half"]
  BY <1>1, PhaseChanges DEF Rename, IInv
<1>3. dst'[<<p, "cpp">>] = Text(run[p], TRUE)
  BY <1>1 DEF IInv, DstsOf
<1>4. Published' = [Published EXCEPT ![<<p, "cpp">>] = run[p]]
  BY <1>3, RenamePublishes, FilesAndTemps DEF Rename, IInv, TypeOK
<1> QED BY <1>1, <1>2, <1>4 DEF Promise!PublishCpp, Phases, Published

\* The second one publishes the header.
LEMMA RenameHppShows ==
  ASSUME IInv, IInv', NEW p \in Runners, Rename(p, "hpp", "renameHpp", "succeeded")
  PROVE  Promise!PublishHpp(p)
<1>1. /\ Phase(p) = "half" /\ Phases[p] = Phase(p) /\ Phase(p)' = "both"
      /\ pc'[p] = "succeeded" /\ run' = run
  BY DEF Rename, Goto, IInv, TypeOK, Phase, Phases
<1>2. Phases' = [Phases EXCEPT ![p] = "both"]
  BY <1>1, PhaseChanges DEF Rename, IInv
<1>3. dst'[<<p, "hpp">>] = Text(run[p], TRUE)
  BY <1>1 DEF IInv, DstsOf
<1>4. Published' = [Published EXCEPT ![<<p, "hpp">>] = run[p]]
  BY <1>3, RenamePublishes, FilesAndTemps DEF Rename, IInv, TypeOK
<1> QED BY <1>1, <1>2, <1>4 DEF Promise!PublishHpp, Phases, Published

\* Every step of a command is a step of the promise or changes nothing in it.
LEMMA PromiseStep ==
  ASSUME IInv, IInv', NEW p \in Runners, Start(p) \/ Fail(p) \/ Step(p)
  PROVE  Promise!Next \/ UNCHANGED <<Phases, run, Published>>
<1> USE DEF IInv
<1>1. CASE Start(p)
  BY <1>1, StartBegins DEF Promise!Next
<1>2. CASE pc[p] \in Working /\ Abort(p)
  BY <1>2, AbortGivesUp DEF Promise!Next
<1>3. CASE \/ Create(p, "hpp", "createHpp", "createCpp")
           \/ Create(p, "cpp", "createCpp", "open")
           \/ OpenInput(p)
           \/ Write(p, "hpp", "writeHpp", "writeCpp")
           \/ Write(p, "cpp", "writeCpp", "closeCpp")
  <2>1. /\ pc[p] \in {"createHpp", "createCpp", "open", "writeHpp", "writeCpp"}
        /\ UNCHANGED <<run, dst>>
        /\ \E to \in {"createCpp", "open", "writeHpp", "writeCpp", "closeCpp"} : Goto(p, to)
    BY <1>3 DEF Create, OpenInput, Write
  <2>2. PICK to \in {"createCpp", "open", "writeHpp", "writeCpp", "closeCpp"} : Goto(p, to)
    BY <2>1
  <2>3. Phase(p)' = Phase(p)
    BY <2>1, <2>2 DEF Goto, TypeOK, Phase
  <2> QED BY <2>1, <2>2, <2>3, Stutters
<1>4. CASE Close(p, "cpp", "closeCpp", "renameCpp")
  <2>1. CASE Abort(p)
    BY <1>2, <1>4, <2>1 DEF Close, Working
  <2>2. CASE Goto(p, "renameCpp") /\ UNCHANGED <<run, dst>>
    <3>1. Phase(p)' = Phase(p)
      BY <1>4, <2>2 DEF Close, Goto, TypeOK, Phase
    <3> QED BY <2>2, <3>1, Stutters
  <2> QED BY <1>4, <2>1, <2>2 DEF Close
<1>5. CASE Close(p, "hpp", "closeHpp", "renameHpp")
  <2>1. CASE Abort(p)
    BY <1>2, <1>5, <2>1 DEF Close, Working
  <2>2. CASE Goto(p, "renameHpp") /\ UNCHANGED <<run, dst>>
    <3>1. Phase(p)' = Phase(p)
      BY <1>5, <2>2 DEF Close, Goto, TypeOK, Phase
    <3> QED BY <2>2, <3>1, Stutters
  <2> QED BY <1>5, <2>1, <2>2 DEF Close
<1>6. CASE Rename(p, "cpp", "renameCpp", "closeHpp")
  BY <1>6, RenameCppShows DEF Promise!Next
<1>7. CASE Rename(p, "hpp", "renameHpp", "succeeded")
  BY <1>7, RenameHppShows DEF Promise!Next
<1> QED BY <1>1, <1>2, <1>3, <1>4, <1>5, <1>6, <1>7 DEF Fail, Step

\* Every step of stringify is a step of AtomicPublish or one the build does not
\* see: a build that relies on AtomicPublish may use stringify.
THEOREM Refinement == Spec => KeepsPromise
<1>1. IInv /\ IInv' /\ [Next]_vars => [Promise!Next]_(Promise!vars)
  <2> SUFFICES ASSUME IInv, IInv', [Next]_vars
               PROVE  Promise!Next \/ UNCHANGED Promise!vars
    OBVIOUS
  <2>1. CASE Next
    BY <2>1, PromiseStep DEF Next, Promise!vars, Phases, Published
  <2>2. CASE UNCHANGED vars
    BY <2>2 DEF vars, Promise!vars, Phase, PublishedRun
  <2> QED BY <2>1, <2>2
<1> QED BY <1>1, PromiseInit, Invariance, PTL DEF Spec, KeepsPromise, Promise!Spec

=============================================================================
