-------------------------- MODULE CodeCacheProofs --------------------------
(* Proofs about CodeCache, and from there on about CodeRing. *)
EXTENDS CodeCache, CodeRing, WellFoundedInduction, TLAPS

USE CacheAssumption

-----------------------------------------------------------------------------
(* Arithmetic of pages. *)

LEMMA Division ==
  \A w \in Nat : /\ PageOf(w) \in Nat
                 /\ PageWords * PageOf(w) <= w
                 /\ w < PageWords * PageOf(w) + PageWords
BY SMT DEF PageOf

LEMMA Multiples ==
  \A p, q \in Nat : p < q => PageWords * p + PageWords <= PageWords * q
<1>1. \A p, q \in Nat : p < q => \E d \in Nat : q = p + 1 + d
  <2>1. SUFFICES ASSUME NEW p \in Nat, NEW q \in Nat, p < q PROVE \E d \in Nat : q = p + 1 + d
    OBVIOUS
  <2>2. q - p - 1 \in Nat /\ q = p + 1 + (q - p - 1)
    BY <2>1
  <2> QED BY <2>2
<1>2. \A p, d \in Nat : PageWords * (p + 1 + d) = PageWords * p + PageWords + PageWords * d
  BY SMT
<1>3. \A d \in Nat : PageWords * d \in Nat
  BY SMT
<1>4. \A p \in Nat : PageWords * p \in Nat
  BY SMT
<1> QED BY <1>1, <1>2, <1>3, <1>4

(* Pages follow the order of their words. *)
LEMMA PagesInOrder ==
  \A u, w \in Nat : u <= w => PageOf(u) <= PageOf(w)
<1> SUFFICES ASSUME NEW u \in Nat, NEW w \in Nat, u <= w, PageOf(w) < PageOf(u) PROVE FALSE
  BY Division
<1>1. PageWords * PageOf(w) + PageWords <= PageWords * PageOf(u)
  BY Multiples, Division
<1>2. PageWords * PageOf(u) \in Int /\ PageWords * PageOf(w) \in Int
  BY Division
<1> QED BY <1>1, <1>2, Division

LEMMA WordsHavePages == \A w \in Word : PageOf(w) \in Page
<1> SUFFICES ASSUME NEW w \in Word, ~(PageOf(w) < Pages) PROVE FALSE
  BY Division DEF Word, Page
<1>1. w \in Nat /\ w < Pages * PageWords
  BY DEF Word
<1>2. PageOf(w) \in Nat /\ PageWords * PageOf(w) <= w
  BY <1>1, Division
<1>3. Pages * PageWords = PageWords * Pages /\ PageWords * Pages \in Nat
  BY SMT
<1>4. PageOf(w) = Pages \/ Pages < PageOf(w)
  BY <1>2
<1>5. PageWords * PageOf(w) \in Nat
  BY <1>2, SMT
<1>6. PageWords * Pages <= PageWords * PageOf(w)
  <2>1. CASE PageOf(w) = Pages
    BY <2>1, <1>3
  <2>2. CASE Pages < PageOf(w)
    <3>1. PageWords * Pages + PageWords <= PageWords * PageOf(w)
      BY <2>2, <1>2, Multiples
    <3> QED BY <3>1, <1>3, <1>5
  <2> QED BY <1>4, <2>1, <2>2
<1> QED BY <1>1, <1>2, <1>3, <1>5, <1>6

-----------------------------------------------------------------------------
(* What translations and entries are. *)

LEMMA TranslationType ==
  ASSUME NEW t, t \in Translation
  PROVE  /\ t.shape \in Shape
         /\ t.src \in [t.shape.first..t.shape.last -> Vals]
BY DEF Translation

LEMMA ShapeType ==
  ASSUME NEW s, s \in Shape
  PROVE  /\ s.view \in View
         /\ s.first \in Word /\ s.last \in Word
         /\ s.first <= s.last
         /\ s.first \in s.entries
         /\ s.entries \subseteq Word
         /\ \A a \in s.entries : s.first <= a /\ a <= s.last
BY DEF Shape, Word

(* An entry of a block within one page is on that page, as are its words. *)
LEMMA OnItsPage ==
  ASSUME NEW t, t \in Translation, InOnePage(t), NEW a \in Word, Covers(t, a)
  PROVE  PageOf(a) = PageOf(t.shape.first)
<1>1. t.shape.first \in Word /\ t.shape.last \in Word
  BY TranslationType, ShapeType
<1>2. t.shape.first \in Nat /\ t.shape.last \in Nat /\ a \in Nat
  BY <1>1 DEF Word
<1>3. PageOf(t.shape.first) <= PageOf(a) /\ PageOf(a) <= PageOf(t.shape.last)
  BY <1>2, PagesInOrder DEF Covers
<1>4. PageOf(a) \in Nat /\ PageOf(t.shape.first) \in Nat
  BY <1>2, Division
<1> QED BY <1>3, <1>4 DEF InOnePage

LEMMA EntryFacts ==
  ASSUME NEW e, e \in Entry
  PROVE  /\ e.t \in Translation
         /\ e.at \in Word
         /\ Covers(e.t, e.at)
         /\ PageOf(e.at) \in Page
         /\ InOnePage(e.t) => PageOf(e.at) = PageOf(e.t.shape.first)
<1>1. e.t \in Translation /\ e.at \in Word /\ e.at \in e.t.shape.entries
  BY DEF Entry
<1>2. Covers(e.t, e.at)
  BY <1>1, TranslationType, ShapeType DEF Covers
<1>3. PageOf(e.at) \in Page
  BY <1>1, WordsHavePages
<1>4. InOnePage(e.t) => PageOf(e.at) = PageOf(e.t.shape.first)
  BY <1>1, <1>2, OnItsPage
<1> QED BY <1>1, <1>2, <1>3, <1>4

LEMMA EntriesOfType ==
  ASSUME NEW t, t \in Translation
  PROVE  EntriesOf(t) \subseteq Entry
<1> SUFFICES ASSUME NEW a \in t.shape.entries PROVE [at |-> a, t |-> t] \in Entry
  BY DEF EntriesOf
<1>1. a \in Word
  BY TranslationType, ShapeType
<1> QED BY <1>1 DEF Entry

LEMMA EntriesOfFacts ==
  ASSUME NEW t, NEW e \in EntriesOf(t)
  PROVE  e.t = t /\ e.at \in t.shape.entries
BY DEF EntriesOf

LEMMA KnownType ==
  ASSUME jump_dirty \subseteq Translation
  PROVE  /\ Known \subseteq Entry
         /\ \A e \in Known : e.t \in jump_dirty
<1>1. Known \subseteq Entry
  BY EntriesOfType DEF Known
<1>2. \A e \in Known : e.t \in jump_dirty
  BY EntriesOfFacts DEF Known
<1> QED BY <1>1, <1>2

(* A program's blocks compile to translations of what memory holds. *)
LEMMA CompiledCode ==
  ASSUME guest \in Guests, mem \in [Word -> Vals], NEW a, NEW t \in NewTranslation(a)
  PROVE  /\ t \in Translation
         /\ Agrees(t)
         /\ StartOf(t) \in EntriesOf(t)
<1>1. PICK s \in guest.shapes : t = [shape |-> s, src |-> Text(mem, s)]
  BY DEF NewTranslation
<1>2. s \in Shape
  BY DEF Guest
<1>3. s.first..s.last \subseteq Word
  BY <1>2, ShapeType DEF Word
<1>4. Text(mem, s) \in [s.first..s.last -> Vals]
  BY <1>3 DEF Text
<1>5. t \in Translation
  BY <1>1, <1>2, <1>4 DEF Translation
<1>6. Agrees(t)
  BY <1>1 DEF Agrees
<1>7. StartOf(t) \in EntriesOf(t)
  BY <1>1, <1>2, ShapeType DEF StartOf, EntriesOf
<1> QED BY <1>5, <1>6, <1>7

-----------------------------------------------------------------------------
(* The lists. *)

Pointers == [to : Entry, clean : BOOLEAN]

LEMMA PointerFacts ==
  ASSUME NEW e, NEW c \in BOOLEAN
  PROVE  /\ Pointer(e, c).to = e /\ Pointer(e, c).clean = c
         /\ e \in Entry => Pointer(e, c) \in Pointers
BY DEF Pointer, Pointers

LEMMA PushFacts ==
  ASSUME NEW h, NEW p, Push(h, p)
  PROVE  hash_table' \subseteq h \cup {p}
BY Zenon DEF Push, BinOf

LEMMA ReplacedFacts ==
  ASSUME NEW h, NEW es
  PROVE  \A q \in Replaced(h, es) : q \in h \/ \E e \in es : q = Pointer(e, TRUE)
BY Zenon DEF Replaced

(* What is backed: said of the lists rather than of their union. *)
Backed(in, linked, h) ==
  /\ linked \subseteq in
  /\ \A p \in h : p.clean => p.to \in in

LEMMA BackedIsPointersBacked == PointersBacked <=> Backed(jump_in, jump_out, hash_table)
BY DEF PointersBacked, Backed, Clean

LEMMA BackedIsPointersBackedNext ==
  PointersBacked' <=> Backed(jump_in', jump_out', hash_table')
BY DEF PointersBacked, Backed, Clean

(* Dropping pages leaves nothing that leads there. *)
LEMMA InvalidatePageFacts ==
  ASSUME NEW ps, invalidate_page(ps)
  PROVE  /\ jump_in' \subseteq jump_in /\ jump_out' \subseteq jump_out
         /\ hash_table' \subseteq hash_table
         /\ \A e \in jump_in' : PageOf(e.at) \notin ps
         /\ Backed(jump_in, jump_out, hash_table) => Backed(jump_in', jump_out', hash_table')
<1> DEFINE gone == {e \in jump_in : PageOf(e.at) \in ps}
<1>1. /\ jump_in' = jump_in \ gone
      /\ hash_table' = {p \in hash_table : \A e \in gone : Addr(e) # Addr(p.to)}
      /\ jump_out' = {e \in jump_out : PageOf(e.at) \notin ps}
  BY Zenon DEF invalidate_page
<1>2. \A e \in jump_in' : PageOf(e.at) \notin ps
  BY <1>1
<1>3. ASSUME Backed(jump_in, jump_out, hash_table) PROVE Backed(jump_in', jump_out', hash_table')
  <2>1. jump_out' \subseteq jump_in'
    BY <1>1, <1>3 DEF Backed
  <2>2. ASSUME NEW p \in hash_table', p.clean PROVE p.to \in jump_in'
    <3>1. p \in hash_table /\ \A e \in gone : Addr(e) # Addr(p.to)
      BY <1>1
    <3>2. p.to \in jump_in
      BY <3>1, <2>2, <1>3 DEF Backed
    <3>3. p.to \notin gone
      BY <3>1
    <3> QED BY <3>2, <3>3, <1>1
  <2> QED BY <2>1, <2>2 DEF Backed
<1> QED BY <1>1, <1>2, <1>3

LEMMA RangeHasItsPage ==
  ASSUME NEW p, NEW first, NEW last
  PROVE  p \in invalidate_block_range(p, first, last)
BY DEF invalidate_block_range

LEMMA NoWindowFacts == NoWindow \in [view : View, words : SUBSET Word] /\ NoWindow.words = {}
BY DEF NoWindow, View

-----------------------------------------------------------------------------
(* Types. *)

LEMMA InitType == Init => TypeOK
BY NoWindowFacts DEF Init, TypeOK

LEMMA ListTypes ==
  TypeOK <=> /\ guest \in Guests
             /\ mem \in [Word -> Vals]
             /\ jump_dirty \subseteq Translation
             /\ jump_in \subseteq Entry /\ jump_out \subseteq Entry
             /\ hash_table \subseteq Pointers
             /\ invalid_code \in [View \X Page -> BOOLEAN]
             /\ restore_candidate \subseteq Page
             /\ inv_code \in [view : View, words : SUBSET Word]
BY DEF TypeOK, Pointers

LEMMA RecompileType ==
  ASSUME TypeOK, NEW t, t \in Translation, new_recompile_block(t)
  PROVE  /\ jump_dirty' \subseteq Translation /\ jump_in' \subseteq Entry
         /\ invalid_code' \in [View \X Page -> BOOLEAN]
         /\ restore_candidate' \subseteq Page
         /\ inv_code' \in [view : View, words : SUBSET Word]
<1>1. jump_dirty' \subseteq Translation /\ restore_candidate' \subseteq Page
  BY DEF TypeOK, new_recompile_block
<1>2. jump_in' \subseteq Entry
  BY EntriesOfType DEF TypeOK, new_recompile_block
<1>3. inv_code' \in [view : View, words : SUBSET Word]
  BY NoWindowFacts DEF new_recompile_block
<1>4. invalid_code' \in [View \X Page -> BOOLEAN]
  <2> DEFINE v(b) == invalid_code[b]
                       /\ ~(PageOf(t.shape.first) <= b[2] /\ b[2] <= PageOf(t.shape.last + 1))
  <2>1. invalid_code' = [b \in View \X Page |-> v(b)]
    BY DEF new_recompile_block
  <2>2. \A b \in View \X Page : v(b) \in BOOLEAN
    BY Zenon
  <2> HIDE DEF v
  <2> QED BY <2>1, <2>2
<1> QED BY <1>1, <1>2, <1>3, <1>4

LEMMA TargetType ==
  ASSUME guest \in Guests, NEW a \in Target
  PROVE  a[1] \in View /\ a[2] \in Word /\ PageOf(a[2]) \in Page
<1>1. PICK s \in guest.shapes : \E w \in s.entries : a = <<s.view, w>>
  BY DEF Target
<1>2. s \in Shape
  BY DEF Guest
<1>3. a[1] \in View /\ a[2] \in Word
  BY <1>1, <1>2, ShapeType
<1> QED BY <1>3, WordsHavePages

LEMMA InvalidateType ==
  ASSUME TypeOK, NEW ps, invalidate_page(ps)
  PROVE  jump_in' \subseteq Entry /\ jump_out' \subseteq Entry /\ hash_table' \subseteq Pointers
BY InvalidatePageFacts, ListTypes

LEMMA ContentsType ==
  ASSUME TypeOK, NEW words, NEW m \in Contents(words)
  PROVE  m \in [Word -> Vals]
BY DEF TypeOK, Contents

LEMMA CompileType ==
  ASSUME TypeOK, NEW a \in Target, NEW t \in NewTranslation(a), new_recompile_block(t)
  PROVE  /\ jump_dirty' \subseteq Translation /\ jump_in' \subseteq Entry
         /\ invalid_code' \in [View \X Page -> BOOLEAN]
         /\ restore_candidate' \subseteq Page
         /\ inv_code' \in [view : View, words : SUBSET Word]
         /\ StartOf(t) \in Entry
         /\ EntriesOf(t) \subseteq Entry
<1>1. t \in Translation /\ StartOf(t) \in EntriesOf(t)
  BY CompiledCode DEF TypeOK
<1> QED BY <1>1, RecompileType, EntriesOfType

LEMMA ReplacedType ==
  ASSUME NEW h \in SUBSET Pointers, NEW es \in SUBSET Entry
  PROVE  Replaced(h, es) \subseteq Pointers
<1> SUFFICES ASSUME NEW q \in Replaced(h, es) PROVE q \in Pointers
  OBVIOUS
<1>1. q \in h \/ \E e \in es : q = Pointer(e, TRUE)
  BY Zenon DEF Replaced
<1>2. CASE \E e \in es : q = Pointer(e, TRUE)
  <2>1. PICK e \in es : q = Pointer(e, TRUE)
    BY <1>2
  <2>2. e \in Entry
    OBVIOUS
  <2> QED BY <2>1, <2>2, PointerFacts
<1> QED BY <1>1, <1>2

LEMMA PushType ==
  ASSUME NEW h \in SUBSET Pointers, NEW e \in Entry, NEW c \in BOOLEAN, Push(h, Pointer(e, c))
  PROVE  hash_table' \subseteq Pointers
<1>1. Pointer(e, c) \in Pointers
  BY PointerFacts
<1>2. hash_table' \subseteq h \cup {Pointer(e, c)}
  BY PushFacts
<1> QED BY <1>1, <1>2

LEMMA HashType == TypeOK => hash_table \in SUBSET Pointers
BY ListTypes

LEMMA KnownEntries == TypeOK => Known \subseteq Entry
BY KnownType DEF TypeOK

LEMMA GetAddrType == ASSUME TypeOK, NEW a \in Target, get_addr(a) PROVE TypeOK'
<1>1. UNCHANGED <<guest, mem, jump_out>>
  BY DEF get_addr
<1>2. CASE \E e \in CleanAt(a) :
             /\ Push(hash_table, Pointer(e, TRUE))
             /\ UNCHANGED <<jump_in, jump_dirty, invalid_code, restore_candidate, inv_code>>
  <2>1. PICK e \in CleanAt(a) : Push(hash_table, Pointer(e, TRUE))
    BY <1>2
  <2>2. e \in Entry
    BY DEF CleanAt, TypeOK
  <2>3. hash_table' \subseteq Pointers
    BY <2>1, <2>2, PushType, HashType
  <2> QED BY <1>1, <1>2, <2>3, ListTypes DEF TypeOK, Pointers
<1>3. CASE /\ \E e \in DirtyAt(a) : Agrees(e.t) /\ Push(hash_table, Pointer(e, FALSE))
           /\ invalid_code' = [invalid_code EXCEPT ![<<a[1], PageOf(a[2])>>] = FALSE]
           /\ inv_code' = NoWindow
           /\ restore_candidate' = restore_candidate \cup {PageOf(a[2])}
           /\ UNCHANGED <<jump_in, jump_dirty>>
  <2>1. PICK e \in DirtyAt(a) : Push(hash_table, Pointer(e, FALSE))
    BY <1>3
  <2>2. e \in Entry
    BY KnownEntries DEF DirtyAt
  <2>3. hash_table' \subseteq Pointers
    BY <2>1, <2>2, PushType, HashType
  <2>4. restore_candidate' \subseteq Page
    BY <1>3, TargetType DEF TypeOK
  <2>5. invalid_code' \in [View \X Page -> BOOLEAN]
    BY <1>3 DEF TypeOK
  <2>6. inv_code' \in [view : View, words : SUBSET Word]
    BY <1>3, NoWindowFacts
  <2> QED BY <1>1, <1>3, <2>3, <2>4, <2>5, <2>6 DEF TypeOK, Pointers
<1>4. CASE \E t \in NewTranslation(a) :
             /\ new_recompile_block(t)
             /\ Push(Replaced(hash_table, EntriesOf(t)), Pointer(StartOf(t), TRUE))
  <2>1. PICK t \in NewTranslation(a) :
          /\ new_recompile_block(t)
          /\ Push(Replaced(hash_table, EntriesOf(t)), Pointer(StartOf(t), TRUE))
    BY <1>4
  <2>2. EntriesOf(t) \subseteq Entry /\ StartOf(t) \in Entry
    BY <2>1, CompileType
  <2>3. hash_table' \subseteq Pointers
    BY <2>1, <2>2, PushType, ReplacedType, HashType
  <2> QED BY <1>1, <2>1, <2>3, CompileType DEF TypeOK, Pointers
<1> QED BY <1>2, <1>3, <1>4 DEF get_addr

LEMMA LinkerType == ASSUME TypeOK, NEW a \in Target, dyna_linker(a) PROVE TypeOK'
<1>1. UNCHANGED <<guest, mem>>
  BY DEF dyna_linker
<1>2. CASE \E e \in CleanAt(a) :
             /\ jump_out' = jump_out \cup {e}
             /\ UNCHANGED <<jump_in, jump_dirty, hash_table, invalid_code, restore_candidate, inv_code>>
  <2>1. jump_out' \subseteq Entry
    BY <1>2 DEF CleanAt, TypeOK
  <2> QED BY <1>1, <1>2, <2>1 DEF TypeOK
<1>3. CASE /\ \E e \in DirtyAt(a) : Push(hash_table, Pointer(e, FALSE))
           /\ UNCHANGED <<jump_in, jump_dirty, jump_out, invalid_code, restore_candidate, inv_code>>
  <2>1. PICK e \in DirtyAt(a) : Push(hash_table, Pointer(e, FALSE))
    BY <1>3
  <2>2. e \in Entry
    BY KnownEntries DEF DirtyAt
  <2>3. hash_table' \subseteq Pointers
    BY <2>1, <2>2, PushType, HashType
  <2> QED BY <1>1, <1>3, <2>3 DEF TypeOK, Pointers
<1>4. CASE \E t \in NewTranslation(a) :
             /\ new_recompile_block(t)
             /\ hash_table' = Replaced(hash_table, EntriesOf(t))
             /\ jump_out' = jump_out \cup {StartOf(t)}
  <2>1. PICK t \in NewTranslation(a) :
          /\ new_recompile_block(t)
          /\ hash_table' = Replaced(hash_table, EntriesOf(t))
          /\ jump_out' = jump_out \cup {StartOf(t)}
    BY <1>4
  <2>2. EntriesOf(t) \subseteq Entry /\ StartOf(t) \in Entry
    BY <2>1, CompileType
  <2>3. hash_table' \subseteq Pointers
    BY <2>1, <2>2, ReplacedType, ListTypes
  <2>4. jump_out' \subseteq Entry
    BY <2>1, <2>2 DEF TypeOK
  <2> QED BY <1>1, <2>1, <2>3, <2>4, CompileType DEF TypeOK, Pointers
<1> QED BY <1>2, <1>3, <1>4 DEF dyna_linker

LEMMA CallerFacts ==
  ASSUME NEW a, CompileCaller(a)
  PROVE  /\ UNCHANGED <<guest, mem, jump_in, jump_dirty, invalid_code, restore_candidate>>
         /\ inv_code' = NoWindow
         /\ \A e \in jump_out' : \/ e \in jump_out \/ e \in jump_in
                                 \/ \E p \in hash_table : p.clean /\ e = p.to
         /\ \A q \in hash_table' : q \in hash_table \/ \E e \in jump_in : q = Pointer(e, TRUE)
<1> DEFINE clean == {p \in BinOf(hash_table, a) : p.clean}
<1>1. /\ UNCHANGED <<guest, mem, jump_in, jump_dirty, invalid_code, restore_candidate>>
      /\ inv_code' = NoWindow
  BY DEF CompileCaller
<1>2. CASE \E p \in clean : jump_out' = jump_out \cup {p.to} /\ UNCHANGED hash_table
  BY <1>1, <1>2 DEF BinOf
<1>3. CASE \E e \in CleanAt(a) :
             /\ jump_out' \in {jump_out, jump_out \cup {e}}
             /\ IF BinOf(hash_table, a) # {}
                THEN \E p \in BinOf(hash_table, a) :
                       hash_table' = (hash_table \ {p}) \cup {Pointer(e, TRUE)}
                ELSE hash_table' \in {hash_table, hash_table \cup {Pointer(e, TRUE)}}
  <2>1. PICK e \in CleanAt(a) :
             /\ jump_out' \in {jump_out, jump_out \cup {e}}
             /\ IF BinOf(hash_table, a) # {}
                THEN \E p \in BinOf(hash_table, a) :
                       hash_table' = (hash_table \ {p}) \cup {Pointer(e, TRUE)}
                ELSE hash_table' \in {hash_table, hash_table \cup {Pointer(e, TRUE)}}
    BY <1>3
  <2>2. e \in jump_in
    BY DEF CleanAt
  <2>3. hash_table' \subseteq hash_table \cup {Pointer(e, TRUE)}
    BY <2>1, Zenon
  <2> QED BY <1>1, <2>1, <2>2, <2>3
<1>4. CASE UNCHANGED <<jump_out, hash_table>>
  BY <1>1, <1>4
<1>5. \/ \E p \in clean : jump_out' = jump_out \cup {p.to} /\ UNCHANGED hash_table
      \/ \E e \in CleanAt(a) :
           /\ jump_out' \in {jump_out, jump_out \cup {e}}
           /\ IF BinOf(hash_table, a) # {}
              THEN \E p \in BinOf(hash_table, a) :
                     hash_table' = (hash_table \ {p}) \cup {Pointer(e, TRUE)}
              ELSE hash_table' \in {hash_table, hash_table \cup {Pointer(e, TRUE)}}
      \/ UNCHANGED <<jump_out, hash_table>>
  BY Zenon DEF CompileCaller
<1> HIDE DEF clean
<1> QED BY <1>2, <1>3, <1>4, <1>5, Zenon

LEMMA CallerType == ASSUME TypeOK, NEW a, CompileCaller(a) PROVE TypeOK'
<1>1. ASSUME NEW e \in jump_out' PROVE e \in Entry
  <2>1. e \in jump_out \/ e \in jump_in \/ \E p \in hash_table : p.clean /\ e = p.to
    BY CallerFacts, Zenon
  <2> QED BY <2>1 DEF TypeOK
<1>2. ASSUME NEW q \in hash_table' PROVE q \in Pointers
  <2>1. q \in hash_table \/ \E e \in jump_in : q = Pointer(e, TRUE)
    BY CallerFacts
  <2>2. CASE \E e \in jump_in : q = Pointer(e, TRUE)
    <3>1. PICK e \in jump_in : q = Pointer(e, TRUE)
      BY <2>2
    <3>2. e \in Entry
      BY DEF TypeOK
    <3> QED BY <3>1, <3>2, PointerFacts
  <2> QED BY <2>1, <2>2, HashType
<1> QED BY <1>1, <1>2, CallerFacts, NoWindowFacts DEF TypeOK, Pointers

LEMMA StoreType ==
  ASSUME TypeOK, NEW v \in View, NEW w \in Word, NEW x \in Vals, Store(v, w, x)
  PROVE  TypeOK'
<1>1. mem' \in [Word -> Vals] /\ UNCHANGED <<guest, jump_dirty, restore_candidate>>
  BY DEF Store, TypeOK
<1>2. CASE UNCHANGED <<lists, invalid_code, inv_code>>
  BY <1>1, <1>2 DEF TypeOK, lists
<1>3. CASE inv_code' = [view |-> v, words |-> Gap(w)] /\ UNCHANGED <<lists, invalid_code>>
  <2>1. inv_code' \in [view : View, words : SUBSET Word]
    BY <1>3 DEF Gap
  <2> QED BY <1>1, <1>3, <2>1 DEF TypeOK, lists
<1>4. CASE \E ps : /\ inv_code' = NoWindow
                   /\ invalidate_page(ps)
                   /\ invalid_code' = [invalid_code EXCEPT ![<<v, PageOf(w)>>] = TRUE]
  <2>1. jump_in' \subseteq Entry /\ jump_out' \subseteq Entry /\ hash_table' \subseteq Pointers
    BY <1>4, InvalidateType
  <2>2. invalid_code' \in [View \X Page -> BOOLEAN]
    BY <1>4 DEF TypeOK
  <2> QED BY <1>1, <1>4, <2>1, <2>2, NoWindowFacts DEF TypeOK, Pointers
<1> QED BY <1>2, <1>3, <1>4 DEF Store, invalidate_addr

LEMMA TransferType == ASSUME TypeOK, NEW d, Transfer(d) PROVE TypeOK'
<1>1. mem' \in [Word -> Vals] /\ UNCHANGED <<guest, jump_dirty, restore_candidate, inv_code>>
  BY ContentsType DEF Transfer
<1> DEFINE blocks == {p \in Page : /\ PageOf(d.first) <= p /\ p <= PageOf(d.last + 1)
                                   /\ d.view # "kseg0" \/ ~invalid_code[<<d.view, p>>]}
<1> DEFINE v(b) == invalid_code[b] \/ (b[1] = d.view /\ b[2] \in blocks)
<1>2. /\ invalidate_page(UNION {invalidate_block(d.view, p) : p \in blocks})
      /\ invalid_code' = [b \in View \X Page |-> v(b)]
  BY Zenon DEF Transfer, ari64_clear
<1>3. jump_in' \subseteq Entry /\ jump_out' \subseteq Entry /\ hash_table' \subseteq Pointers
  BY <1>2, InvalidateType
<1>4. \A b \in View \X Page : v(b) \in BOOLEAN
  <2> HIDE DEF blocks
  <2> QED BY Zenon DEF TypeOK
<1>5. invalid_code' \in [View \X Page -> BOOLEAN]
  <2> HIDE DEF v
  <2> QED BY <1>2, <1>4
<1> QED BY <1>1, <1>3, <1>5 DEF TypeOK, Pointers

LEMMA LoadStateType == ASSUME TypeOK, LoadState PROVE TypeOK'
<1>1. mem' \in [Word -> Vals] /\ UNCHANGED <<guest, jump_dirty, invalid_code, inv_code>>
  BY ContentsType DEF LoadState
<1>2. restore_candidate' \subseteq Page
  BY DEF LoadState, TypeOK
<1>3. jump_in' \subseteq Entry /\ jump_out' \subseteq Entry /\ hash_table' \subseteq Pointers
  BY InvalidateType DEF LoadState
<1> QED BY <1>1, <1>2, <1>3 DEF TypeOK, Pointers

LEMMA CleanBlocksType == ASSUME TypeOK, NEW p \in Page, clean_blocks(p) PROVE TypeOK'
<1>1. /\ UNCHANGED <<guest, mem, jump_dirty, jump_out, invalid_code, inv_code>>
      /\ restore_candidate' \subseteq Page
      /\ jump_in' = jump_in \cup Restorable(p)
      /\ hash_table' = Replaced(hash_table, Restorable(p))
  BY DEF clean_blocks, TypeOK
<1>2. Restorable(p) \in SUBSET Entry
  BY KnownEntries DEF Restorable
<1>3. hash_table' \subseteq Pointers
  BY <1>1, <1>2, ReplacedType, HashType
<1> QED BY <1>1, <1>2, <1>3 DEF TypeOK, Pointers

LEMMA NextType == TypeOK /\ [Next]_vars => TypeOK'
<1> SUFFICES ASSUME TypeOK, [Next]_vars PROVE TypeOK'
  OBVIOUS
<1>1. ASSUME NEW a \in Target, get_addr(a) \/ dyna_linker(a) \/ CompileCaller(a) PROVE TypeOK'
  BY <1>1, GetAddrType, LinkerType, CallerType
<1>2. ASSUME NEW p \in hash_table, Evict(p) PROVE TypeOK'
  BY <1>2 DEF Evict, TypeOK
<1>3. ASSUME NEW v \in guest.views, NEW w \in guest.stores, NEW x \in Vals, Store(v, w, x)
      PROVE  TypeOK'
  <2>1. guest \in Guest
    BY DEF TypeOK
  <2>2. v \in View /\ w \in Word
    BY <2>1 DEF Guest
  <2> QED BY <1>3, <2>2, StoreType
<1>4. ASSUME NEW d \in guest.transfers, Transfer(d) PROVE TypeOK'
  BY <1>4, TransferType
<1>5. CASE LoadState
  BY <1>5, LoadStateType
<1>6. CASE new_dynarec_clear_full
  BY <1>6, NoWindowFacts DEF new_dynarec_clear_full, TypeOK
<1>7. ASSUME NEW p \in Page, clean_blocks(p) PROVE TypeOK'
  BY <1>7, CleanBlocksType
<1>8. CASE UNCHANGED vars
  BY <1>8 DEF vars, TypeOK
<1> QED BY <1>1, <1>2, <1>3, <1>4, <1>5, <1>6, <1>7, <1>8 DEF Next

(* Every state the cache and memory reach is well formed, for any size of  *)
(* memory and any programs.                                                *)
THEOREM TypeCorrect == Spec => []TypeOK
BY InitType, NextType, PTL DEF Spec

-----------------------------------------------------------------------------
(* The invariant.  A store is let through when its page holds no code or it *)
(* falls into the gap, so the gap must keep clear of every translation made *)
(* so far, not only of the clean ones: clean_blocks brings the others back. *)

Watched(in, inv) == \A e \in in : InOnePage(e.t) => ~inv[<<"kseg0", PageOf(e.at)>>]

GapIsFree(dirty, gap) == \A t \in dirty : InOnePage(t) => \A w \in gap.words : ~Covers(t, w)

Holds(m, t) == t.src = Text(m, t.shape)
ListedAgree(in, m) == \A e \in in : InOnePage(e.t) => Holds(m, e.t)

IInv == /\ TypeOK
        /\ jump_in \subseteq Known
        /\ Backed(jump_in, jump_out, hash_table)
        /\ Watched(jump_in, invalid_code)
        /\ GapIsFree(jump_dirty, inv_code)
        /\ ListedAgree(jump_in, mem)

LEMMA NextInv ==
  IInv' <=> /\ TypeOK'
            /\ jump_in' \subseteq Known'
            /\ Backed(jump_in', jump_out', hash_table')
            /\ Watched(jump_in', invalid_code')
            /\ GapIsFree(jump_dirty', inv_code')
            /\ ListedAgree(jump_in', mem')
BY DEF IInv, Backed, Watched, GapIsFree, ListedAgree

LEMMA KnownGrows == jump_dirty \subseteq jump_dirty' => Known \subseteq Known'
BY DEF Known

LEMMA ClearGap == ASSUME NEW dirty PROVE GapIsFree(dirty, NoWindow)
BY NoWindowFacts DEF GapIsFree

LEMMA HoldsIsAgrees == ASSUME NEW t PROVE Holds(mem, t) <=> Agrees(t)
BY DEF Holds, Agrees

LEMMA InitInv == Init => IInv
<1> SUFFICES ASSUME Init PROVE IInv
  OBVIOUS
<1>1. jump_in = {} /\ jump_out = {} /\ hash_table = {} /\ jump_dirty = {} /\ inv_code = NoWindow
  BY DEF Init
<1> QED BY <1>1, InitType, ClearGap DEF IInv, Backed, Watched, ListedAgree

(* What the invariant gives. *)
LEMMA InvImplies == IInv => PointersBacked /\ TranslationsAgree /\ CleanIsWatched
<1> SUFFICES ASSUME IInv PROVE PointersBacked /\ TranslationsAgree /\ CleanIsWatched
  OBVIOUS
<1>1. PointersBacked
  BY BackedIsPointersBacked DEF IInv
<1>2. TranslationsAgree
  BY <1>1, HoldsIsAgrees DEF IInv, PointersBacked, TranslationsAgree, ListedAgree
<1>3. ASSUME NEW e \in jump_in PROVE e.t \in jump_dirty
  BY KnownType DEF IInv, TypeOK
<1>4. CleanIsWatched
  BY <1>3 DEF IInv, CleanIsWatched, Watched, GapIsFree
<1> QED BY <1>1, <1>2, <1>4

-----------------------------------------------------------------------------
(* Compiling and looking up. *)

LEMMA RecompileInv ==
  ASSUME IInv, UNCHANGED mem, NEW a \in Target, NEW t \in NewTranslation(a), new_recompile_block(t)
  PROVE  /\ jump_in' \subseteq Known'
         /\ jump_in' = jump_in \cup EntriesOf(t)
         /\ StartOf(t) \in EntriesOf(t)
         /\ Watched(jump_in', invalid_code')
         /\ GapIsFree(jump_dirty', inv_code')
         /\ ListedAgree(jump_in', mem')
<1>1. t \in Translation /\ Agrees(t) /\ StartOf(t) \in EntriesOf(t)
  BY CompiledCode DEF IInv, TypeOK
<1>2. /\ jump_dirty' = jump_dirty \cup {t}
      /\ jump_in' = jump_in \cup EntriesOf(t)
      /\ inv_code' = NoWindow
  BY DEF new_recompile_block
<1>3. jump_in' \subseteq Known'
  <2>1. Known \subseteq Known'
    BY <1>2, KnownGrows
  <2>2. EntriesOf(t) \subseteq Known'
    BY <1>2 DEF Known
  <2> QED BY <1>2, <2>1, <2>2 DEF IInv
<1>4. GapIsFree(jump_dirty', inv_code')
  BY <1>2, ClearGap
<1>5. ListedAgree(jump_in', mem')
  BY <1>1, <1>2, EntriesOfFacts, HoldsIsAgrees DEF IInv, ListedAgree
<1>6. ASSUME NEW e \in jump_in', InOnePage(e.t) PROVE ~invalid_code'[<<"kseg0", PageOf(e.at)>>]
  <2>1. e \in Entry
    BY <1>1, <1>2, EntriesOfType DEF IInv, TypeOK
  <2>2. <<"kseg0", PageOf(e.at)>> \in View \X Page
    BY <2>1, EntryFacts DEF View
  <2>3. invalid_code'[<<"kseg0", PageOf(e.at)>>] =
           (/\ invalid_code[<<"kseg0", PageOf(e.at)>>]
            /\ ~(PageOf(t.shape.first) <= PageOf(e.at) /\ PageOf(e.at) <= PageOf(t.shape.last + 1)))
    BY <2>2 DEF new_recompile_block
  <2>4. CASE e \in jump_in
    BY <2>3, <2>4, <1>6 DEF IInv, Watched
  <2>5. CASE e \in EntriesOf(t)
    <3>1. e.t = t /\ PageOf(e.at) = PageOf(t.shape.first)
      BY <2>1, <2>5, <1>6, EntriesOfFacts, EntryFacts
    <3>2. t.shape.first \in Word /\ t.shape.last \in Word /\ t.shape.first <= t.shape.last
      BY <1>1, TranslationType, ShapeType
    <3>3. t.shape.first \in Nat /\ t.shape.last + 1 \in Nat /\ t.shape.first <= t.shape.last + 1
      BY <3>2 DEF Word
    <3>4. PageOf(t.shape.first) <= PageOf(t.shape.last + 1) /\ PageOf(t.shape.first) \in Nat
      BY <3>3, PagesInOrder, Division
    <3> QED BY <2>3, <3>1, <3>4
  <2> QED BY <1>2, <2>4, <2>5
<1> QED BY <1>1, <1>2, <1>3, <1>4, <1>5, <1>6 DEF Watched

(* A pointer put into the hash table is dirty, or its entry is listed. *)
LEMMA PushBacked ==
  ASSUME NEW in, NEW linked, NEW h, Backed(in, linked, h), NEW e, NEW c \in BOOLEAN,
         Push(h, Pointer(e, c)), c => e \in in
  PROVE  Backed(in, linked, hash_table')
<1>1. hash_table' \subseteq h \cup {Pointer(e, c)}
  BY PushFacts
<1> QED BY <1>1, PointerFacts DEF Backed

LEMMA ReplacedBacked ==
  ASSUME NEW in, NEW linked, NEW h, Backed(in, linked, h), NEW es
  PROVE  Backed(in \cup es, linked, Replaced(h, es))
<1>1. ASSUME NEW p \in Replaced(h, es), p.clean PROVE p.to \in in \cup es
  <2>1. p \in h \/ \E e \in es : p = Pointer(e, TRUE)
    BY Zenon DEF Replaced
  <2> QED BY <1>1, <2>1, PointerFacts DEF Backed
<1> QED BY <1>1 DEF Backed

LEMMA SameInv ==
  ASSUME IInv, TypeOK', UNCHANGED <<mem, jump_in, jump_dirty, invalid_code>>,
         Backed(jump_in, jump_out', hash_table'), inv_code' \in {inv_code, NoWindow}
  PROVE  IInv'
<1>1. Known' = Known
  BY DEF Known
<1>2. GapIsFree(jump_dirty', inv_code')
  BY ClearGap DEF IInv
<1> QED BY <1>1, <1>2, NextInv DEF IInv

LEMMA GetAddrInv == ASSUME IInv, NEW a \in Target, get_addr(a) PROVE IInv'
<1>1. UNCHANGED <<guest, mem, jump_out>> /\ TypeOK'
  BY GetAddrType DEF get_addr, IInv
<1>2. CASE \E e \in CleanAt(a) :
             /\ Push(hash_table, Pointer(e, TRUE))
             /\ UNCHANGED <<jump_in, jump_dirty, invalid_code, restore_candidate, inv_code>>
  <2>1. PICK e \in CleanAt(a) : Push(hash_table, Pointer(e, TRUE))
    BY <1>2
  <2>2. Backed(jump_in, jump_out, hash_table')
    BY <2>1, PushBacked DEF IInv, CleanAt
  <2> QED BY <1>1, <1>2, <2>2, SameInv
<1>3. CASE /\ \E e \in DirtyAt(a) : Agrees(e.t) /\ Push(hash_table, Pointer(e, FALSE))
           /\ invalid_code' = [invalid_code EXCEPT ![<<a[1], PageOf(a[2])>>] = FALSE]
           /\ inv_code' = NoWindow
           /\ restore_candidate' = restore_candidate \cup {PageOf(a[2])}
           /\ UNCHANGED <<jump_in, jump_dirty>>
  <2>1. PICK e \in DirtyAt(a) : Push(hash_table, Pointer(e, FALSE))
    BY <1>3
  <2>2. Backed(jump_in, jump_out, hash_table')
    BY <2>1, PushBacked DEF IInv
  <2>3. Watched(jump_in, invalid_code')
    <3>1. \A b \in View \X Page : invalid_code'[b] => invalid_code[b]
      BY <1>3 DEF IInv, TypeOK
    <3>2. \A d \in jump_in : <<"kseg0", PageOf(d.at)>> \in View \X Page
      BY EntryFacts DEF View, IInv, TypeOK
    <3> QED BY <3>1, <3>2 DEF IInv, Watched
  <2>4. GapIsFree(jump_dirty', inv_code')
    BY <1>3, ClearGap
  <2>5. Known' = Known
    BY <1>3 DEF Known
  <2> QED BY <1>1, <1>3, <2>2, <2>3, <2>4, <2>5, NextInv DEF IInv
<1>4. CASE \E t \in NewTranslation(a) :
             /\ new_recompile_block(t)
             /\ Push(Replaced(hash_table, EntriesOf(t)), Pointer(StartOf(t), TRUE))
  <2>1. PICK t \in NewTranslation(a) :
          /\ new_recompile_block(t)
          /\ Push(Replaced(hash_table, EntriesOf(t)), Pointer(StartOf(t), TRUE))
    BY <1>4
  <2>2. jump_in' = jump_in \cup EntriesOf(t) /\ StartOf(t) \in EntriesOf(t)
    BY <1>1, <2>1, RecompileInv
  <2>3. Backed(jump_in', jump_out, Replaced(hash_table, EntriesOf(t)))
    BY <2>2, ReplacedBacked DEF IInv
  <2>4. Backed(jump_in', jump_out', hash_table')
    BY <1>1, <2>1, <2>2, <2>3, PushBacked
  <2> QED BY <1>1, <2>1, <2>4, RecompileInv, NextInv
<1> QED BY <1>2, <1>3, <1>4 DEF get_addr

LEMMA LinkerInv == ASSUME IInv, NEW a \in Target, dyna_linker(a) PROVE IInv'
<1>1. UNCHANGED <<guest, mem>> /\ TypeOK'
  BY LinkerType DEF dyna_linker, IInv
<1>2. CASE \E e \in CleanAt(a) :
             /\ jump_out' = jump_out \cup {e}
             /\ UNCHANGED <<jump_in, jump_dirty, hash_table, invalid_code, restore_candidate, inv_code>>
  <2>1. Backed(jump_in, jump_out', hash_table')
    BY <1>2 DEF IInv, Backed, CleanAt
  <2> QED BY <1>1, <1>2, <2>1, SameInv
<1>3. CASE /\ \E e \in DirtyAt(a) : Push(hash_table, Pointer(e, FALSE))
           /\ UNCHANGED <<jump_in, jump_dirty, jump_out, invalid_code, restore_candidate, inv_code>>
  <2>1. PICK e \in DirtyAt(a) : Push(hash_table, Pointer(e, FALSE))
    BY <1>3
  <2>2. Backed(jump_in, jump_out, hash_table')
    BY <2>1, PushBacked DEF IInv
  <2> QED BY <1>1, <1>3, <2>2, SameInv
<1>4. CASE \E t \in NewTranslation(a) :
             /\ new_recompile_block(t)
             /\ hash_table' = Replaced(hash_table, EntriesOf(t))
             /\ jump_out' = jump_out \cup {StartOf(t)}
  <2>1. PICK t \in NewTranslation(a) :
          /\ new_recompile_block(t)
          /\ hash_table' = Replaced(hash_table, EntriesOf(t))
          /\ jump_out' = jump_out \cup {StartOf(t)}
    BY <1>4
  <2>2. jump_in' = jump_in \cup EntriesOf(t) /\ StartOf(t) \in EntriesOf(t)
    BY <1>1, <2>1, RecompileInv
  <2>3. Backed(jump_in', jump_out, Replaced(hash_table, EntriesOf(t)))
    BY <2>2, ReplacedBacked DEF IInv
  <2>4. Backed(jump_in', jump_out', hash_table')
    BY <2>1, <2>2, <2>3 DEF Backed
  <2> QED BY <1>1, <2>1, <2>4, RecompileInv, NextInv
<1> QED BY <1>2, <1>3, <1>4 DEF dyna_linker

LEMMA CallerInv == ASSUME IInv, NEW a \in Target, CompileCaller(a) PROVE IInv'
<1>1. TypeOK'
  BY CallerType DEF IInv
<1>2. jump_out' \subseteq jump_in
  BY CallerFacts DEF IInv, Backed
<1>3. ASSUME NEW q \in hash_table', q.clean PROVE q.to \in jump_in
  <2>1. q \in hash_table \/ \E e \in jump_in : q = Pointer(e, TRUE)
    BY CallerFacts
  <2> QED BY <1>3, <2>1, PointerFacts DEF IInv, Backed
<1>4. Backed(jump_in, jump_out', hash_table')
  BY <1>2, <1>3 DEF Backed
<1> QED BY <1>1, <1>4, CallerFacts, SameInv

-----------------------------------------------------------------------------
(* Writing. *)

(* Entries dropped, memory changed: what is left must still be right. *)
LEMMA FewerInv ==
  ASSUME IInv, TypeOK', UNCHANGED jump_dirty, NEW ps, invalidate_page(ps),
         inv_code' \in {inv_code, NoWindow},
         \A e \in jump_in : PageOf(e.at) \notin ps /\ InOnePage(e.t) =>
            /\ ~invalid_code'[<<"kseg0", PageOf(e.at)>>]
            /\ Holds(mem', e.t)
  PROVE  IInv'
<1>1. /\ jump_in' \subseteq jump_in
      /\ \A e \in jump_in' : PageOf(e.at) \notin ps
      /\ Backed(jump_in', jump_out', hash_table')
  BY InvalidatePageFacts DEF IInv
<1>2. Known' = Known
  BY DEF Known
<1>3. GapIsFree(jump_dirty', inv_code')
  BY ClearGap DEF IInv
<1>4. Watched(jump_in', invalid_code') /\ ListedAgree(jump_in', mem')
  BY <1>1 DEF Watched, ListedAgree
<1> QED BY <1>1, <1>2, <1>3, <1>4, NextInv DEF IInv

(* Memory that changes only outside a translation leaves it as it was. *)
LEMMA ElsewhereHolds ==
  ASSUME NEW t, t \in Translation, Holds(mem, t),
         \A u \in Word : Covers(t, u) => mem'[u] = mem[u]
  PROVE  Holds(mem', t)
<1>1. t.shape.first \in Word /\ t.shape.last \in Word
  BY TranslationType, ShapeType
<1>2. \A u \in t.shape.first..t.shape.last : u \in Word /\ Covers(t, u)
  BY <1>1 DEF Word, Covers
<1>3. \A u \in t.shape.first..t.shape.last : mem'[u] = mem[u]
  BY <1>2
<1>4. Text(mem', t.shape) = Text(mem, t.shape)
  BY <1>3 DEF Text
<1> QED BY <1>4 DEF Holds

LEMMA NearByType ==
  ASSUME IInv, NEW w \in Word, NEW t \in jump_dirty, InOnePage(t), NEW u \in Word, Covers(t, u),
         PageOf(u) \in {PageOf(w) - 1, PageOf(w)}
  PROVE  t \in NearBy(w)
<1>1. t \in Translation
  BY DEF IInv, TypeOK
<1>2. PageOf(u) = PageOf(t.shape.first)
  BY <1>1, OnItsPage
<1>3. t.shape.first \in t.shape.entries
  BY <1>1, TranslationType, ShapeType
<1> QED BY <1>2, <1>3 DEF NearBy

LEMMA StoreInv ==
  ASSUME IInv, NEW w \in Word, NEW x \in Vals, Store("kseg0", w, x)
  PROVE  IInv'
<1>1. TypeOK' /\ UNCHANGED <<guest, jump_dirty, restore_candidate>> /\ Known' = Known
  BY StoreType DEF IInv, View, Store, Known
<1>2. mem' = [mem EXCEPT ![w] = x] /\ mem \in [Word -> Vals]
  BY DEF Store, IInv, TypeOK
<1>3. ASSUME NEW e \in jump_in, InOnePage(e.t), ~Covers(e.t, w) PROVE Holds(mem', e.t)
  <2>1. e.t \in Translation /\ Holds(mem, e.t)
    BY <1>3, EntryFacts DEF IInv, TypeOK, ListedAgree
  <2>2. \A u \in Word : Covers(e.t, u) => mem'[u] = mem[u]
    BY <1>2, <1>3
  <2> QED BY <2>1, <2>2, ElsewhereHolds
<1>4. ASSUME NEW e \in jump_in, InOnePage(e.t), Covers(e.t, w)
      PROVE  /\ e.t \in jump_dirty /\ PageOf(e.at) = PageOf(w)
             /\ ~invalid_code[<<"kseg0", PageOf(w)>>] /\ w \notin inv_code.words
             /\ e.t \in Hit(w)
  <2>1. e.t \in jump_dirty /\ e.t \in Translation /\ PageOf(e.at) = PageOf(e.t.shape.first)
    BY <1>4, KnownType, EntryFacts DEF IInv, TypeOK
  <2>2. PageOf(w) = PageOf(e.t.shape.first)
    BY <1>4, <2>1, OnItsPage
  <2>3. ~invalid_code[<<"kseg0", PageOf(w)>>] /\ w \notin inv_code.words
    BY <1>4, <2>1, <2>2 DEF IInv, Watched, GapIsFree
  <2>4. e.t \in Hit(w)
    BY <1>4, <2>1, NearByType DEF Hit
  <2> QED BY <2>1, <2>2, <2>3, <2>4
<1>5. CASE UNCHANGED <<lists, invalid_code, inv_code>>
           /\ (invalid_code[<<"kseg0", PageOf(w)>>] \/ w \in inv_code.words)
  <2>1. ListedAgree(jump_in', mem')
    BY <1>3, <1>4, <1>5 DEF ListedAgree, lists
  <2> QED BY <1>1, <1>5, <2>1, NextInv DEF IInv, lists
<1>6. CASE /\ Hit(w) = {}
           /\ inv_code' = [view |-> "kseg0", words |-> Gap(w)]
           /\ UNCHANGED <<lists, invalid_code>>
  <2>1. ListedAgree(jump_in', mem')
    BY <1>3, <1>4, <1>6 DEF ListedAgree, lists
  <2>2. ASSUME NEW t \in jump_dirty, InOnePage(t), NEW u \in Gap(w), Covers(t, u) PROVE FALSE
    <3>1. t \in NearBy(w)
      BY <2>2, NearByType DEF Gap
    <3>2. t.shape.last < u \/ u < t.shape.first
      BY <3>1 DEF Gap
    <3>3. t.shape.first \in Word /\ t.shape.last \in Word /\ u \in Word
      BY TranslationType, ShapeType DEF IInv, TypeOK, Gap
    <3> QED BY <2>2, <3>2, <3>3 DEF Covers, Word
  <2>3. GapIsFree(jump_dirty', inv_code')
    BY <1>1, <1>6, <2>2 DEF GapIsFree
  <2> QED BY <1>1, <1>6, <2>1, <2>3, NextInv DEF IInv, lists
<1>7. CASE \E ps : /\ PageOf(w) \in ps
                   /\ inv_code' = NoWindow
                   /\ invalidate_page(ps)
                   /\ invalid_code' = [invalid_code EXCEPT ![<<"kseg0", PageOf(w)>>] = TRUE]
  <2>1. PICK ps : /\ PageOf(w) \in ps
                  /\ inv_code' = NoWindow
                  /\ invalidate_page(ps)
                  /\ invalid_code' = [invalid_code EXCEPT ![<<"kseg0", PageOf(w)>>] = TRUE]
    BY <1>7
  <2>2. ASSUME NEW e \in jump_in, PageOf(e.at) \notin ps, InOnePage(e.t)
        PROVE  ~invalid_code'[<<"kseg0", PageOf(e.at)>>] /\ Holds(mem', e.t)
    <3>1. <<"kseg0", PageOf(e.at)>> \in View \X Page /\ PageOf(e.at) # PageOf(w)
      BY <2>1, <2>2, EntryFacts DEF IInv, TypeOK, View
    <3>2. ~invalid_code'[<<"kseg0", PageOf(e.at)>>]
      BY <2>1, <2>2, <3>1 DEF IInv, TypeOK, Watched
    <3> QED BY <1>3, <1>4, <2>2, <3>1, <3>2
  <2> QED BY <1>1, <2>1, <2>2, FewerInv
<1>8. \/ UNCHANGED <<lists, invalid_code, inv_code>>
           /\ (invalid_code[<<"kseg0", PageOf(w)>>] \/ w \in inv_code.words)
      \/ invalidate_addr("kseg0", w)
  BY Zenon DEF Store
<1>9. CASE invalidate_addr("kseg0", w)
  BY <1>6, <1>7, <1>9, RangeHasItsPage, Zenon DEF invalidate_addr
<1> QED BY <1>5, <1>8, <1>9

LEMMA TransferInv ==
  ASSUME IInv, NEW d \in [view : View, first : Word, last : Word], d.first <= d.last, Transfer(d)
  PROVE  IInv'
<1> DEFINE blocks == {p \in Page : /\ PageOf(d.first) <= p /\ p <= PageOf(d.last + 1)
                                   /\ d.view # "kseg0" \/ ~invalid_code[<<d.view, p>>]}
<1> DEFINE ps == UNION {invalidate_block(d.view, p) : p \in blocks}
<1>1. /\ TypeOK' /\ UNCHANGED <<guest, jump_dirty, inv_code>>
      /\ mem' \in Contents(guest.words \cap d.first..d.last)
  BY TransferType DEF IInv, Transfer
<1>2. /\ invalidate_page(ps)
      /\ invalid_code' = [b \in View \X Page |->
                            invalid_code[b] \/ (b[1] = d.view /\ b[2] \in blocks)]
  BY Zenon DEF Transfer, ari64_clear
<1>3. \A p \in blocks : p \in ps
  BY RangeHasItsPage DEF invalidate_block
<1>4. \A u \in Word : ~(d.first <= u /\ u <= d.last) => mem'[u] = mem[u]
  BY <1>1 DEF Contents, Word
<1>5. ASSUME NEW e \in jump_in, PageOf(e.at) \notin ps, InOnePage(e.t)
      PROVE  ~invalid_code'[<<"kseg0", PageOf(e.at)>>] /\ Holds(mem', e.t)
  <2>1. e.t \in Translation /\ PageOf(e.at) \in Page /\ PageOf(e.at) = PageOf(e.t.shape.first)
    BY <1>5, EntryFacts DEF IInv, TypeOK
  <2>2. ~invalid_code[<<"kseg0", PageOf(e.at)>>] /\ Holds(mem, e.t)
    BY <1>5 DEF IInv, Watched, ListedAgree
  <2>3. PageOf(e.at) \notin blocks
    BY <1>3, <1>5
  <2>4. ~invalid_code'[<<"kseg0", PageOf(e.at)>>]
    <3>1. <<"kseg0", PageOf(e.at)>> \in View \X Page
      BY <2>1 DEF View
    <3> HIDE DEF blocks
    <3> QED BY <1>2, <2>2, <2>3, <3>1
  <2>5. ASSUME NEW u \in Word, Covers(e.t, u), d.first <= u, u <= d.last PROVE FALSE
    <3>1. PageOf(u) = PageOf(e.at)
      BY <1>5, <2>1, <2>5, OnItsPage
    <3>2. u \in Nat /\ d.first \in Nat /\ d.last + 1 \in Nat /\ u <= d.last + 1
      BY <2>5 DEF Word
    <3>3. PageOf(d.first) <= PageOf(u) /\ PageOf(u) <= PageOf(d.last + 1)
      BY <2>5, <3>2, PagesInOrder
    <3>4. PageOf(e.at) \in blocks
      BY <2>1, <2>2, <3>1, <3>3
    <3> QED BY <2>3, <3>4
  <2>6. \A u \in Word : Covers(e.t, u) => mem'[u] = mem[u]
    BY <1>4, <2>5
  <2> QED BY <2>1, <2>2, <2>4, <2>6, ElsewhereHolds
<1> QED BY <1>1, <1>2, <1>5, FewerInv

LEMMA LoadStateInv == ASSUME IInv, LoadState PROVE IInv'
<1>1. TypeOK' /\ UNCHANGED <<jump_dirty, inv_code>> /\ invalidate_page(Page)
  BY LoadStateType DEF IInv, LoadState
<1>2. \A e \in jump_in : PageOf(e.at) \in Page
  BY EntryFacts DEF IInv, TypeOK
<1> QED BY <1>1, <1>2, FewerInv

(* What is made clean again agrees and is trapped, and the gap is clear of *)
(* it since it is of all translations.                                     *)
LEMMA CleanBlocksInv == ASSUME IInv, NEW p \in Page, clean_blocks(p) PROVE IInv'
<1>1. /\ TypeOK' /\ UNCHANGED <<guest, mem, jump_dirty, jump_out, invalid_code, inv_code>>
      /\ jump_in' = jump_in \cup Restorable(p)
      /\ hash_table' = Replaced(hash_table, Restorable(p))
  BY CleanBlocksType DEF clean_blocks, IInv
<1>2. Restorable(p) \subseteq Known /\ Known' = Known
  BY <1>1 DEF Restorable, Known
<1>3. Backed(jump_in', jump_out', hash_table')
  BY <1>1, ReplacedBacked DEF IInv
<1>4. ASSUME NEW e \in Restorable(p), InOnePage(e.t)
      PROVE  ~invalid_code[<<"kseg0", PageOf(e.at)>>] /\ Holds(mem, e.t)
  <2>1. e \in Entry
    BY <1>2, KnownEntries DEF IInv
  <2>2. /\ PageOf(e.at) = PageOf(e.t.shape.first)
        /\ PageOf(e.t.shape.last) = PageOf(e.t.shape.first)
        /\ PageOf(e.at) \in Nat
    BY <1>4, <2>1, EntryFacts DEF InOnePage, Page
  <2>3. PageOf(e.at) \in PageOf(e.t.shape.first)..PageOf(e.t.shape.last)
    BY <2>2
  <2> QED BY <2>3, HoldsIsAgrees DEF Restorable
<1>5. Watched(jump_in', invalid_code') /\ ListedAgree(jump_in', mem')
  BY <1>1, <1>4 DEF IInv, Watched, ListedAgree
<1> QED BY <1>1, <1>2, <1>3, <1>5, NextInv DEF IInv

LEMMA ClearFullInv == ASSUME IInv, new_dynarec_clear_full PROVE IInv'
<1>1. TypeOK'
  BY NextType DEF IInv, Next
<1>2. jump_in' = {} /\ jump_out' = {} /\ hash_table' = {} /\ jump_dirty' = {} /\ inv_code' = NoWindow
  BY DEF new_dynarec_clear_full
<1> QED BY <1>1, <1>2, ClearGap, NextInv DEF Backed, Watched, ListedAgree

-----------------------------------------------------------------------------
(* Programs write the memory they run through kseg0 only. *)
StoresInKseg0 == \A g \in Guests : g.views \subseteq {"kseg0"}

LEMMA StepInv == StoresInKseg0 /\ IInv /\ [Next]_vars => IInv'
<1> SUFFICES ASSUME StoresInKseg0, IInv, [Next]_vars PROVE IInv'
  OBVIOUS
<1>1. ASSUME NEW a \in Target, get_addr(a) \/ dyna_linker(a) \/ CompileCaller(a) PROVE IInv'
  BY <1>1, GetAddrInv, LinkerInv, CallerInv
<1>2. ASSUME NEW p \in hash_table, Evict(p) PROVE IInv'
  <2>1. TypeOK'
    BY <1>2, NextType DEF IInv, Next
  <2>2. Backed(jump_in, jump_out', hash_table')
    BY <1>2 DEF Evict, IInv, Backed
  <2> QED BY <1>2, <2>1, <2>2, SameInv DEF Evict
<1>3. ASSUME NEW v \in guest.views, NEW w \in guest.stores, NEW x \in Vals, Store(v, w, x)
      PROVE  IInv'
  <2>1. guest \in Guests /\ guest \in Guest
    BY DEF IInv, TypeOK
  <2>2. v = "kseg0" /\ w \in Word
    BY <2>1 DEF StoresInKseg0, Guest
  <2> QED BY <1>3, <2>2, StoreInv
<1>4. ASSUME NEW d \in guest.transfers, Transfer(d) PROVE IInv'
  <2>1. guest \in Guest
    BY DEF IInv, TypeOK
  <2>2. d \in [view : View, first : Word, last : Word] /\ d.first <= d.last
    BY <2>1 DEF Guest
  <2> QED BY <1>4, <2>2, TransferInv
<1>5. CASE LoadState
  BY <1>5, LoadStateInv
<1>6. CASE new_dynarec_clear_full
  BY <1>6, ClearFullInv
<1>7. ASSUME NEW p \in Page, clean_blocks(p) PROVE IInv'
  BY <1>7, CleanBlocksInv
<1>8. CASE UNCHANGED vars
  <2>1. TypeOK' /\ Known' = Known
    BY <1>8, NextType DEF IInv, vars, Known
  <2> QED BY <1>8, <2>1, NextInv DEF IInv, vars
<1> QED BY <1>1, <1>2, <1>3, <1>4, <1>5, <1>6, <1>7, <1>8 DEF Next

LEMMA Invariance == ASSUME StoresInKseg0 PROVE Spec => []IInv
BY InitInv, StepInv, PTL DEF Spec

(* Whatever a program that stores through kseg0 writes, by the CPU, by DMA  *)
(* or by loading a state, the translations within one page that run without *)
(* a comparison are those of what memory holds: for any memory, any blocks  *)
(* and any transfers.                                                       *)
THEOREM AgreementAlways == ASSUME StoresInKseg0 PROVE Spec => []TranslationsAgree
BY Invariance, InvImplies, PTL

(* No patched jump and no clean hash table entry outlives its entry in      *)
(* jump_in.                                                                 *)
THEOREM BackedAlways == ASSUME StoresInKseg0 PROVE Spec => []PointersBacked
BY Invariance, InvImplies, PTL

(* Every clean translation within one page has its page trapped, and keeps  *)
(* clear of the gap whose stores are let through.                           *)
THEOREM WatchedAlways == ASSUME StoresInKseg0 PROVE Spec => []CleanIsWatched
BY Invariance, InvImplies, PTL

HIDE CacheAssumption

-----------------------------------------------------------------------------
(* The buffer of translations: its pieces, and what is how far ahead.       *)

(* The piece of a place, and how far into it. *)
Piece(z) == z \div Segment
Offset(z) == z % Segment

(* The piece with which a place expires first. *)
FirstOf(z) == IF z < MaxBlock THEN 0 ELSE Piece(z - MaxBlock)

(* How many pieces it is ahead of v, around the buffer. *)
Ahead(z, v) ==
  IF z < v THEN FirstOf(z) + Segments - Piece(v) ELSE FirstOf(z) - Piece(v)

(* It is not among what has expired from the list i of table k (0 the lists *)
(* of entries, 1 the patched jumps, 2 the hash table, 3 the records) when   *)
(* all steps are done up to two pieces after v.                             *)
Done(k, i, v) == k * Parts + i < Offset(v)
Kept(k, i, z, v) == Ahead(z, v) >= IF Done(k, i, v) THEN 3 ELSE 2

(* v does not lie in the middle of it. *)
Whole(t, v) == ~(t.at < v /\ v <= Stub(t))

Placed == {t \in Code : t.at + MaxBlock <= Size}
Tables ==
  [jump_in : SUBSET Placed, jump_dirty : SUBSET Placed,
   hash : SUBSET [to : Placed, clean : BOOLEAN],
   jump_out : SUBSET [stub : Placed, a : Addrs],
   links : SUBSET [from : Placed, to : Placed]]

(* What the tables hold, but for a translation that is just being made. *)
InKept(s, v, new) ==
  \A t \in s.jump_in : t \in new \/ (Whole(t, v) /\ Kept(0, ListOf[t.a], CleanEntry(t), v))
DirtyKept(s, v, new) ==
  \A t \in s.jump_dirty : t \in new \/ (Whole(t, v) /\ Kept(0, ListOf[t.a], Stub(t), v))

HashKept(s) ==
  \A p \in s.hash : IF p.clean THEN p.to \in s.jump_in ELSE p.to \in s.jump_dirty

RecordsKept(s, v, new) ==
  \A r \in s.jump_out : r.stub \in new \/ Kept(3, ListOf[r.a], Stub(r.stub), v)

(* A patched jump is recorded and leads to what is kept, or its code is not. *)
LinkKept(s, v, new, l) ==
  /\ Recorded(s, l)
  /\ l.to \in new \/ (Whole(l.to, v) /\ Kept(1, ListOf[l.to.a], CleanEntry(l.to), v))
LinkDead(v, new, l) == l.from \notin new /\ ~Kept(3, ListOf[l.to.a], Stub(l.from), v)
LinksKept(s, v, new) == \A l \in s.links : LinkKept(s, v, new, l) \/ LinkDead(v, new, l)

AllKept(s, v, new) ==
  /\ InKept(s, v, new) /\ DirtyKept(s, v, new) /\ HashKept(s)
  /\ RecordsKept(s, v, new) /\ LinksKept(s, v, new)

(* What may run: not yet among the patched jumps that have expired. *)
MayRun(t, v) == Whole(t, v) /\ Kept(1, Parts - 1, Stub(t), v)

RingTyped ==
  /\ out \in 0 .. Size - MaxBlock
  /\ expirep = (out + Lead) % Size
  /\ tables \in Tables
  /\ running \in Placed \cup {NoCode}

RingInv ==
  /\ RingTyped
  /\ AllKept(tables, out, {})
  /\ running # NoCode => MayRun(running, out)

LEMMA RingSizes ==
  /\ Parts \in Nat /\ MaxBlock \in Nat /\ 1 <= MaxBlock /\ MaxBlock <= Parts
  /\ Segment \in Nat /\ Segment = 4 * Parts /\ Segments \in Nat /\ Segments >= 4
  /\ Size \in Nat /\ Size = Segments * Segment /\ Size >= 4 * Segment
  /\ Lead = 2 * Segment
<1>1. /\ Parts \in Nat /\ MaxBlock \in Nat /\ 1 <= MaxBlock /\ MaxBlock <= Parts
      /\ Segment \in Nat /\ Segment = 4 * Parts /\ Segments \in Nat /\ Segments >= 4
  BY RingAssumption DEF Segment
<1>2. Size = Segments * Segment /\ Lead = 2 * Segment
  BY DEF Size, Lead
<1>3. Segments * Segment \in Nat
  BY <1>1
<1>4. Segments * Segment >= 4 * Segment
  <2>1. PICK n \in Nat : Segments = 4 + n
    <3>1. Segments - 4 \in Nat /\ Segments = 4 + (Segments - 4)
      BY <1>1
    <3> QED BY <3>1
  <2>2. n * Segment \in Nat /\ Segments * Segment = 4 * Segment + n * Segment
    BY <1>1, <2>1
  <2> QED BY <1>1, <2>2
<1> QED BY <1>1, <1>2, <1>3, <1>4

LEMMA PiecesApart ==
  ASSUME NEW d \in Nat \ {0}, NEW a \in Int, NEW b \in Int, a < b
  PROVE  a * d \in Int /\ b * d \in Int /\ a * d + d <= b * d
<1>1. PICK n \in Nat : b = a + 1 + n
  <2>1. b - a - 1 \in Nat /\ b = a + 1 + (b - a - 1)
    OBVIOUS
  <2> QED BY <2>1
<1>2. n * d \in Nat /\ a * d \in Int /\ b * d = a * d + d + n * d
  BY <1>1
<1> QED BY <1>2

Quot(n, d) == n \div d
Rem(n, d) == n % d

LEMMA Quotient ==
  ASSUME NEW d \in Nat \ {0}, NEW n \in Nat, NEW q, NEW r, q = Quot(n, d), r = Rem(n, d)
  PROVE  q \in Nat /\ r \in 0 .. d - 1 /\ n = q * d + r /\ q * d \in Nat
<1>1. q \in Int /\ r \in 0 .. d - 1 /\ n = d * q + r
  BY DEF Quot, Rem
<1>2. n = q * d + r /\ q * d \in Int
  BY <1>1
<1>3. q >= 0
  <2>1. ASSUME q < 0 PROVE FALSE
    <3>1. q * d + d <= 0 * d
      BY <1>1, <2>1, PiecesApart
    <3> QED BY <1>1, <1>2, <3>1
  <2> QED BY <1>1, <2>1
<1>4. q \in Nat /\ q * d \in Nat
  BY <1>1, <1>3
<1> QED BY <1>1, <1>2, <1>4

LEMMA QuotientIs ==
  ASSUME NEW d \in Nat \ {0}, NEW n \in Nat, NEW q \in Int, NEW r \in 0 .. d - 1, n = q * d + r
  PROVE  n \div d = q /\ n % d = r
<1> DEFINE p == n \div d
           s == n % d
<1>0. p = Quot(n, d) /\ s = Rem(n, d) /\ p = n \div d /\ s = n % d
  BY DEF Quot, Rem
<1> HIDE DEF p, s
<1>1. p \in Nat /\ s \in 0 .. d - 1 /\ n = p * d + s
  <2>1. p = Quot(n, d) /\ s = Rem(n, d)
    BY <1>0
  <2> QED BY <2>1, Quotient
<1>2. p * d \in Int /\ q * d \in Int
  BY <1>1
<1>3. ~(p < q)
  <2>1. ASSUME p < q PROVE FALSE
    <3>1. p * d + d <= q * d
      BY <1>1, <2>1, PiecesApart
    <3> QED BY <1>1, <1>2, <3>1
  <2> QED BY <2>1
<1>4. ~(q < p)
  <2>1. ASSUME q < p PROVE FALSE
    <3>1. q * d + d <= p * d
      BY <1>1, <2>1, PiecesApart
    <3> QED BY <1>1, <1>2, <3>1
  <2> QED BY <2>1
<1>5. p = q
  BY <1>1, <1>3, <1>4
<1>6. s = r
  BY <1>1, <1>2, <1>5
<1> QED BY <1>0, <1>5, <1>6

LEMMA PieceIs ==
  ASSUME NEW x \in Nat
  PROVE  /\ Piece(x) \in Nat /\ Offset(x) \in 0 .. Segment - 1
         /\ Piece(x) * Segment \in Nat /\ x = Piece(x) * Segment + Offset(x)
<1>1. Segment \in Nat \ {0}
  BY RingSizes
<1> DEFINE q == Piece(x)
           o == Offset(x)
<1>4. q = Quot(x, Segment) /\ o = Rem(x, Segment)
  BY DEF Piece, Offset, Quot, Rem
<1> HIDE DEF q, o
<1>5. q \in Nat /\ o \in 0 .. Segment - 1 /\ x = q * Segment + o
  BY <1>1, <1>4, Quotient
<1>2. Piece(x) \in Nat /\ Offset(x) \in 0 .. Segment - 1 /\ x = Piece(x) * Segment + Offset(x)
  BY <1>5 DEF q, o
<1> HIDE DEF Piece
<1>3. Piece(x) * Segment \in Nat
  BY <1>1, <1>2
<1> QED BY <1>2, <1>3

LEMMA PieceMade ==
  ASSUME NEW x \in Nat, NEW q \in Int, NEW o \in 0 .. Segment - 1, x = q * Segment + o
  PROVE  Piece(x) = q /\ Offset(x) = o
<1>1. Segment \in Nat \ {0}
  BY RingSizes
<1> QED BY <1>1, QuotientIs DEF Piece, Offset

LEMMA PiecesInOrder ==
  ASSUME NEW x \in Nat, NEW y \in Nat
  PROVE  /\ x <= y => Piece(x) <= Piece(y)
         /\ y <= x + Segment => Piece(y) <= Piece(x) + 1
         /\ \A b \in Int : b <= Piece(x) <=> b * Segment <= x
<1>0. Segment \in Nat \ {0}
  BY RingSizes
<1>1. /\ Piece(x) \in Nat /\ Offset(x) \in 0 .. Segment - 1
      /\ Piece(x) * Segment \in Nat /\ x = Piece(x) * Segment + Offset(x)
  BY PieceIs
<1>2. /\ Piece(y) \in Nat /\ Offset(y) \in 0 .. Segment - 1
      /\ Piece(y) * Segment \in Nat /\ y = Piece(y) * Segment + Offset(y)
  BY PieceIs
<1>3. ASSUME x <= y, Piece(y) < Piece(x) PROVE FALSE
  <2>1. Piece(y) * Segment + Segment <= Piece(x) * Segment
    BY <1>0, <1>1, <1>2, <1>3, PiecesApart
  <2> QED BY <1>0, <1>1, <1>2, <1>3, <2>1
<1>4. ASSUME y <= x + Segment, Piece(x) + 1 < Piece(y) PROVE FALSE
  <2>1. (Piece(x) + 1) * Segment + Segment <= Piece(y) * Segment
    BY <1>0, <1>1, <1>2, <1>4, PiecesApart
  <2>2. (Piece(x) + 1) * Segment = Piece(x) * Segment + Segment
    BY <1>0, <1>1
  <2> QED BY <1>0, <1>1, <1>2, <1>4, <2>1, <2>2
<1>5. ASSUME NEW b \in Int PROVE b <= Piece(x) <=> b * Segment <= x
  <2>0. b * Segment \in Int
    BY <1>0
  <2>1. ASSUME b < Piece(x) PROVE b * Segment <= x
    <3>1. b * Segment + Segment <= Piece(x) * Segment
      BY <1>0, <1>1, <2>1, PiecesApart
    <3> QED BY <1>0, <1>1, <2>0, <3>1
  <2>2. ASSUME Piece(x) < b PROVE ~(b * Segment <= x)
    <3>1. Piece(x) * Segment + Segment <= b * Segment
      BY <1>0, <1>1, <2>2, PiecesApart
    <3> QED BY <1>0, <1>1, <2>0, <3>1
  <2>3. CASE b = Piece(x)
    BY <1>0, <1>1, <2>3
  <2> QED BY <1>1, <2>1, <2>2, <2>3
<1> QED BY <1>1, <1>2, <1>3, <1>4, <1>5

LEMMA PieceInSize ==
  ASSUME NEW x \in 0 .. Size - 1
  PROVE  x \in Nat /\ Piece(x) \in 0 .. Segments - 1
<1>1. x \in Nat /\ Size \in Nat /\ Size = Segments * Segment /\ Segments \in Nat
  BY RingSizes
<1>2. Segments <= Piece(x) <=> Segments * Segment <= x
  BY <1>1, PiecesInOrder
<1>3. Piece(x) \in Nat
  BY <1>1, PieceIs
<1> QED BY <1>1, <1>2, <1>3

(* One step on. *)
Onward(v) == IF v + 1 = Size THEN 0 ELSE v + 1

LEMMA OnwardIs ==
  ASSUME NEW v \in 0 .. Size - 1
  PROVE  /\ Onward(v) \in 0 .. Size - 1
         /\ Offset(v) < Segment - 1 =>
              /\ Onward(v) = v + 1
              /\ Piece(Onward(v)) = Piece(v) /\ Offset(Onward(v)) = Offset(v) + 1
         /\ Offset(v) = Segment - 1 =>
              /\ Offset(Onward(v)) = 0
              /\ IF Piece(v) = Segments - 1 THEN Onward(v) = 0 /\ Piece(Onward(v)) = 0
                 ELSE Onward(v) = v + 1 /\ Piece(Onward(v)) = Piece(v) + 1
<1>0. /\ Segment \in Nat /\ Segment >= 4 /\ Segments \in Nat /\ Segments >= 4 /\ Size \in Nat
      /\ Size = Segments * Segment /\ Size >= 4 * Segment
  BY RingSizes
<1>1. /\ v \in Nat /\ Piece(v) \in 0 .. Segments - 1 /\ Offset(v) \in 0 .. Segment - 1
      /\ Piece(v) * Segment \in Nat /\ v = Piece(v) * Segment + Offset(v)
  BY PieceInSize, PieceIs
<1>2. Onward(v) \in 0 .. Size - 1
  BY <1>0 DEF Onward
<1>3. (Piece(v) + 1) * Segment = Piece(v) * Segment + Segment
  BY <1>0, <1>1
<1>4. ASSUME Offset(v) < Segment - 1
      PROVE  /\ Onward(v) = v + 1
             /\ Piece(Onward(v)) = Piece(v) /\ Offset(Onward(v)) = Offset(v) + 1
  <2>1. (Segments - 1) * Segment + Segment = Size /\ (Segments - 1) * Segment \in Int
    BY <1>0
  <2>2. Piece(v) * Segment <= (Segments - 1) * Segment
    <3>1. CASE Piece(v) = Segments - 1
      BY <1>1, <3>1
    <3>2. CASE Piece(v) < Segments - 1
      <4> DEFINE last == Segments - 1
      <4>2. last \in Int /\ Piece(v) \in Int /\ Piece(v) < last /\ Segment \in Nat \ {0}
        BY <1>0, <1>1, <3>2
      <4> HIDE DEF last
      <4>3. Piece(v) * Segment + Segment <= last * Segment
        BY <4>2, PiecesApart
      <4>1. Piece(v) * Segment + Segment <= (Segments - 1) * Segment
        BY <4>3 DEF last
      <4> QED BY <1>0, <1>1, <2>1, <4>1
    <3> QED BY <1>0, <1>1, <3>1, <3>2
  <2>3. Onward(v) = v + 1
    BY <1>0, <1>1, <1>4, <2>1, <2>2 DEF Onward
  <2>4. v + 1 = Piece(v) * Segment + (Offset(v) + 1) /\ Offset(v) + 1 \in 0 .. Segment - 1
    BY <1>0, <1>1, <1>4
  <2>5. Piece(v + 1) = Piece(v) /\ Offset(v + 1) = Offset(v) + 1
    BY <1>1, <2>4, PieceMade
  <2> QED BY <2>3, <2>5
<1>5. ASSUME Offset(v) = Segment - 1
      PROVE  /\ Offset(Onward(v)) = 0
             /\ IF Piece(v) = Segments - 1 THEN Onward(v) = 0 /\ Piece(Onward(v)) = 0
                ELSE Onward(v) = v + 1 /\ Piece(Onward(v)) = Piece(v) + 1
  <2>1. v + 1 = (Piece(v) + 1) * Segment
    BY <1>0, <1>1, <1>3, <1>5
  <2>2. CASE Piece(v) = Segments - 1
    <3>1. Onward(v) = 0
      BY <1>0, <1>1, <2>1, <2>2 DEF Onward
    <3>2. 0 = 0 * Segment + 0 /\ 0 \in 0 .. Segment - 1
      BY <1>0
    <3>3. Piece(0) = 0 /\ Offset(0) = 0
      BY <3>2, PieceMade
    <3> QED BY <2>2, <3>1, <3>3
  <2>3. CASE Piece(v) # Segments - 1
    <3>1. (Piece(v) + 1) * Segment + Segment <= Segments * Segment
      BY <1>0, <1>1, <2>3, PiecesApart
    <3>2. Onward(v) = v + 1
      BY <1>0, <1>1, <2>1, <3>1 DEF Onward
    <3>3. v + 1 = (Piece(v) + 1) * Segment + 0 /\ 0 \in 0 .. Segment - 1
      BY <1>0, <1>1, <2>1
    <3>4. Piece(v + 1) = Piece(v) + 1 /\ Offset(v + 1) = 0
      BY <1>1, <3>3, PieceMade
    <3> QED BY <2>3, <3>2, <3>4
  <2> QED BY <2>2, <2>3
<1> QED BY <1>2, <1>4, <1>5

LEMMA FirstIs ==
  ASSUME NEW x \in 0 .. Size - 1
  PROVE  /\ FirstOf(x) \in 0 .. Segments - 1
         /\ FirstOf(x) <= Piece(x) /\ Piece(x) <= FirstOf(x) + 1
         /\ FirstOf(x) = IF x < MaxBlock THEN 0 ELSE Piece(x - MaxBlock)
<1>0. /\ MaxBlock \in Nat /\ MaxBlock <= Segment /\ Segment \in Nat /\ Segments \in Nat /\ Size \in Nat
      /\ Segments >= 4
  BY RingSizes
<1>1. x \in Nat /\ Piece(x) \in 0 .. Segments - 1
  BY PieceInSize
<1>2. CASE x < MaxBlock
  <2>1. FirstOf(x) = 0
    BY <1>2 DEF FirstOf
  <2>2. 0 \in Nat /\ x <= 0 + Segment
    BY <1>0, <1>1, <1>2
  <2>3. Piece(x) <= Piece(0) + 1
    BY <1>1, <2>2, PiecesInOrder
  <2>4. Piece(0) = 0
    <3>1. 0 = 0 * Segment + 0 /\ 0 \in 0 .. Segment - 1
      BY RingSizes
    <3> QED BY <3>1, PieceMade
  <2> QED BY <1>0, <1>1, <1>2, <2>1, <2>3, <2>4
<1>3. CASE ~(x < MaxBlock)
  <2> DEFINE y == x - MaxBlock
  <2>1. FirstOf(x) = Piece(y)
    BY <1>3 DEF FirstOf, Piece
  <2>2. y \in Nat /\ y <= x /\ x <= y + Segment /\ y \in 0 .. Size - 1
    BY <1>0, <1>1, <1>3
  <2> HIDE DEF y
  <2>3. Piece(y) <= Piece(x) /\ Piece(x) <= Piece(y) + 1
    BY <1>1, <2>2, PiecesInOrder
  <2>4. Piece(y) \in 0 .. Segments - 1
    BY <2>2, PieceInSize
  <2> QED BY <1>3, <2>1, <2>3, <2>4 DEF y
<1> QED BY <1>2, <1>3

LEMMA FirstInOrder ==
  ASSUME NEW x \in 0 .. Size - 1, NEW y \in 0 .. Size - 1, x <= y
  PROVE  FirstOf(x) <= FirstOf(y)
<1>1. /\ FirstOf(x) = IF x < MaxBlock THEN 0 ELSE Piece(x - MaxBlock)
      /\ FirstOf(y) = IF y < MaxBlock THEN 0 ELSE Piece(y - MaxBlock)
      /\ FirstOf(y) \in Nat
  BY FirstIs
<1>2. CASE x < MaxBlock
  BY <1>1, <1>2
<1>3. CASE ~(x < MaxBlock)
  <2>1. /\ x - MaxBlock \in Nat /\ y - MaxBlock \in Nat /\ x - MaxBlock <= y - MaxBlock
        /\ ~(y < MaxBlock)
    BY <1>3, RingSizes
  <2>2. Piece(x - MaxBlock) <= Piece(y - MaxBlock)
    BY <2>1, PiecesInOrder
  <2> QED BY <1>1, <1>3, <2>1, <2>2
<1> QED BY <1>2, <1>3

(* Less than MaxBlock behind the start of a piece it is the piece's. *)
LEMMA FirstBehind ==
  ASSUME NEW x \in 0 .. Size - 1, NEW v \in 0 .. Size - 1
  PROVE  /\ x < v + MaxBlock => FirstOf(x) <= Piece(v)
         /\ x + 3 * MaxBlock >= v => FirstOf(x) + 1 >= Piece(v)
<1>0. /\ MaxBlock \in Nat /\ Segment \in Nat /\ 4 * MaxBlock <= Segment /\ Size \in Nat
      /\ x \in Nat /\ v \in Nat
  BY RingSizes
<1>1. /\ FirstOf(x) = IF x < MaxBlock THEN 0 ELSE Piece(x - MaxBlock)
      /\ FirstOf(x) \in Nat
  BY FirstIs
<1>2. Piece(v) \in Nat
  BY <1>0, PieceIs
<1>3. CASE x < MaxBlock
  <2>1. ASSUME x + 3 * MaxBlock >= v PROVE Piece(v) <= 1
    <3>1. v <= 0 + Segment
      BY <1>0, <1>3, <2>1
    <3>2. Piece(v) <= Piece(0) + 1
      BY <1>0, <3>1, PiecesInOrder
    <3>3. Piece(0) = 0
      <4>1. 0 = 0 * Segment + 0 /\ 0 \in 0 .. Segment - 1
        BY RingSizes
      <4> QED BY <4>1, PieceMade
    <3> QED BY <3>2, <3>3
  <2> QED BY <1>1, <1>2, <1>3, <2>1
<1>4. CASE ~(x < MaxBlock)
  <2> DEFINE y == x - MaxBlock
  <2>1. y \in Nat /\ FirstOf(x) = Piece(y)
    BY <1>0, <1>1, <1>4
  <2>2. x < v + MaxBlock => y <= v
    BY <1>0
  <2>3. x + 3 * MaxBlock >= v => v <= y + Segment
    BY <1>0
  <2> HIDE DEF y
  <2>4. x < v + MaxBlock => Piece(y) <= Piece(v)
    BY <1>0, <2>1, <2>2, PiecesInOrder
  <2>5. x + 3 * MaxBlock >= v => Piece(v) <= Piece(y) + 1
    BY <1>0, <2>1, <2>3, PiecesInOrder
  <2>6. Piece(y) \in Nat
    BY <2>1, PieceIs
  <2> QED BY <1>2, <2>1, <2>4, <2>5, <2>6
<1> QED BY <1>3, <1>4

-----------------------------------------------------------------------------
(* The steps of the expiry. *)

LEMMA ModOnce ==
  ASSUME NEW d \in Nat \ {0}, NEW n \in Nat
  PROVE  (n < d => n % d = n) /\ (d <= n /\ n < d + d => n % d = n - d)
<1>1. ASSUME n < d PROVE n % d = n
  <2>1. n \in 0 .. d - 1 /\ n = 0 * d + n /\ 0 \in Int
    BY <1>1
  <2> QED BY <2>1, QuotientIs
<1>2. ASSUME d <= n, n < d + d PROVE n % d = n - d
  <2> DEFINE r == n - d
  <2>1. r \in 0 .. d - 1 /\ n = 1 * d + r /\ 1 \in Int
    BY <1>2
  <2> HIDE DEF r
  <2>2. n % d = r
    BY <2>1, QuotientIs
  <2> QED BY <2>2 DEF r
<1> QED BY <1>1, <1>2

(* The step two pieces on from v, and what it goes through. *)
StepAt(v) == (v + Lead) % Size
PieceAt(v) == IF Piece(v) + 2 < Segments THEN Piece(v) + 2 ELSE Piece(v) + 2 - Segments

LEMMA StepIs ==
  ASSUME NEW v \in 0 .. Size - 1
  PROVE  /\ StepAt(v) \in 0 .. Size - 1
         /\ StepAt(v) = IF v + Lead < Size THEN v + Lead ELSE v + Lead - Size
         /\ Piece(StepAt(v)) = PieceAt(v) /\ Offset(StepAt(v)) = Offset(v)
         /\ PieceAt(v) \in 0 .. Segments - 1
<1>0. /\ Segment \in Nat \ {0} /\ Segments \in Nat /\ Segments >= 4 /\ Size \in Nat \ {0}
      /\ Size = Segments * Segment /\ Size >= 4 * Segment /\ Lead = 2 * Segment
  BY RingSizes
<1>1. /\ v \in Nat /\ Piece(v) \in 0 .. Segments - 1 /\ Offset(v) \in 0 .. Segment - 1
      /\ Piece(v) * Segment \in Nat /\ v = Piece(v) * Segment + Offset(v)
  BY PieceInSize, PieceIs
<1> DEFINE p == Piece(v)
           o == Offset(v)
           q == p * Segment
<1>2. v = q + o /\ q \in Nat /\ o \in 0 .. Segment - 1 /\ p \in 0 .. Segments - 1
  BY <1>1
<1>3. (p + 2) * Segment = q + 2 * Segment
  BY <1>0, <1>2
<1>4. p + 2 < Segments <=> v + Lead < Size
  <2>1. ASSUME p + 2 < Segments PROVE v + Lead < Size
    <3>1. (p + 2) * Segment + Segment <= Segments * Segment
      <4> DEFINE n == p + 2
      <4>1. n \in Int /\ Segments \in Int /\ n < Segments
        BY <1>0, <1>2, <2>1
      <4> HIDE DEF n
      <4>2. n * Segment + Segment <= Segments * Segment
        BY <1>0, <4>1, PiecesApart
      <4> QED BY <4>2 DEF n
    <3> HIDE DEF p, o, q
    <3> QED BY <1>0, <1>2, <1>3, <3>1
  <2>2. ASSUME ~(p + 2 < Segments) PROVE ~(v + Lead < Size)
    <3>1. CASE p + 2 = Segments
      <4> HIDE DEF p, o, q
      <4> QED BY <1>0, <1>2, <1>3, <3>1
    <3>2. CASE Segments < p + 2
      <4>1. Segments * Segment + Segment <= (p + 2) * Segment
        <5> DEFINE n == p + 2
        <5>1. n \in Int /\ Segments \in Int /\ Segments < n
          BY <1>0, <1>2, <3>2
        <5> HIDE DEF n
        <5>2. Segments * Segment + Segment <= n * Segment
          BY <1>0, <5>1, PiecesApart
        <5> QED BY <5>2 DEF n
      <4> HIDE DEF p, o, q
      <4> QED BY <1>0, <1>2, <1>3, <4>1
    <3> HIDE DEF p
    <3> QED BY <1>0, <1>2, <2>2, <3>1, <3>2
  <2> QED BY <2>1, <2>2
<1>5. v + Lead \in Nat /\ v + Lead < Size + Size
  BY <1>0, <1>1
<1>6. StepAt(v) = IF v + Lead < Size THEN v + Lead ELSE v + Lead - Size
  <2> DEFINE n == v + Lead
  <2>1. n \in Nat /\ n < Size + Size
    BY <1>5
  <2> HIDE DEF n
  <2>2. (n < Size => n % Size = n) /\ (Size <= n /\ n < Size + Size => n % Size = n - Size)
    <3>1. Size \in Nat \ {0} /\ n \in Nat
      BY <1>0, <2>1
    <3> QED BY <3>1, ModOnce
  <2>3. CASE n < Size
    BY <2>2, <2>3 DEF n, StepAt
  <2>4. CASE ~(n < Size)
    <3>1. Size <= n
      BY <1>0, <2>1, <2>4
    <3>2. n % Size = n - Size
      BY <2>1, <2>2, <3>1
    <3>3. StepAt(v) = n % Size /\ n = v + Lead
      BY DEF n, StepAt
    <3>4. StepAt(v) = n - Size
      BY <3>2, <3>3
    <3>5. ~(v + Lead < Size)
      BY <2>4, <3>3
    <3>6. StepAt(v) = v + Lead - Size
      BY <1>0, <1>1, <3>3, <3>4
    <3> QED BY <3>5, <3>6
  <2> QED BY <2>3, <2>4
<1>7. StepAt(v) \in 0 .. Size - 1
  BY <1>0, <1>1, <1>5, <1>6
<1>8. PieceAt(v) = (IF v + Lead < Size THEN p + 2 ELSE p + 2 - Segments) /\ PieceAt(v) \in 0 .. Segments - 1
  <2>1. PieceAt(v) = IF p + 2 < Segments THEN p + 2 ELSE p + 2 - Segments
    BY DEF PieceAt
  <2> HIDE DEF p
  <2> QED BY <1>0, <1>2, <1>4, <2>1
<1>9. StepAt(v) = PieceAt(v) * Segment + o
  <2>1. CASE v + Lead < Size
    <3>1. StepAt(v) = v + Lead /\ PieceAt(v) = p + 2
      BY <1>6, <1>8, <2>1
    <3> HIDE DEF p, o, q
    <3> QED BY <1>0, <1>2, <1>3, <3>1
  <2>2. CASE ~(v + Lead < Size)
    <3>1. StepAt(v) = v + Lead - Size /\ PieceAt(v) = (p + 2) - Segments
      <4>1. PieceAt(v) = p + 2 - Segments
        BY <1>8, <2>2
      <4>2. StepAt(v) = v + Lead - Size
        BY <1>6, <2>2
      <4>3. p \in Int
        BY <1>2
      <4>4. p + 2 - Segments = (p + 2) - Segments
        <5> HIDE DEF p
        <5> QED BY <1>0, <4>3
      <4> QED BY <4>1, <4>2, <4>4
    <3>2. ((p + 2) - Segments) * Segment = (p + 2) * Segment - Segments * Segment
      <4> DEFINE n == p + 2
      <4>1. n \in Int
        BY <1>2
      <4> HIDE DEF n
      <4>2. (n - Segments) * Segment = n * Segment - Segments * Segment
        BY <1>0, <4>1
      <4> QED BY <4>2 DEF n
    <3> HIDE DEF p, o, q
    <3> QED BY <1>0, <1>2, <1>3, <3>1, <3>2
  <2> QED BY <2>1, <2>2
<1>10. Piece(StepAt(v)) = PieceAt(v) /\ Offset(StepAt(v)) = o
  <2>1. StepAt(v) \in Nat /\ PieceAt(v) \in Int /\ o \in 0 .. Segment - 1
    BY <1>0, <1>2, <1>7, <1>8
  <2> HIDE DEF o
  <2> QED BY <1>9, <2>1, PieceMade
<1> QED BY <1>6, <1>7, <1>8, <1>10

(* The table it goes through, and the list or bin in it. *)
TableAt(v) == (StepAt(v) \div Parts) % 4
ListAt(v) == StepAt(v) % Parts

LEMMA ListIs ==
  ASSUME NEW v \in 0 .. Size - 1
  PROVE  /\ TableAt(v) \in 0 .. 3 /\ ListAt(v) \in 0 .. Parts - 1
         /\ TableAt(v) * Parts + ListAt(v) = Offset(v)
<1>0. Parts \in Nat \ {0} /\ Segment = 4 * Parts
  BY RingSizes
<1>1. /\ Offset(v) \in 0 .. Segment - 1 /\ StepAt(v) \in Nat
      /\ StepAt(v) = PieceAt(v) * Segment + Offset(v)
      /\ PieceAt(v) \in Nat
  <2>1. StepAt(v) \in Nat /\ v \in Nat /\ PieceAt(v) \in Nat
    BY StepIs, RingSizes
  <2> QED BY <2>1, StepIs, PieceIs
<1> DEFINE o == Offset(v)
           j == o \div Parts
           i == o % Parts
<1>2. o \in Nat /\ o <= 4 * Parts - 1
  BY <1>0, <1>1
<1>3. /\ j \in Nat /\ i \in 0 .. Parts - 1 /\ o = j * Parts + i /\ j * Parts \in Nat
  <2>1. j = Quot(o, Parts) /\ i = Rem(o, Parts)
    BY DEF Quot, Rem
  <2> HIDE DEF o, j, i
  <2> QED BY <1>0, <1>2, <2>1, Quotient
<1> HIDE DEF j, i
<1>4. j \in 0 .. 3
  <2>1. ASSUME 3 < j PROVE FALSE
    <3>1. 3 * Parts + Parts <= j * Parts
      BY <1>0, <1>3, <2>1, PiecesApart
    <3> HIDE DEF o
    <3> QED BY <1>0, <1>2, <1>3, <3>1
  <2> QED BY <1>3, <2>1
<1> DEFINE b == 4 * PieceAt(v)
<1>5. StepAt(v) = (b + j) * Parts + i /\ b + j \in Nat
  <2>1. b \in Nat /\ PieceAt(v) * (4 * Parts) = b * Parts /\ b * Parts \in Nat
    BY <1>0, <1>1
  <2>2. StepAt(v) = b * Parts + o
    BY <1>0, <1>1, <2>1
  <2> HIDE DEF b, o
  <2>3. (b + j) * Parts = b * Parts + j * Parts
    BY <1>0, <1>3, <2>1
  <2> QED BY <1>0, <1>3, <2>1, <2>2, <2>3
<1>6. StepAt(v) \div Parts = b + j /\ StepAt(v) % Parts = i
  <2> DEFINE n == b + j
             z == StepAt(v)
  <2>1. n \in Int /\ z \in Nat /\ z = n * Parts + i /\ Parts \in Nat \ {0} /\ i \in 0 .. Parts - 1
    BY <1>0, <1>1, <1>3, <1>5
  <2> HIDE DEF n, z
  <2>2. z \div Parts = n /\ z % Parts = i
    BY <2>1, QuotientIs
  <2> QED BY <2>2 DEF n, z
<1>7. (b + j) % 4 = j
  <2> DEFINE n == b + j
  <2>1. n \in Nat /\ n = PieceAt(v) * 4 + j /\ PieceAt(v) \in Int /\ 4 \in Nat \ {0} /\ j \in 0 .. 4 - 1
    BY <1>1, <1>4, <1>5
  <2> HIDE DEF n
  <2>2. n % 4 = j
    BY <2>1, QuotientIs
  <2> QED BY <2>2 DEF n
<1>8. TableAt(v) = j /\ ListAt(v) = i
  BY <1>6, <1>7 DEF TableAt, ListAt
<1> QED BY <1>3, <1>4, <1>8

(* How far ahead a place is after a step. *)
LEMMA AheadOn ==
  ASSUME NEW v \in 0 .. Size - 1, NEW z \in 0 .. Size - 1, z # v
  PROVE  Ahead(z, Onward(v)) = Ahead(z, v) - (IF Offset(v) = Segment - 1 THEN 1 ELSE 0)
<1>0. v \in Nat /\ z \in Nat /\ Size \in Nat /\ Segments \in Nat
  BY RingSizes
<1>1. FirstOf(z) \in 0 .. Segments - 1
  BY FirstIs
<1>2. Piece(v) \in 0 .. Segments - 1 /\ Offset(v) \in 0 .. Segment - 1
  BY <1>0, PieceInSize, PieceIs
<1>3. CASE Offset(v) < Segment - 1
  <2>1. Onward(v) = v + 1 /\ Piece(Onward(v)) = Piece(v)
    BY <1>3, OnwardIs
  <2>2. z < v <=> z < v + 1
    BY <1>0
  <2>3. Offset(v) # Segment - 1
    BY <1>2, <1>3, RingSizes
  <2> QED BY <1>0, <1>1, <1>2, <2>1, <2>2, <2>3 DEF Ahead
<1>4. CASE Offset(v) = Segment - 1
  <2>1. CASE Piece(v) = Segments - 1
    <3>1. Onward(v) = 0 /\ Piece(Onward(v)) = 0
      BY <1>4, <2>1, OnwardIs
    <3>2. v + 1 = Size
      BY <1>0, <3>1 DEF Onward
    <3>3. z < v /\ ~(z < 0)
      BY <1>0, <3>2
    <3>4. Ahead(z, v) = FirstOf(z) + Segments - Piece(v) /\ Ahead(z, Onward(v)) = FirstOf(z) - 0
      BY <3>1, <3>3 DEF Ahead
    <3> QED BY <1>0, <1>1, <1>4, <2>1, <3>4
  <2>2. CASE Piece(v) # Segments - 1
    <3>1. Onward(v) = v + 1 /\ Piece(Onward(v)) = Piece(v) + 1
      BY <1>4, <2>2, OnwardIs
    <3>2. z < v <=> z < v + 1
      BY <1>0
    <3> QED BY <1>0, <1>1, <1>2, <1>4, <3>1, <3>2 DEF Ahead
  <2> QED BY <2>1, <2>2
<1> QED BY <1>2, <1>3, <1>4, RingSizes

(* What is not far enough ahead. *)
LEMMA NotBefore ==
  ASSUME NEW v \in 0 .. Size - 1, NEW z \in 0 .. Size - 1, 2 <= Ahead(z, v)
  PROVE  z < v \/ v + MaxBlock <= z
<1>1. ASSUME ~(z < v), ~(v + MaxBlock <= z) PROVE FALSE
  <2>1. FirstOf(z) <= Piece(v)
    BY <1>1, FirstBehind, RingSizes
  <2>2. Ahead(z, v) = FirstOf(z) - Piece(v)
    BY <1>1 DEF Ahead
  <2>3. FirstOf(z) \in Nat /\ Piece(v) \in Nat
    BY FirstIs, PieceInSize, RingSizes
  <2> QED BY <2>1, <2>2, <2>3
<1> QED BY <1>1

LEMMA AheadType ==
  ASSUME NEW v \in 0 .. Size - 1, NEW z \in 0 .. Size - 1
  PROVE  Ahead(z, v) \in Int
<1>1. FirstOf(z) \in Int /\ Piece(v) \in Int /\ Segments \in Int
  BY FirstIs, PieceInSize, RingSizes
<1> QED BY <1>1 DEF Ahead

(* A place expires in the piece that is two ahead. *)
LEMMA ExpiredIs ==
  ASSUME NEW v \in 0 .. Size - 1, NEW z \in 0 .. Size - 1, 2 <= Ahead(z, v)
  PROVE  Expired(z, PieceAt(v)) <=> Ahead(z, v) = 2
<1>0. v \in Nat /\ z \in Nat /\ Size \in Nat /\ Segments \in Nat /\ Segments >= 4
  BY RingSizes
<1> DEFINE f == FirstOf(z)
           p == Piece(v)
           n == PieceAt(v)
           q == Piece(z)
<1>1. /\ f \in 0 .. Segments - 1 /\ f <= q /\ q <= f + 1
      /\ f = IF z < MaxBlock THEN 0 ELSE Piece(z - MaxBlock)
  BY FirstIs
<1>2. p \in 0 .. Segments - 1 /\ q \in 0 .. Segments - 1
  BY PieceInSize
<1>3. n = IF p + 2 < Segments THEN p + 2 ELSE p + 2 - Segments
  BY DEF PieceAt
<1>4. z < v => f <= p /\ q <= p
  <2>1. z < v => z < v + MaxBlock /\ z <= v
    BY <1>0, RingSizes
  <2> QED BY <1>0, <2>1, FirstBehind, PiecesInOrder
<1>5. Ahead(z, v) = IF z < v THEN f + Segments - p ELSE f - p
  BY DEF Ahead
<1>6. Expired(z, n) <=> q = n \/ (~(z < MaxBlock) /\ f = n)
  BY <1>0, <1>1, RingSizes DEF Expired, Piece
<1>7. f = n => Expired(z, n)
  <2>1. CASE z < MaxBlock
    <3>1. f = 0
      BY <1>1, <2>1
    <3>2. q = 0
      <4>1. z \in 0 .. Segment - 1 /\ z = 0 * Segment + z /\ 0 \in Int
        BY <1>0, <2>1, RingSizes
      <4> QED BY <1>0, <4>1, PieceMade
    <3> QED BY <1>6, <3>1, <3>2
  <2> QED BY <1>6, <2>1
<1> HIDE DEF f, p, n, q
<1>8. ASSUME Ahead(z, v) = 2 PROVE f = n
  BY <1>0, <1>1, <1>2, <1>3, <1>5, <1>8
<1>9. ASSUME Expired(z, n) PROVE Ahead(z, v) = 2
  <2>1. CASE f = n
    BY <1>0, <1>1, <1>2, <1>3, <1>4, <1>5, <2>1
  <2>2. CASE f # n
    <3>1. q = n /\ f = n - 1
      BY <1>1, <1>2, <1>6, <1>9, <2>2
    <3> QED BY <1>0, <1>1, <1>2, <1>3, <1>4, <1>5, <3>1
  <2> QED BY <2>1, <2>2
<1>10. Expired(z, n) <=> Ahead(z, v) = 2
  BY <1>7, <1>8, <1>9
<1> QED BY <1>10 DEF n

-----------------------------------------------------------------------------
(* What is kept, after a step.                                              *)

(* The step for v is that for list i of table k. *)
Turn(k, i, v) == k = TableAt(v) /\ i = ListAt(v)

LEMMA TurnIs ==
  ASSUME NEW v \in 0 .. Size - 1, NEW k \in 0 .. 3, NEW i \in 0 .. Parts - 1
  PROVE  k * Parts + i = Offset(v) <=> Turn(k, i, v)
<1>1. /\ TableAt(v) \in 0 .. 3 /\ ListAt(v) \in 0 .. Parts - 1
      /\ TableAt(v) * Parts + ListAt(v) = Offset(v)
  BY ListIs
<1>2. Parts \in Nat \ {0}
  BY RingSizes
<1>3. ASSUME k * Parts + i = Offset(v) PROVE Turn(k, i, v)
  <2> DEFINE n == Offset(v)
             j == TableAt(v)
             l == ListAt(v)
  <2>1. n \in Nat /\ n = k * Parts + i /\ k \in Int /\ i \in 0 .. Parts - 1
    <3>1. k * Parts + i \in Nat
      BY <1>2
    <3> QED BY <1>3, <3>1
  <2>2. n = j * Parts + l /\ j \in Int /\ l \in 0 .. Parts - 1
    BY <1>1
  <2> HIDE DEF n, j, l
  <2>3. n \div Parts = k /\ n % Parts = i
    BY <1>2, <2>1, QuotientIs
  <2>4. n \div Parts = j /\ n % Parts = l
    BY <1>2, <2>1, <2>2, QuotientIs
  <2>5. k = j /\ i = l
    BY <2>3, <2>4
  <2> QED BY <2>5 DEF j, l, Turn
<1> QED BY <1>1, <1>3 DEF Turn

LEMMA PlaceOf ==
  ASSUME NEW k \in 0 .. 3, NEW i \in 0 .. Parts - 1
  PROVE  k * Parts + i \in 0 .. Segment - 1
<1>1. Parts \in Nat \ {0} /\ Segment = 4 * Parts
  BY RingSizes
<1>2. k = 0 \/ k = 1 \/ k = 2 \/ k = 3
  OBVIOUS
<1> QED BY <1>1, <1>2

LEMMA KeptIs ==
  ASSUME NEW v \in 0 .. Size - 1, NEW z \in 0 .. Size - 1, NEW k, NEW i, Kept(k, i, z, v)
  PROVE  2 <= Ahead(z, v) /\ z # v /\ (Done(k, i, v) => 3 <= Ahead(z, v))
<1>1. Ahead(z, v) \in Int
  BY AheadType
<1>2. 2 <= Ahead(z, v) /\ (Done(k, i, v) => 3 <= Ahead(z, v))
  BY <1>1 DEF Kept
<1>3. z < v \/ v + MaxBlock <= z
  BY <1>2, NotBefore
<1> QED BY <1>2, <1>3, RingSizes

(* How far the step takes what is done in the list. *)
LEMMA DoneOn ==
  ASSUME NEW v \in 0 .. Size - 1, NEW k \in 0 .. 3, NEW i \in 0 .. Parts - 1
  PROVE  /\ Offset(v) # Segment - 1 => (Done(k, i, Onward(v)) <=> Done(k, i, v) \/ Turn(k, i, v))
         /\ Offset(v) = Segment - 1 => /\ ~Done(k, i, Onward(v))
                                       /\ Done(k, i, v) \/ Turn(k, i, v)
<1> DEFINE n == k * Parts + i
           o == Offset(v)
<1>1. n \in 0 .. Segment - 1 /\ o \in 0 .. Segment - 1 /\ Segment \in Nat
  BY PlaceOf, PieceIs, RingSizes
<1>2. Done(k, i, v) <=> n < o
  BY DEF Done
<1>3. Turn(k, i, v) <=> n = o
  BY TurnIs
<1>4. Done(k, i, Onward(v)) <=> n < Offset(Onward(v))
  BY DEF Done
<1> HIDE DEF n
<1>5. ASSUME o # Segment - 1 PROVE Done(k, i, Onward(v)) <=> Done(k, i, v) \/ Turn(k, i, v)
  <2>1. Offset(Onward(v)) = o + 1
    BY <1>1, <1>5, OnwardIs
  <2> HIDE DEF o
  <2> QED BY <1>1, <1>2, <1>3, <1>4, <2>1
<1>6. ASSUME o = Segment - 1
      PROVE  ~Done(k, i, Onward(v)) /\ (Done(k, i, v) \/ Turn(k, i, v))
  <2>1. Offset(Onward(v)) = 0
    BY <1>6, OnwardIs
  <2> HIDE DEF o
  <2> QED BY <1>1, <1>2, <1>3, <1>4, <1>6, <2>1
<1> QED BY <1>5, <1>6

LEMMA KeptOn ==
  ASSUME NEW v \in 0 .. Size - 1, NEW z \in 0 .. Size - 1, NEW k \in 0 .. 3, NEW i \in 0 .. Parts - 1,
         Kept(k, i, z, v), ~(Turn(k, i, v) /\ Expired(z, PieceAt(v)))
  PROVE  Kept(k, i, z, Onward(v))
<1>1. 2 <= Ahead(z, v) /\ z # v /\ (Done(k, i, v) => 3 <= Ahead(z, v)) /\ Ahead(z, v) \in Int
  BY KeptIs, AheadType
<1>2. Turn(k, i, v) => 3 <= Ahead(z, v)
  <2>1. Turn(k, i, v) => Ahead(z, v) # 2
    BY <1>1, ExpiredIs
  <2> QED BY <1>1, <2>1
<1>3. Ahead(z, Onward(v)) = Ahead(z, v) - (IF Offset(v) = Segment - 1 THEN 1 ELSE 0)
  BY <1>1, AheadOn
<1>4. CASE Offset(v) = Segment - 1
  <2>1. ~Done(k, i, Onward(v)) /\ (Done(k, i, v) \/ Turn(k, i, v))
    BY <1>4, DoneOn
  <2>2. Ahead(z, Onward(v)) >= 2
    BY <1>1, <1>2, <1>3, <1>4, <2>1
  <2> QED BY <2>1, <2>2 DEF Kept
<1>5. CASE Offset(v) # Segment - 1
  <2>1. Done(k, i, Onward(v)) <=> Done(k, i, v) \/ Turn(k, i, v)
    BY <1>5, DoneOn
  <2>2. Ahead(z, Onward(v)) >= 2 /\ (Done(k, i, v) \/ Turn(k, i, v) => Ahead(z, Onward(v)) >= 3)
    BY <1>1, <1>2, <1>3, <1>5
  <2> QED BY <2>1, <2>2 DEF Kept
<1> QED BY <1>4, <1>5

LEMMA ExpiredNow ==
  ASSUME NEW v \in 0 .. Size - 1, NEW z \in 0 .. Size - 1, NEW k \in 0 .. 3, NEW i \in 0 .. Parts - 1,
         Kept(k, i, z, v), Turn(k, i, v), Expired(z, PieceAt(v))
  PROVE  ~Kept(k, i, z, Onward(v))
<1>1. Ahead(z, v) = 2 /\ z # v
  BY KeptIs, ExpiredIs
<1>2. Ahead(z, Onward(v)) = 2 - (IF Offset(v) = Segment - 1 THEN 1 ELSE 0)
  BY <1>1, AheadOn
<1>3. Offset(v) # Segment - 1 => Done(k, i, Onward(v))
  BY DoneOn
<1> QED BY <1>2, <1>3 DEF Kept

LEMMA DeadOn ==
  ASSUME NEW v \in 0 .. Size - 1, NEW z \in 0 .. Size - 1, NEW k \in 0 .. 3, NEW i \in 0 .. Parts - 1,
         z # v, ~Kept(k, i, z, v)
  PROVE  ~Kept(k, i, z, Onward(v))
<1>1. Ahead(z, v) \in Int /\ Ahead(z, v) < 3 /\ (~Done(k, i, v) => Ahead(z, v) < 2)
  BY AheadType DEF Kept
<1>2. Ahead(z, Onward(v)) = Ahead(z, v) - (IF Offset(v) = Segment - 1 THEN 1 ELSE 0)
  BY AheadOn
<1>3. CASE Offset(v) = Segment - 1
  <2>1. Ahead(z, Onward(v)) < 2 /\ Ahead(z, Onward(v)) \in Int
    BY <1>1, <1>2, <1>3
  <2> QED BY <2>1 DEF Kept
<1>4. CASE Offset(v) # Segment - 1
  <2>1. Done(k, i, v) => Done(k, i, Onward(v))
    BY <1>4, DoneOn
  <2>2. Ahead(z, Onward(v)) = Ahead(z, v)
    BY <1>1, <1>2, <1>4
  <2> QED BY <1>1, <2>1, <2>2 DEF Kept
<1> QED BY <1>3, <1>4

(* Lists that are gone through later keep more. *)
LEMMA KeptLater ==
  ASSUME NEW v \in 0 .. Size - 1, NEW z \in 0 .. Size - 1, NEW y \in 0 .. Size - 1,
         NEW k \in 0 .. 3, NEW i \in 0 .. Parts - 1, NEW m \in 0 .. 3, NEW j \in 0 .. Parts - 1,
         k * Parts + i <= m * Parts + j, Ahead(z, v) <= Ahead(y, v), Kept(k, i, z, v)
  PROVE  Kept(m, j, y, v)
<1>1. Ahead(z, v) \in Int /\ Ahead(y, v) \in Int
  BY AheadType
<1>2. Offset(v) \in Int /\ k * Parts + i \in Int /\ m * Parts + j \in Int
  BY PlaceOf, PieceIs, RingSizes
<1>3. Done(m, j, v) => Done(k, i, v)
  <2> DEFINE a == k * Parts + i
             b == m * Parts + j
  <2>1. a \in Int /\ b \in Int /\ a <= b /\ (Done(k, i, v) <=> a < Offset(v))
        /\ (Done(m, j, v) <=> b < Offset(v))
    BY <1>2 DEF Done
  <2> HIDE DEF a, b
  <2> QED BY <1>2, <2>1
<1> QED BY <1>1, <1>3 DEF Kept

(* What is three pieces ahead is kept everywhere. *)
LEMMA FarIsKept ==
  ASSUME NEW v \in 0 .. Size - 1, NEW z \in 0 .. Size - 1, 3 <= Ahead(z, v), NEW k, NEW i
  PROVE  Kept(k, i, z, v)
BY AheadType DEF Kept

-----------------------------------------------------------------------------
(* Translations in the buffer.                                              *)

LEMMA Places ==
  ASSUME NEW t \in Placed
  PROVE  /\ t.a \in Addrs /\ t.at \in Nat /\ t.at + MaxBlock <= Size
         /\ Length[t.a] \in 1 .. MaxBlock /\ ListOf[t.a] \in 0 .. Parts - 1
         /\ Stub(t) = t.at + Length[t.a] - 1
         /\ t.at \in 0 .. Size - 1 /\ Stub(t) \in 0 .. Size - 1 /\ CleanEntry(t) \in 0 .. Size - 1
         /\ t.at <= Stub(t) /\ Stub(t) < t.at + MaxBlock
         /\ t.at <= CleanEntry(t) /\ CleanEntry(t) <= Stub(t)
<1>1. t.a \in Addrs /\ t.at \in 0 .. Size - 1 /\ t.at + MaxBlock <= Size
  BY DEF Placed, Code
<1>2. Length[t.a] \in 1 .. MaxBlock /\ ListOf[t.a] \in 0 .. Parts - 1
  BY <1>1, RingAssumption
<1>3. Stub(t) = t.at + Length[t.a] - 1 /\ (CleanEntry(t) = Stub(t) \/ CleanEntry(t) = t.at)
  BY DEF Stub, CleanEntry
<1> HIDE DEF Placed
<1>4. MaxBlock \in Nat /\ Size \in Nat
  BY RingSizes
<1>5. t.at <= Stub(t) /\ Stub(t) < t.at + MaxBlock /\ Stub(t) \in 0 .. Size - 1
  BY <1>1, <1>2, <1>3, <1>4
<1> QED BY <1>1, <1>2, <1>3, <1>4, <1>5

LEMMA WholeOn ==
  ASSUME NEW v \in 0 .. Size - 1, NEW t \in Placed, Whole(t, v),
         NEW z \in {CleanEntry(t), Stub(t)}, 2 <= Ahead(z, v)
  PROVE  Whole(t, Onward(v))
<1>1. /\ t.at \in Nat /\ z \in 0 .. Size - 1 /\ t.at <= Stub(t) /\ Stub(t) < t.at + MaxBlock
      /\ t.at <= z /\ z <= Stub(t) /\ Stub(t) \in Nat
  BY Places, RingSizes
<1>2. z < v \/ v + MaxBlock <= z
  BY <1>1, NotBefore
<1>3. ~(t.at < v /\ v <= Stub(t))
  BY DEF Whole
<1>4. ~(t.at < v + 1 /\ v + 1 <= Stub(t))
  BY <1>1, <1>2, <1>3, RingSizes
<1> QED BY <1>1, <1>4 DEF Whole, Onward

(* The end of a translation does not expire before its beginning. *)
LEMMA StubLater ==
  ASSUME NEW v \in 0 .. Size - 1, NEW t \in Placed, Whole(t, v)
  PROVE  Ahead(CleanEntry(t), v) <= Ahead(Stub(t), v)
<1> DEFINE z == CleanEntry(t)
           y == Stub(t)
<1>1. z \in 0 .. Size - 1 /\ y \in 0 .. Size - 1 /\ z <= y /\ t.at \in Nat /\ t.at <= z /\ (z = y \/ z = t.at)
  BY Places DEF CleanEntry
<1>2. z < v <=> y < v
  BY <1>1 DEF Whole
<1> HIDE DEF z, y
<1>3. FirstOf(z) <= FirstOf(y)
  BY <1>1, FirstInOrder
<1>4. FirstOf(z) \in Nat /\ FirstOf(y) \in Nat /\ Piece(v) \in Nat /\ Segments \in Nat
  BY <1>1, FirstIs, PieceInSize, RingSizes
<1>5. Ahead(z, v) <= Ahead(y, v)
  BY <1>2, <1>3, <1>4 DEF Ahead
<1> QED BY <1>5 DEF z, y

(* What lookups and patched jumps lead to may run. *)
LEMMA Runs ==
  ASSUME NEW v \in 0 .. Size - 1, NEW t \in Placed, Whole(t, v), NEW k \in 0 .. 1,
         NEW z \in {CleanEntry(t), Stub(t)}, Kept(k, ListOf[t.a], z, v)
  PROVE  MayRun(t, v)
<1> DEFINE i == ListOf[t.a]
           j == Parts - 1
           y == Stub(t)
<1>1. i \in 0 .. Parts - 1 /\ j \in 0 .. Parts - 1 /\ z \in 0 .. Size - 1 /\ y \in 0 .. Size - 1
  BY Places, RingSizes
<1>2. Ahead(z, v) <= Ahead(y, v)
  <2>1. CASE z = Stub(t)
    <3>1. Ahead(z, v) \in Int
      BY <1>1, AheadType
    <3> QED BY <2>1, <3>1
  <2>2. CASE z = CleanEntry(t)
    BY <2>2, StubLater
  <2> QED BY <2>1, <2>2
<1>3. k * Parts + i <= 1 * Parts + j
  <2>1. k = 0 \/ k = 1
    OBVIOUS
  <2> HIDE DEF i
  <2> QED BY <1>1, <2>1, RingSizes
<1>4. Kept(k, i, z, v)
  OBVIOUS
<1>5. k \in 0 .. 3 /\ 1 \in 0 .. 3
  OBVIOUS
<1> HIDE DEF i, j, y
<1>6. Kept(1, j, y, v)
  BY <1>1, <1>2, <1>3, <1>4, <1>5, KeptLater
<1> QED BY <1>6 DEF MayRun, j, y

LEMMA RunsNotDead ==
  ASSUME NEW v \in 0 .. Size - 1, NEW t \in Placed, MayRun(t, v), NEW i \in 0 .. Parts - 1
  PROVE  Kept(3, i, Stub(t), v)
<1> DEFINE j == Parts - 1
           y == Stub(t)
<1>1. j \in 0 .. Parts - 1 /\ y \in 0 .. Size - 1 /\ 1 \in 0 .. 3 /\ 3 \in 0 .. 3
  BY Places, RingSizes
<1>2. 1 * Parts + j <= 3 * Parts + i
  BY RingSizes
<1>3. Ahead(y, v) \in Int
  BY <1>1, AheadType
<1>4. Ahead(y, v) <= Ahead(y, v)
  BY <1>3
<1>5. Kept(1, j, y, v)
  BY DEF MayRun
<1> HIDE DEF j, y
<1>6. Kept(3, i, y, v)
  BY <1>1, <1>2, <1>4, <1>5, KeptLater
<1> QED BY <1>6 DEF y

(* Code that expires late enough is clear of the room for the next. *)
LEMMA ClearOfRoom ==
  ASSUME NEW v \in 0 .. Size - 1, NEW t \in Placed, 2 <= Ahead(Stub(t), v)
  PROVE  ~LiesIn(t, v, MaxBlock)
<1> DEFINE y == Stub(t)
<1>1. /\ y \in 0 .. Size - 1 /\ t.at \in Nat /\ y < t.at + MaxBlock /\ y \in Nat
      /\ v \in Nat /\ MaxBlock \in Nat /\ Segment \in Nat /\ MaxBlock <= Segment
      /\ y = Stub(t)
  BY Places, RingSizes
<1> HIDE DEF y
<1>2. CASE y < v
  BY <1>1, <1>2 DEF LiesIn
<1>3. CASE ~(y < v)
  <2>1. FirstOf(y) >= Piece(v) + 2
    <3>1. FirstOf(y) \in Nat /\ Piece(v) \in Nat
      BY <1>1, FirstIs, PieceInSize
    <3> QED BY <1>1, <1>3, <3>1 DEF Ahead
  <2>2. FirstOf(y) = IF y < MaxBlock THEN 0 ELSE Piece(y - MaxBlock)
    BY <1>1, FirstIs
  <2>3. Piece(v) \in Nat
    BY PieceInSize
  <2>4. ~(y < MaxBlock)
    BY <2>1, <2>2, <2>3
  <2> DEFINE x == y - MaxBlock
  <2>5. x \in Nat /\ FirstOf(y) = Piece(x)
    BY <1>1, <2>2, <2>4
  <2> HIDE DEF x
  <2>6. x <= v + Segment => Piece(x) <= Piece(v) + 1
    BY <1>1, <2>5, PiecesInOrder
  <2>7. Piece(x) \in Nat
    BY <2>5, PieceIs
  <2>8. x > v + Segment
    BY <1>1, <2>1, <2>3, <2>5, <2>6, <2>7
  <2>9. t.at >= v + MaxBlock
    BY <1>1, <2>8 DEF x
  <2> QED BY <1>1, <2>9 DEF LiesIn
<1> QED BY <1>2, <1>3

-----------------------------------------------------------------------------
(* One step of the expiry, over the tables.                                 *)

LEMMA TableTypes ==
  ASSUME NEW s \in Tables
  PROVE  /\ s.jump_in \subseteq Placed /\ s.jump_dirty \subseteq Placed
         /\ \A p \in s.hash : p.to \in Placed /\ p.clean \in BOOLEAN /\ p = HashEntry(p.to, p.clean)
         /\ \A r \in s.jump_out : r.stub \in Placed /\ r.a \in Addrs /\ r = [stub |-> r.stub, a |-> r.a]
         /\ \A l \in s.links : l.from \in Placed /\ l.to \in Placed /\ l = [from |-> l.from, to |-> l.to]
BY DEF Tables, HashEntry

LEMMA FewerEntries ==
  ASSUME NEW s \in Tables, NEW i \in SUBSET s.jump_in, NEW d \in SUBSET s.jump_dirty,
         NEW h \in SUBSET s.hash, NEW o \in SUBSET s.jump_out, NEW l \in SUBSET s.links,
         NEW u, u = [jump_in |-> i, jump_dirty |-> d, hash |-> h, jump_out |-> o, links |-> l]
  PROVE  u \in Tables
<1>1. /\ i \in SUBSET Placed /\ d \in SUBSET Placed /\ h \in SUBSET [to : Placed, clean : BOOLEAN]
      /\ o \in SUBSET [stub : Placed, a : Addrs] /\ l \in SUBSET [from : Placed, to : Placed]
  BY DEF Tables
<1> QED BY <1>1 DEF Tables

LEMMA FieldsAre ==
  ASSUME NEW s \in Tables
  PROVE  s = [jump_in |-> s.jump_in, jump_dirty |-> s.jump_dirty, hash |-> s.hash,
              jump_out |-> s.jump_out, links |-> s.links]
BY DEF Tables

(* What one step leaves: it removes what it goes through, and no more of    *)
(* what holds another thing up.                                             *)
LeftBy(v, s, u) ==
  /\ u \in Tables
  /\ u.jump_in \subseteq s.jump_in /\ u.jump_dirty \subseteq s.jump_dirty
  /\ u.jump_out \subseteq s.jump_out /\ u.links \subseteq s.links
  /\ \A t \in s.jump_in :
       t \in u.jump_in <=> ~(Turn(0, ListOf[t.a], v) /\ Expired(CleanEntry(t), PieceAt(v)))
  /\ \A t \in u.jump_dirty : ~(Turn(0, ListOf[t.a], v) /\ Expired(Stub(t), PieceAt(v)))
  /\ \A r \in s.jump_out :
       r \in u.jump_out <=> ~(Turn(3, ListOf[r.a], v) /\ Expired(Stub(r.stub), PieceAt(v)))
  /\ \A l \in u.links :
       Recorded(s, l) => ~(Turn(1, ListOf[l.to.a], v) /\ Expired(CleanEntry(l.to), PieceAt(v)))
  /\ HashKept(s) => HashKept(u)

LEMMA StepChooses ==
  ASSUME NEW s, NEW v \in 0 .. Size - 1
  PROVE  /\ TableAt(v) = 0 => ExpireStep(s, StepAt(v)) = Unlisted(s, ListAt(v), PieceAt(v))
         /\ TableAt(v) = 1 => ExpireStep(s, StepAt(v)) = Unpatched(s, ListAt(v), PieceAt(v))
         /\ TableAt(v) = 2 => ExpireStep(s, StepAt(v)) = Unhashed(s, ListAt(v), PieceAt(v))
         /\ TableAt(v) = 3 => ExpireStep(s, StepAt(v)) = Unrecorded(s, ListAt(v), PieceAt(v))
<1> DEFINE step == StepAt(v)
           piece == step \div Segment
           phase == (step \div Parts) % 4
           i == step % Parts
<1>1. phase = TableAt(v) /\ i = ListAt(v)
  BY DEF TableAt, ListAt
<1>2. piece = PieceAt(v)
  BY StepIs DEF Piece
<1>3. ExpireStep(s, step) =
        CASE phase = 0 -> Unlisted(s, i, piece)
          [] phase = 1 -> Unpatched(s, i, piece)
          [] phase = 2 -> Unhashed(s, i, piece)
          [] phase = 3 -> Unrecorded(s, i, piece)
  BY DEF ExpireStep
<1> HIDE DEF step, piece, phase, i
<1>4. /\ phase = 0 => ExpireStep(s, step) = Unlisted(s, i, piece)
      /\ phase = 1 => ExpireStep(s, step) = Unpatched(s, i, piece)
      /\ phase = 2 => ExpireStep(s, step) = Unhashed(s, i, piece)
      /\ phase = 3 => ExpireStep(s, step) = Unrecorded(s, i, piece)
  BY <1>3
<1> QED BY <1>1, <1>2, <1>4 DEF step

LEMMA UnlistedLeaves ==
  ASSUME NEW s \in Tables, NEW v, TableAt(v) = 0
  PROVE  LeftBy(v, s, Unlisted(s, ListAt(v), PieceAt(v)))
<1> DEFINE i == ListAt(v)
           piece == PieceAt(v)
           clean == {t \in s.jump_in : ListOf[t.a] = i /\ Expired(CleanEntry(t), piece)}
           dirty == {t \in s.jump_dirty : ListOf[t.a] = i /\ Expired(Stub(t), piece)}
           gone == {t.a : t \in clean \cup dirty}
           u == Unlisted(s, i, piece)
<1>0. u = [s EXCEPT !.jump_in = s.jump_in \ clean, !.jump_dirty = s.jump_dirty \ dirty,
                    !.hash = {p \in s.hash : p.to.a \notin gone}]
  BY DEF Unlisted, remove_hash
<1>1. /\ u.jump_in = s.jump_in \ clean /\ u.jump_dirty = s.jump_dirty \ dirty
      /\ u.hash = {p \in s.hash : p.to.a \notin gone} /\ u.jump_out = s.jump_out /\ u.links = s.links
      /\ u = [jump_in |-> u.jump_in, jump_dirty |-> u.jump_dirty, hash |-> u.hash,
              jump_out |-> u.jump_out, links |-> u.links]
  <2>1. s = [jump_in |-> s.jump_in, jump_dirty |-> s.jump_dirty, hash |-> s.hash,
              jump_out |-> s.jump_out, links |-> s.links]
    BY FieldsAre
  <2> HIDE DEF u, clean, dirty, gone
  <2> QED BY <1>0, <2>1
<1> HIDE DEF u
<1>2. u \in Tables
  BY <1>1, FewerEntries
<1>3. HashKept(s) => HashKept(u)
  <2>1. ASSUME HashKept(s), NEW p \in u.hash
        PROVE  IF p.clean THEN p.to \in u.jump_in ELSE p.to \in u.jump_dirty
    <3>1. p \in s.hash /\ p.to.a \notin gone
      BY <1>1
    <3>2. p.to \notin clean /\ p.to \notin dirty
      BY <3>1
    <3>3. IF p.clean THEN p.to \in s.jump_in ELSE p.to \in s.jump_dirty
      BY <2>1, <3>1 DEF HashKept
    <3> HIDE DEF clean, dirty, gone
    <3> QED BY <1>1, <3>2, <3>3
  <2> QED BY <2>1 DEF HashKept
<1>4. \A k, n : Turn(k, n, v) <=> k = 0 /\ n = i
  BY DEF Turn
<1> QED BY <1>1, <1>2, <1>3, <1>4 DEF LeftBy, u

LEMMA UnpatchedLeaves ==
  ASSUME NEW s \in Tables, NEW v, TableAt(v) = 1
  PROVE  LeftBy(v, s, Unpatched(s, ListAt(v), PieceAt(v)))
<1> DEFINE i == ListAt(v)
           piece == PieceAt(v)
           u == Unpatched(s, i, piece)
<1>0. u = [s EXCEPT !.links =
             {l \in @ : ~(ListOf[l.to.a] = i /\ Recorded(s, l) /\ Expired(CleanEntry(l.to), piece))}]
  BY DEF Unpatched
<1>1. /\ u.jump_in = s.jump_in /\ u.jump_dirty = s.jump_dirty
      /\ u.hash = s.hash /\ u.jump_out = s.jump_out
      /\ u.links = {l \in s.links : ~(ListOf[l.to.a] = i /\ Recorded(s, l) /\ Expired(CleanEntry(l.to), piece))}
      /\ u = [jump_in |-> u.jump_in, jump_dirty |-> u.jump_dirty, hash |-> u.hash,
              jump_out |-> u.jump_out, links |-> u.links]
  <2>1. s = [jump_in |-> s.jump_in, jump_dirty |-> s.jump_dirty, hash |-> s.hash,
              jump_out |-> s.jump_out, links |-> s.links]
    BY FieldsAre
  <2> HIDE DEF u
  <2> QED BY <1>0, <2>1
<1> HIDE DEF u
<1>2. u \in Tables
  BY <1>1, FewerEntries
<1>3. HashKept(s) => HashKept(u)
  BY <1>1 DEF HashKept
<1>4. \A k, n : Turn(k, n, v) <=> k = 1 /\ n = i
  BY DEF Turn
<1> QED BY <1>1, <1>2, <1>3, <1>4 DEF LeftBy, u

LEMMA UnhashedLeaves ==
  ASSUME NEW s \in Tables, NEW v, TableAt(v) = 2
  PROVE  LeftBy(v, s, Unhashed(s, ListAt(v), PieceAt(v)))
<1> DEFINE i == ListAt(v)
           piece == PieceAt(v)
           u == Unhashed(s, i, piece)
<1>1. /\ u.jump_in = s.jump_in /\ u.jump_dirty = s.jump_dirty
      /\ u.hash \subseteq s.hash /\ u.jump_out = s.jump_out /\ u.links = s.links
      /\ u = [jump_in |-> u.jump_in, jump_dirty |-> u.jump_dirty, hash |-> u.hash,
              jump_out |-> u.jump_out, links |-> u.links]
  <2>1. s = [jump_in |-> s.jump_in, jump_dirty |-> s.jump_dirty, hash |-> s.hash,
              jump_out |-> s.jump_out, links |-> s.links]
    BY FieldsAre
  <2> QED BY <2>1 DEF Unhashed
<1> HIDE DEF u
<1>2. u \in Tables
  BY <1>1, FewerEntries
<1>3. HashKept(s) => HashKept(u)
  BY <1>1 DEF HashKept
<1>4. \A k, n : Turn(k, n, v) <=> k = 2 /\ n = i
  BY DEF Turn
<1> QED BY <1>1, <1>2, <1>3, <1>4 DEF LeftBy, u

LEMMA UnrecordedLeaves ==
  ASSUME NEW s \in Tables, NEW v, TableAt(v) = 3
  PROVE  LeftBy(v, s, Unrecorded(s, ListAt(v), PieceAt(v)))
<1> DEFINE i == ListAt(v)
           piece == PieceAt(v)
           gone == {r \in s.jump_out : ListOf[r.a] = i /\ Expired(Stub(r.stub), piece)}
           h == remove_hash(s, {r.a : r \in gone})
           u == Unrecorded(s, i, piece)
<1>0. u = [s EXCEPT !.jump_out = s.jump_out \ gone, !.hash = h] /\ h \in SUBSET s.hash
  <2>1. u = [s EXCEPT !.jump_out = s.jump_out \ gone, !.hash = h]
    BY DEF Unrecorded
  <2>2. h \in SUBSET s.hash
    BY DEF remove_hash
  <2> QED BY <2>1, <2>2
<1>1. /\ u.jump_in = s.jump_in /\ u.jump_dirty = s.jump_dirty
      /\ u.hash \subseteq s.hash /\ u.jump_out = s.jump_out \ gone /\ u.links = s.links
      /\ u = [jump_in |-> u.jump_in, jump_dirty |-> u.jump_dirty, hash |-> u.hash,
              jump_out |-> u.jump_out, links |-> u.links]
  <2>1. s = [jump_in |-> s.jump_in, jump_dirty |-> s.jump_dirty, hash |-> s.hash,
              jump_out |-> s.jump_out, links |-> s.links]
    BY FieldsAre
  <2> HIDE DEF u, gone, h
  <2> QED BY <1>0, <2>1
<1> HIDE DEF u
<1>2. u \in Tables
  BY <1>1, FewerEntries
<1>3. HashKept(s) => HashKept(u)
  BY <1>1 DEF HashKept
<1>4. \A k, n : Turn(k, n, v) <=> k = 3 /\ n = i
  BY DEF Turn
<1> QED BY <1>1, <1>2, <1>3, <1>4 DEF LeftBy, u

LEMMA StepLeaves ==
  ASSUME NEW s \in Tables, NEW v \in 0 .. Size - 1
  PROVE  LeftBy(v, s, ExpireStep(s, StepAt(v)))
<1>1. TableAt(v) = 0 \/ TableAt(v) = 1 \/ TableAt(v) = 2 \/ TableAt(v) = 3
  BY ListIs
<1> QED BY <1>1, StepChooses, UnlistedLeaves, UnpatchedLeaves, UnhashedLeaves, UnrecordedLeaves

(* The translations just being made do not expire meanwhile. *)
NotExpired(v, new) ==
  \A t \in new : ~Expired(Stub(t), PieceAt(v)) /\ ~Expired(CleanEntry(t), PieceAt(v))

(* Nor is what lies at v patched: it has been written over. *)
NotPatched(v, s, new) == \A l \in s.links : l.from \in new \/ Stub(l.from) # v

LEMMA StepKeeps ==
  ASSUME NEW s \in Tables, NEW v \in 0 .. Size - 1, NEW new, NEW u, LeftBy(v, s, u),
         AllKept(s, v, new), NotExpired(v, new), NotPatched(v, s, new)
  PROVE  AllKept(u, Onward(v), new)
<1>0. 0 \in 0 .. 3 /\ 1 \in 0 .. 3 /\ 3 \in 0 .. 3
  OBVIOUS
<1>1. InKept(u, Onward(v), new)
  <2>1. ASSUME NEW t \in u.jump_in, t \notin new
        PROVE  Whole(t, Onward(v)) /\ Kept(0, ListOf[t.a], CleanEntry(t), Onward(v))
    <3>1. /\ t \in Placed /\ Whole(t, v) /\ Kept(0, ListOf[t.a], CleanEntry(t), v)
          /\ ~(Turn(0, ListOf[t.a], v) /\ Expired(CleanEntry(t), PieceAt(v)))
      BY <2>1, TableTypes DEF LeftBy, AllKept, InKept
    <3>2. ListOf[t.a] \in 0 .. Parts - 1 /\ CleanEntry(t) \in 0 .. Size - 1
      BY <3>1, Places
    <3>3. Kept(0, ListOf[t.a], CleanEntry(t), Onward(v))
      BY <1>0, <3>1, <3>2, KeptOn
    <3>4. 2 <= Ahead(CleanEntry(t), v)
      BY <3>1, <3>2, KeptIs
    <3>5. Whole(t, Onward(v))
      BY <3>1, <3>4, WholeOn
    <3> QED BY <3>3, <3>5
  <2> QED BY <2>1 DEF InKept
<1>2. DirtyKept(u, Onward(v), new)
  <2>1. ASSUME NEW t \in u.jump_dirty, t \notin new
        PROVE  Whole(t, Onward(v)) /\ Kept(0, ListOf[t.a], Stub(t), Onward(v))
    <3>1. /\ t \in Placed /\ Whole(t, v) /\ Kept(0, ListOf[t.a], Stub(t), v)
          /\ ~(Turn(0, ListOf[t.a], v) /\ Expired(Stub(t), PieceAt(v)))
      BY <2>1, TableTypes DEF LeftBy, AllKept, DirtyKept
    <3>2. ListOf[t.a] \in 0 .. Parts - 1 /\ Stub(t) \in 0 .. Size - 1
      BY <3>1, Places
    <3>3. Kept(0, ListOf[t.a], Stub(t), Onward(v))
      BY <1>0, <3>1, <3>2, KeptOn
    <3>4. 2 <= Ahead(Stub(t), v)
      BY <3>1, <3>2, KeptIs
    <3>5. Whole(t, Onward(v))
      BY <3>1, <3>4, WholeOn
    <3> QED BY <3>3, <3>5
  <2> QED BY <2>1 DEF DirtyKept
<1>3. HashKept(u)
  BY DEF LeftBy, AllKept
<1>4. RecordsKept(u, Onward(v), new)
  <2>1. ASSUME NEW r \in u.jump_out, r.stub \notin new
        PROVE  Kept(3, ListOf[r.a], Stub(r.stub), Onward(v))
    <3>1. /\ r \in s.jump_out /\ Kept(3, ListOf[r.a], Stub(r.stub), v)
          /\ ~(Turn(3, ListOf[r.a], v) /\ Expired(Stub(r.stub), PieceAt(v)))
      BY <2>1 DEF LeftBy, AllKept, RecordsKept
    <3>2. ListOf[r.a] \in 0 .. Parts - 1 /\ Stub(r.stub) \in 0 .. Size - 1
      <4>1. r.stub \in Placed /\ r.a \in Addrs
        BY <3>1, TableTypes
      <4> QED BY <4>1, Places, RingAssumption
    <3> QED BY <1>0, <3>1, <3>2, KeptOn
  <2> QED BY <2>1 DEF RecordsKept
<1>5. LinksKept(u, Onward(v), new)
  <2>1. ASSUME NEW l \in u.links
        PROVE  LinkKept(u, Onward(v), new, l) \/ LinkDead(Onward(v), new, l)
    <3> DEFINE i == ListOf[l.to.a]
    <3>1. l \in s.links /\ (LinkKept(s, v, new, l) \/ LinkDead(v, new, l))
      BY DEF LeftBy, AllKept, LinksKept
    <3>2. l.from \in Placed /\ l.to \in Placed
      BY <3>1, TableTypes
    <3>3. i \in 0 .. Parts - 1 /\ Stub(l.from) \in 0 .. Size - 1 /\ CleanEntry(l.to) \in 0 .. Size - 1
      BY <3>2, Places
    <3>4. CASE LinkDead(v, new, l)
      <4>1. l.from \notin new /\ ~Kept(3, i, Stub(l.from), v)
        BY <3>4 DEF LinkDead
      <4>2. Stub(l.from) # v
        BY <3>1, <4>1 DEF NotPatched
      <4>3. ~Kept(3, i, Stub(l.from), Onward(v))
        BY <1>0, <3>3, <4>1, <4>2, DeadOn
      <4> QED BY <4>1, <4>3 DEF LinkDead
    <3>5. CASE LinkKept(s, v, new, l)
      <4> DEFINE r == [stub |-> l.from, a |-> l.to.a]
      <4>1. r \in s.jump_out /\ r.stub = l.from /\ r.a = l.to.a
        BY <3>5 DEF LinkKept, Recorded
      <4>2. ~(Turn(1, i, v) /\ Expired(CleanEntry(l.to), PieceAt(v)))
        BY <3>5 DEF LinkKept, LeftBy
      <4>3. l.to \in new \/ (Whole(l.to, Onward(v)) /\ Kept(1, i, CleanEntry(l.to), Onward(v)))
        <5>1. ASSUME l.to \notin new
              PROVE  Whole(l.to, Onward(v)) /\ Kept(1, i, CleanEntry(l.to), Onward(v))
          <6>1. Whole(l.to, v) /\ Kept(1, i, CleanEntry(l.to), v)
            BY <3>5, <5>1 DEF LinkKept
          <6>2. Kept(1, i, CleanEntry(l.to), Onward(v))
            BY <1>0, <3>3, <4>2, <6>1, KeptOn
          <6>3. 2 <= Ahead(CleanEntry(l.to), v)
            BY <3>3, <6>1, KeptIs
          <6>4. Whole(l.to, Onward(v))
            BY <3>2, <6>1, <6>3, WholeOn
          <6> QED BY <6>2, <6>4
        <5> QED BY <5>1
      <4>4. CASE r \in u.jump_out
        BY <4>3, <4>4 DEF LinkKept, Recorded
      <4>5. CASE r \notin u.jump_out
        <5>1. Turn(3, i, v) /\ Expired(Stub(l.from), PieceAt(v))
          BY <4>1, <4>5 DEF LeftBy
        <5>2. l.from \notin new
          BY <5>1 DEF NotExpired
        <5>3. Kept(3, i, Stub(l.from), v)
          BY <4>1, <5>2 DEF AllKept, RecordsKept
        <5>4. ~Kept(3, i, Stub(l.from), Onward(v))
          BY <1>0, <3>3, <5>1, <5>3, ExpiredNow
        <5> QED BY <5>2, <5>4 DEF LinkDead
      <4> QED BY <4>4, <4>5
    <3> QED BY <3>1, <3>4, <3>5
  <2> QED BY <2>1 DEF LinksKept
<1> QED BY <1>1, <1>2, <1>3, <1>4, <1>5 DEF AllKept

-----------------------------------------------------------------------------
(* A step taken n times.                                                    *)

LEMMA Smallest ==
  ASSUME NEW S \in SUBSET Nat, S # {}
  PROVE  \E n \in S : \A k \in S : n <= k
<1> DEFINE R == {ss \in Nat \X Nat : ss[1] < ss[2]}
<1>1. IsWellFoundedOn(R, Nat)
  BY NatLessThanWellFounded DEF OpToRel
<1>2. PICK n \in S : \A k \in S : <<k, n>> \notin R
  <2> HIDE DEF R
  <2> QED BY <1>1, WFMin
<1>3. ASSUME NEW k \in S, ~(n <= k) PROVE FALSE
  <2>1. k \in Nat /\ n \in Nat /\ k < n
    BY <1>3
  <2>2. <<k, n>> \in R
    BY <2>1
  <2> QED BY <1>2, <2>2
<1> QED BY <1>3

(* f is the first n steps of F from s. *)
Steps(n, S, F, s, f) ==
  f \in [0 .. n -> S] /\ f[0] = s /\ \A k \in 0 .. n - 1 : f[k + 1] = F[f[k]]

LEMMA StepOn ==
  ASSUME NEW S, NEW F \in [S -> S], NEW s \in S, NEW n \in Nat, NEW f, Steps(n, S, F, s, f)
  PROVE  \E g : Steps(n + 1, S, F, s, g)
<1> DEFINE g == [k \in 0 .. n + 1 |-> IF k <= n THEN f[k] ELSE F[f[n]]]
<1>1. f \in [0 .. n -> S] /\ f[0] = s /\ \A k \in 0 .. n - 1 : f[k + 1] = F[f[k]]
  BY DEF Steps
<1>2. f[n] \in S /\ F[f[n]] \in S
  BY <1>1
<1>3. g \in [0 .. n + 1 -> S]
  BY <1>1, <1>2
<1>4. g[0] = s
  BY <1>1
<1>5. ASSUME NEW k \in 0 .. n PROVE g[k + 1] = F[g[k]]
  <2>1. g[k] = f[k]
    OBVIOUS
  <2>2. CASE k = n
    BY <2>1, <2>2
  <2>3. CASE k # n
    <3>1. k \in 0 .. n - 1 /\ k + 1 \in 0 .. n
      BY <2>3
    <3>2. g[k + 1] = f[k + 1]
      BY <3>1
    <3> QED BY <1>1, <2>1, <3>1, <3>2
  <2> QED BY <2>2, <2>3
<1> HIDE DEF g
<1>6. Steps(n + 1, S, F, s, g)
  BY <1>3, <1>4, <1>5 DEF Steps
<1> QED BY <1>6

LEMMA Iterated ==
  ASSUME NEW S, NEW F \in [S -> S], NEW s \in S, NEW n \in Nat
  PROVE  \E f : Steps(n, S, F, s, f)
<1> DEFINE Without == {m \in Nat : ~ \E f : Steps(m, S, F, s, f)}
<1>1. ASSUME Without # {} PROVE FALSE
  <2>1. PICK m \in Without : \A k \in Without : m <= k
    BY <1>1, Smallest
  <2>2. CASE m = 0
    <3>1. Steps(0, S, F, s, [k \in 0 .. 0 |-> s])
      BY DEF Steps
    <3> QED BY <2>1, <2>2, <3>1
  <2>3. CASE m # 0
    <3>1. m - 1 \in Nat /\ m - 1 \notin Without
      BY <2>1, <2>3
    <3>2. PICK f : Steps(m - 1, S, F, s, f)
      BY <3>1
    <3>3. \E g : Steps((m - 1) + 1, S, F, s, g)
      BY <3>1, <3>2, StepOn
    <3>4. (m - 1) + 1 = m
      BY <3>1
    <3> QED BY <2>1, <3>3, <3>4
  <2> QED BY <2>2, <2>3
<1> QED BY <1>1


-----------------------------------------------------------------------------
(* The steps that a new translation takes the expiry on.                    *)

LEMMA ModIs ==
  ASSUME NEW d \in Nat \ {0}, NEW n \in Int, NEW q \in Int, NEW r \in 0 .. d - 1, n = q * d + r
  PROVE  n % d = r
<1> DEFINE p == n \div d
           s == n % d
<1>1. p \in Int /\ s \in 0 .. d - 1 /\ n = d * p + s
  OBVIOUS
<1> HIDE DEF p, s
<1>2. p * d \in Int /\ q * d \in Int /\ d * p = p * d
  BY <1>1
<1>3. ~(p < q)
  <2>1. ASSUME p < q PROVE FALSE
    <3>1. p * d + d <= q * d
      BY <1>1, <2>1, PiecesApart
    <3> QED BY <1>1, <1>2, <3>1
  <2> QED BY <2>1
<1>4. ~(q < p)
  <2>1. ASSUME q < p PROVE FALSE
    <3>1. q * d + d <= p * d
      BY <1>1, <2>1, PiecesApart
    <3> QED BY <1>1, <1>2, <3>1
  <2> QED BY <2>1
<1>5. p = q
  BY <1>1, <1>3, <1>4
<1>6. s = r
  BY <1>1, <1>2, <1>5
<1> QED BY <1>6 DEF s

LEMMA OnwardStep ==
  ASSUME NEW v \in 0 .. Size - 1
  PROVE  (StepAt(v) + 1) % Size = StepAt(Onward(v))
<1>0. Size \in Nat \ {0} /\ Lead \in Nat /\ 1 <= Lead /\ Lead < Size /\ v \in Nat
  BY RingSizes
<1>1. StepAt(v) \in 0 .. Size - 1 /\ StepAt(v) = IF v + Lead < Size THEN v + Lead ELSE v + Lead - Size
  BY StepIs
<1> DEFINE w == Onward(v)
           e == StepAt(v)
           n == e + 1
<1>2. w \in 0 .. Size - 1 /\ w = IF v + 1 = Size THEN 0 ELSE v + 1
  BY OnwardIs DEF Onward
<1>3. StepAt(w) = IF w + Lead < Size THEN w + Lead ELSE w + Lead - Size
  <2> HIDE DEF w
  <2> QED BY <1>2, StepIs
<1>4. n \in 1 .. Size /\ (n < Size => n % Size = n) /\ (n = Size => n % Size = 0)
  <2>1. n \in Nat /\ n \in 1 .. Size
    BY <1>0, <1>1
  <2> HIDE DEF n
  <2>2. (n < Size => n % Size = n) /\ (Size <= n /\ n < Size + Size => n % Size = n - Size)
    BY <1>0, <2>1, ModOnce
  <2> QED BY <1>0, <2>1, <2>2
<1>5. n = e + 1
  OBVIOUS
<1>6. n % Size = StepAt(w)
  <2> HIDE DEF w, e, n
  <2>1. e = IF v + Lead < Size THEN v + Lead ELSE (v + Lead) - Size
    BY <1>0, <1>1 DEF e
  <2>2. StepAt(w) = IF w + Lead < Size THEN w + Lead ELSE (w + Lead) - Size
    BY <1>0, <1>2, <1>3
  <2>3. StepAt(w) = IF n = Size THEN 0 ELSE n
    BY <1>0, <1>2, <1>5, <2>1, <2>2
  <2> QED BY <1>0, <1>4, <2>3
<1> QED BY <1>6

(* The places passed, and how many. *)
Passed(k) == IF out + k = Size THEN 0 ELSE out + k
Rounds(len) == IF out + len > Size - MaxBlock THEN Size - out ELSE len

AtRest == out \in 0 .. Size - MaxBlock /\ expirep = StepAt(out)

LEMMA OutIs == ASSUME AtRest PROVE out \in 0 .. Size - 1 /\ out \in Nat
BY RingSizes DEF AtRest

LEMMA RoundsAre ==
  ASSUME AtRest, NEW len \in 1 .. MaxBlock
  PROVE  /\ Rounds(len) \in Nat /\ 1 <= Rounds(len) /\ Rounds(len) <= 2 * MaxBlock
         /\ out + Rounds(len) <= Size
         /\ Passed(0) = out /\ Passed(Rounds(len)) = NextOut(len)
         /\ NextOut(len) \in 0 .. Size - MaxBlock
         /\ \A k \in 0 .. Rounds(len) - 1 :
              /\ Passed(k) = out + k /\ Passed(k) \in 0 .. Size - 1
              /\ Onward(Passed(k)) = Passed(k + 1)
<1>0. /\ Size \in Nat /\ MaxBlock \in Nat /\ 1 <= MaxBlock /\ 2 * MaxBlock < Size
      /\ out \in 0 .. Size - MaxBlock
  BY RingSizes DEF AtRest
<1> DEFINE n == Rounds(len)
<1>1. n = IF out + len > Size - MaxBlock THEN Size - out ELSE len
  BY DEF Rounds
<1> HIDE DEF n
<1>2. n \in Nat /\ 1 <= n /\ n <= 2 * MaxBlock /\ out + n <= Size
  BY <1>0, <1>1
<1>3. Passed(0) = out /\ Passed(n) = NextOut(len) /\ NextOut(len) \in 0 .. Size - MaxBlock
  BY <1>0, <1>1 DEF Passed, NextOut
<1>4. ASSUME NEW k \in 0 .. n - 1
      PROVE  /\ Passed(k) = out + k /\ Passed(k) \in 0 .. Size - 1
             /\ Onward(Passed(k)) = Passed(k + 1)
  BY <1>0, <1>2 DEF Passed, Onward
<1> QED BY <1>2, <1>3, <1>4 DEF n

LEMMA StepsNeeded ==
  ASSUME AtRest, NEW len \in 1 .. MaxBlock
  PROVE  (End(len) - expirep) % Size = Rounds(len)
<1>0. /\ Size \in Nat \ {0} /\ MaxBlock \in Nat /\ 1 <= MaxBlock /\ 2 * MaxBlock <= Lead
      /\ Lead \in Nat /\ 2 * Lead <= Size /\ out \in 0 .. Size - MaxBlock /\ out \in 0 .. Size - 1
  BY RingSizes DEF AtRest
<1> DEFINE n == Rounds(len)
           w == NextOut(len)
           m == End(len) - expirep
<1>1. n = IF out + len > Size - MaxBlock THEN Size - out ELSE len
  BY DEF Rounds
<1>2. w = IF out + len > Size - MaxBlock THEN 0 ELSE out + len
  BY DEF NextOut
<1>3. n \in 0 .. Size - 1 /\ w \in 0 .. Size - 1 /\ n <= Lead
  <2> HIDE DEF n, w
  <2> QED BY <1>0, <1>1, <1>2
<1>4. End(len) = StepAt(w) /\ expirep = StepAt(out)
  BY DEF End, StepAt, AtRest
<1>5. StepAt(w) = IF w + Lead < Size THEN w + Lead ELSE (w + Lead) - Size
  <2>1. StepAt(w) = IF w + Lead < Size THEN w + Lead ELSE w + Lead - Size
    BY <1>3, StepIs
  <2> HIDE DEF w
  <2> QED BY <1>0, <1>3, <2>1
<1>6. StepAt(out) = IF out + Lead < Size THEN out + Lead ELSE (out + Lead) - Size
  <2>1. StepAt(out) = IF out + Lead < Size THEN out + Lead ELSE out + Lead - Size
    BY <1>0, StepIs
  <2> QED BY <1>0, <2>1
<1>7. m = StepAt(w) - StepAt(out)
  BY <1>4
<1> HIDE DEF n, w, m
<1>8. m = n \/ m = n - Size
  BY <1>0, <1>1, <1>2, <1>3, <1>5, <1>6, <1>7
<1>9. m % Size = n
  <2>1. CASE m = n
    <3>1. m \in Int /\ m = 0 * Size + n /\ 0 \in Int
      BY <1>0, <1>3, <2>1
    <3> QED BY <1>0, <1>3, <3>1, ModIs
  <2>2. CASE m = n - Size
    <3>1. m \in Int /\ m = (-1) * Size + n /\ -1 \in Int
      BY <1>0, <1>3, <2>2
    <3> QED BY <1>0, <1>3, <3>1, ModIs
  <2> QED BY <1>8, <2>1, <2>2
<1> QED BY <1>9 DEF n, m

-----------------------------------------------------------------------------
(* All steps of an expiry.                                                  *)

ExpireStates == [tables : Tables, step : 0 .. Size - 1]

LEMMA ExpireOnType ==
  ASSUME NEW e \in ExpireStates
  PROVE  ExpireOn(e) \in ExpireStates
<1>0. Size \in Nat \ {0} /\ Lead \in Nat
  BY RingSizes
<1> DEFINE n == e.step + 1
<1>1. e.tables \in Tables /\ e.step \in 0 .. Size - 1 /\ n \in Nat
  BY <1>0 DEF ExpireStates
<1>2. n % Size \in 0 .. Size - 1
  <2> HIDE DEF n
  <2> QED BY <1>0, <1>1
<1>3. ExpireStep(e.tables, e.step) \in Tables
  <2> DEFINE v == IF e.step >= Lead THEN e.step - Lead ELSE (e.step - Lead) + Size
  <2>1. v \in 0 .. Size - 1 /\ e.step = IF v + Lead < Size THEN v + Lead ELSE (v + Lead) - Size
    BY <1>0, <1>1, RingSizes
  <2> HIDE DEF v
  <2>2. StepAt(v) = IF v + Lead < Size THEN v + Lead ELSE v + Lead - Size
    BY <2>1, StepIs
  <2>3. e.step = StepAt(v)
    BY <1>0, <2>1, <2>2
  <2>4. LeftBy(v, e.tables, ExpireStep(e.tables, StepAt(v)))
    BY <1>1, <2>1, StepLeaves
  <2> QED BY <2>3, <2>4 DEF LeftBy
<1> HIDE DEF n
<1>4. ExpireOn(e) = [tables |-> ExpireStep(e.tables, e.step), step |-> n % Size]
  BY DEF ExpireOn, n
<1> QED BY <1>2, <1>3, <1>4 DEF ExpireStates

(* The steps of Expire, one after the other. *)
IsExpiry(f, n, s) ==
  /\ f \in [0 .. n -> ExpireStates]
  /\ f[0] = [tables |-> s, step |-> expirep]
  /\ \A k \in 0 .. n - 1 : f[k + 1] = ExpireOn(f[k])

ExpiryEquation(f, n, s) ==
  f = [k \in 0 .. n |-> IF k = 0 THEN [tables |-> s, step |-> expirep] ELSE ExpireOn(f[k - 1])]

LEMMA ExpiryChosen ==
  ASSUME NEW s, NEW end, NEW n, (end - expirep) % Size = n
  PROVE  Expire(s, end) = (CHOOSE f : ExpiryEquation(f, n, s))[n].tables
BY DEF Expire, ExpiryEquation

LEMMA Expires ==
  ASSUME NEW s \in Tables, expirep \in 0 .. Size - 1, NEW n \in Nat, NEW end,
         (end - expirep) % Size = n
  PROVE  \E f : IsExpiry(f, n, s) /\ Expire(s, end) = f[n].tables
<1> DEFINE S == ExpireStates
           F == [e \in S |-> ExpireOn(e)]
           b == [tables |-> s, step |-> expirep]
<1>1. F \in [S -> S]
  BY ExpireOnType
<1>2. b \in S
  BY DEF ExpireStates
<1>3. PICK f : Steps(n, S, F, b, f)
  <2> HIDE DEF S, F, b
  <2> QED BY <1>1, <1>2, Iterated
<1>4. IsExpiry(f, n, s)
  <2>1. f \in [0 .. n -> S] /\ f[0] = b /\ \A k \in 0 .. n - 1 : f[k + 1] = F[f[k]]
    BY <1>3 DEF Steps
  <2>2. ASSUME NEW k \in 0 .. n - 1 PROVE f[k + 1] = ExpireOn(f[k])
    <3>1. f[k] \in S
      BY <2>1
    <3>2. F[f[k]] = ExpireOn(f[k])
      BY <3>1
    <3> QED BY <2>1, <3>2
  <2> QED BY <2>1, <2>2 DEF IsExpiry
<1>5. ExpiryEquation(f, n, s)
  <2> DEFINE g == [k \in 0 .. n |-> IF k = 0 THEN b ELSE ExpireOn(f[k - 1])]
  <2>1. ASSUME NEW k \in 0 .. n PROVE f[k] = g[k]
    <3>1. CASE k = 0
      BY <1>4, <3>1 DEF IsExpiry
    <3>2. CASE k # 0
      <4>1. k - 1 \in 0 .. n - 1 /\ (k - 1) + 1 = k
        BY <3>2
      <4>2. f[k] = ExpireOn(f[k - 1])
        BY <1>4, <4>1 DEF IsExpiry
      <4> QED BY <3>2, <4>2
    <3> QED BY <3>1, <3>2
  <2>2. f = g
    <3>1. f = [k \in 0 .. n |-> f[k]]
      BY <1>4 DEF IsExpiry
    <3> QED BY <2>1, <3>1
  <2> QED BY <2>2 DEF ExpiryEquation
<1> DEFINE h == CHOOSE g : ExpiryEquation(g, n, s)
<1>6. ExpiryEquation(h, n, s)
  BY <1>5
<1>7. Expire(s, end) = h[n].tables
  BY ExpiryChosen
<1> HIDE DEF h
<1>8. h = f
  <2>1. h = [k \in 0 .. n |-> IF k = 0 THEN b ELSE ExpireOn(h[k - 1])]
    BY <1>6 DEF ExpiryEquation
  <2>2. f = [k \in 0 .. n |-> f[k]] /\ f[0] = b
    BY <1>4 DEF IsExpiry
  <2> DEFINE Bad == {k \in 0 .. n : h[k] # f[k]}
  <2>3. ASSUME Bad # {} PROVE FALSE
    <3>1. Bad \in SUBSET Nat
      OBVIOUS
    <3>2. PICK j \in Bad : \A i \in Bad : j <= i
      <4> HIDE DEF Bad
      <4> QED BY <2>3, <3>1, Smallest
    <3>3. j \in 0 .. n /\ h[j] # f[j]
      OBVIOUS
    <3>4. j # 0
      <4> HIDE DEF b, Bad
      <4>1. h[0] = b
        BY <2>1
      <4> QED BY <2>2, <3>3, <4>1
    <3>5. j - 1 \in 0 .. n - 1 /\ (j - 1) + 1 = j /\ j - 1 \in 0 .. n /\ ~(j <= j - 1)
      BY <3>3, <3>4
    <3>6. h[j - 1] = f[j - 1]
      BY <3>2, <3>5
    <3> HIDE DEF b, Bad
    <3>7. h[j] = ExpireOn(h[j - 1])
      BY <2>1, <3>3, <3>4
    <3>8. f[j] = ExpireOn(f[j - 1])
      BY <1>4, <3>5 DEF IsExpiry
    <3> QED BY <3>3, <3>6, <3>7, <3>8
  <2>4. \A k \in 0 .. n : h[k] = f[k]
    BY <2>3
  <2>5. h = [k \in 0 .. n |-> h[k]]
    <3> HIDE DEF b
    <3> QED BY <2>1
  <2> QED BY <2>2, <2>4, <2>5
<1> QED BY <1>4, <1>7, <1>8

(* A translation at out is clear of what expires while it is made. *)
MadeNow(new, len) == \A t \in new : t \in Placed /\ t.at = out /\ Length[t.a] = len

LEMMA NewStays ==
  ASSUME AtRest, NEW len \in 1 .. MaxBlock, NEW new, MadeNow(new, len),
         NEW k \in 0 .. Rounds(len) - 1
  PROVE  NotExpired(Passed(k), new)
<1> DEFINE v == Passed(k)
           p == Piece(v)
           n == PieceAt(v)
<1>1. v = out + k /\ v \in 0 .. Size - 1 /\ k \in Nat /\ k < 2 * MaxBlock
  <2>1. Rounds(len) \in Nat /\ Rounds(len) <= 2 * MaxBlock /\ v = out + k /\ v \in 0 .. Size - 1
    BY RoundsAre
  <2> QED BY <2>1, RingSizes
<1>2. n = IF p + 2 < Segments THEN p + 2 ELSE p + 2 - Segments
  BY DEF PieceAt
<1>3. ASSUME NEW z \in 0 .. Size - 1, out <= z, z < out + MaxBlock PROVE ~Expired(z, n)
  <2>1. z < v + MaxBlock /\ z + 3 * MaxBlock >= v
    BY <1>1, <1>3, RingSizes, OutIs
  <2> HIDE DEF v
  <2> DEFINE f == FirstOf(z)
             q == Piece(z)
  <2>2. f <= p /\ f + 1 >= p
    BY <1>1, <2>1, FirstBehind
  <2>3. /\ f \in 0 .. Segments - 1 /\ f <= q /\ q <= f + 1
        /\ f = IF z < MaxBlock THEN 0 ELSE Piece(z - MaxBlock)
    BY FirstIs
  <2>4. p \in 0 .. Segments - 1 /\ q \in 0 .. Segments - 1 /\ Segments \in Nat /\ Segments >= 4
    BY <1>1, PieceInSize, RingSizes
  <2>5. Expired(z, n) => q = n \/ f = n
    <3>1. Expired(z, n) => q = n \/ (z >= MaxBlock /\ Piece(z - MaxBlock) = n)
      BY DEF Expired, Piece
    <3> HIDE DEF n
    <3> QED BY <2>3, <3>1, RingSizes
  <2> HIDE DEF p, n, f, q
  <2>6. n = p + 2 \/ n = (p + 2) - Segments
    BY <1>2, <2>4
  <2>7. n # q /\ n # f
    BY <2>2, <2>3, <2>4, <2>6
  <2> QED BY <2>5, <2>7
<1>4. ASSUME NEW t \in new PROVE ~Expired(Stub(t), n) /\ ~Expired(CleanEntry(t), n)
  <2>1. t \in Placed /\ t.at = out
    BY DEF MadeNow
  <2>2. /\ Stub(t) \in 0 .. Size - 1 /\ CleanEntry(t) \in 0 .. Size - 1
        /\ out <= CleanEntry(t) /\ CleanEntry(t) <= Stub(t) /\ Stub(t) < out + MaxBlock
    BY <2>1, Places
  <2>3. out <= Stub(t) /\ CleanEntry(t) < out + MaxBlock
    BY <2>2, RingSizes, OutIs
  <2> HIDE DEF n
  <2> QED BY <1>3, <2>2, <2>3
<1> QED BY <1>4 DEF NotExpired

LEMMA PatchesGone ==
  ASSUME AtRest, NEW len \in 1 .. MaxBlock, NEW new, NEW s \in Tables,
         \A l \in s.links : l.from \in new \/ ~LiesIn(l.from, out, len),
         NEW k \in 0 .. Rounds(len) - 1
  PROVE  NotPatched(Passed(k), s, new)
<1>1. Passed(k) = out + k
  BY RoundsAre
<1>2. ASSUME NEW l \in s.links, l.from \notin new PROVE Stub(l.from) # out + k
  <2> DEFINE t == l.from
  <2>1. t \in Placed
    BY TableTypes
  <2>2. ~(t.at < out + len /\ out <= Stub(t))
    BY <1>2 DEF LiesIn
  <2>3. t.at \in Nat /\ t.at + MaxBlock <= Size /\ t.at <= Stub(t) /\ Stub(t) \in Nat
    BY <2>1, Places, RingSizes
  <2>4. Rounds(len) = IF out + len > Size - MaxBlock THEN Size - out ELSE len
    BY DEF Rounds
  <2> HIDE DEF t
  <2>5. Rounds(len) \in Nat /\ out \in Nat
    BY RoundsAre, OutIs
  <2>6. Stub(t) # out + k
    BY <2>2, <2>3, <2>4, <2>5, RingSizes
  <2> QED BY <2>6 DEF t
<1> QED BY <1>1, <1>2 DEF NotPatched

(* Where the expiry is after k steps. *)
Upto(e, k, s, new) ==
  /\ e \in ExpireStates /\ e.step = StepAt(Passed(k))
  /\ e.tables.links \subseteq s.links /\ \A t \in new \cap s.jump_in : t \in e.tables.jump_in
  /\ AllKept(e.tables, Passed(k), new)

LEMMA ExpireOnce ==
  ASSUME AtRest, NEW len \in 1 .. MaxBlock, NEW new, MadeNow(new, len), NEW s \in Tables,
         \A l \in s.links : l.from \in new \/ ~LiesIn(l.from, out, len),
         NEW k \in 0 .. Rounds(len) - 1, NEW e, Upto(e, k, s, new)
  PROVE  Upto(ExpireOn(e), k + 1, s, new)
<1> DEFINE v == Passed(k)
           u == ExpireStep(e.tables, e.step)
<1>1. v \in 0 .. Size - 1 /\ Onward(v) = Passed(k + 1)
  BY RoundsAre
<1>2. /\ e.tables \in Tables /\ e.step = StepAt(v) /\ e.tables.links \subseteq s.links
      /\ AllKept(e.tables, v, new) /\ e \in ExpireStates
      /\ \A t \in new \cap s.jump_in : t \in e.tables.jump_in
  BY DEF Upto, ExpireStates
<1>3. NotExpired(v, new)
  BY NewStays
<1>4. NotPatched(v, e.tables, new)
  <2>1. NotPatched(v, s, new)
    BY PatchesGone
  <2> QED BY <1>2, <2>1 DEF NotPatched
<1> HIDE DEF v
<1>5. LeftBy(v, e.tables, u)
  BY <1>1, <1>2, StepLeaves
<1>6. ExpireOn(e).tables = u /\ ExpireOn(e).step = (e.step + 1) % Size
  BY DEF ExpireOn
<1> HIDE DEF u
<1>7. AllKept(u, Onward(v), new)
  BY <1>1, <1>2, <1>3, <1>4, <1>5, StepKeeps
<1>8. (e.step + 1) % Size = StepAt(Onward(v))
  BY <1>1, <1>2, OnwardStep
<1>9. ExpireOn(e) \in ExpireStates
  BY <1>2, ExpireOnType
<1>10. u.links \subseteq s.links
  BY <1>2, <1>5 DEF LeftBy
<1>11. \A t \in new \cap s.jump_in : t \in u.jump_in
  BY <1>2, <1>3, <1>5 DEF LeftBy, NotExpired
<1> QED BY <1>1, <1>6, <1>7, <1>8, <1>9, <1>10, <1>11 DEF Upto

LEMMA ExpireKeeps ==
  ASSUME AtRest, NEW len \in 1 .. MaxBlock, NEW new, MadeNow(new, len), NEW s \in Tables,
         \A l \in s.links : l.from \in new \/ ~LiesIn(l.from, out, len),
         AllKept(s, out, new)
  PROVE  /\ Expire(s, End(len)) \in Tables
         /\ \A t \in new \cap s.jump_in : t \in Expire(s, End(len)).jump_in
         /\ AllKept(Expire(s, End(len)), NextOut(len), new)
<1> DEFINE n == Rounds(len)
           end == End(len)
<1>1. n \in Nat /\ Passed(0) = out /\ Passed(n) = NextOut(len) /\ (end - expirep) % Size = n
  BY RoundsAre, StepsNeeded
<1>2. expirep \in 0 .. Size - 1 /\ expirep = StepAt(out)
  <2>1. expirep = StepAt(out)
    BY DEF AtRest
  <2> QED BY <2>1, OutIs, StepIs
<1>3. \E f : IsExpiry(f, n, s) /\ Expire(s, end) = f[n].tables
  <2> HIDE DEF n, end
  <2> QED BY <1>1, <1>2, Expires
<1>4. PICK f : IsExpiry(f, n, s) /\ Expire(s, end) = f[n].tables
  BY <1>3
<1>5. Upto(f[0], 0, s, new)
  <2>1. f[0] = [tables |-> s, step |-> expirep]
    BY <1>4 DEF IsExpiry
  <2>2. f[0] \in ExpireStates
    BY <1>2, <2>1 DEF ExpireStates
  <2> QED BY <1>1, <1>2, <2>1, <2>2 DEF Upto
<1> DEFINE Bad == {k \in 0 .. n : ~Upto(f[k], k, s, new)}
<1>6. ASSUME Bad # {} PROVE FALSE
  <2>1. Bad \in SUBSET Nat
    OBVIOUS
  <2>2. PICK j \in Bad : \A i \in Bad : j <= i
    <3> HIDE DEF Bad
    <3> QED BY <1>6, <2>1, Smallest
  <2>3. j \in 0 .. n /\ ~Upto(f[j], j, s, new)
    OBVIOUS
  <2> DEFINE m == j - 1
  <2>4. m \in 0 .. n - 1 /\ m + 1 = j /\ m \in 0 .. n /\ ~(j <= m)
    <3> HIDE DEF Bad, n
    <3> QED BY <1>1, <1>5, <2>3
  <2> HIDE DEF m
  <2>5. Upto(f[m], m, s, new)
    BY <2>2, <2>4
  <2>6. Upto(ExpireOn(f[m]), m + 1, s, new)
    <3> HIDE DEF Bad
    <3> QED BY <2>4, <2>5, ExpireOnce
  <2>7. f[m + 1] = ExpireOn(f[m])
    BY <1>4, <2>4 DEF IsExpiry
  <2> QED BY <2>3, <2>4, <2>6, <2>7
<1>7. Upto(f[n], n, s, new)
  <2>1. n \in 0 .. n
    BY <1>1
  <2> QED BY <1>6, <2>1
<1> HIDE DEF n, Bad
<1> QED BY <1>1, <1>4, <1>7 DEF Upto, ExpireStates

-----------------------------------------------------------------------------
(* A new translation, and what runs while it is made.                       *)

LEMMA LastPiece ==
  ASSUME NEW x \in Nat, Size <= x + Segment, x < Size
  PROVE  Piece(x) = Segments - 1
<1>0. Segment \in Nat \ {0} /\ Segments \in Nat /\ Size = Segments * Segment /\ Size \in Nat
  BY RingSizes
<1>1. (Segments - 1) * Segment = Size - Segment
  BY <1>0
<1> DEFINE b == Segments - 1
           o == x - (Size - Segment)
<1>2. o \in 0 .. Segment - 1 /\ b \in Int /\ x = b * Segment + o
  BY <1>0, <1>1
<1> HIDE DEF b, o
<1>3. Piece(x) = b
  BY <1>2, PieceMade
<1> QED BY <1>3 DEF b

LEMMA NewAhead ==
  ASSUME AtRest, NEW len \in 1 .. MaxBlock, NEW z \in 0 .. Size - 1, out <= z, z < out + len
  PROVE  3 <= Ahead(z, NextOut(len))
<1>0. /\ Size \in Nat /\ MaxBlock \in Nat /\ 1 <= MaxBlock /\ 4 * MaxBlock <= Segment /\ Segment \in Nat
      /\ out \in 0 .. Size - MaxBlock /\ Segments \in Nat /\ Segments >= 4 /\ 4 * Segment <= Size
  BY RingSizes DEF AtRest
<1>1. CASE out + len > Size - MaxBlock
  <2> DEFINE x == z - MaxBlock
  <2>1. NextOut(len) = 0 /\ ~(z < 0) /\ ~(z < MaxBlock)
    BY <1>0, <1>1 DEF NextOut
  <2>2. x \in Nat /\ Size <= x + Segment /\ x < Size
    BY <1>0, <1>1
  <2>3. Piece(x) = Segments - 1
    <3> HIDE DEF x
    <3> QED BY <2>2, LastPiece
  <2>4. FirstOf(z) = Piece(x)
    BY <2>1 DEF FirstOf
  <2>5. Piece(0) = 0
    <3>1. 0 = 0 * Segment + 0 /\ 0 \in 0 .. Segment - 1
      BY <1>0
    <3> QED BY <3>1, PieceMade
  <2> HIDE DEF x
  <2>6. Ahead(z, NextOut(len)) = (Segments - 1) - 0
    BY <2>1, <2>3, <2>4, <2>5 DEF Ahead
  <2> QED BY <1>0, <2>6
<1>2. CASE ~(out + len > Size - MaxBlock)
  <2> DEFINE w == out + len
  <2>1. NextOut(len) = w /\ z < w /\ w \in 0 .. Size - 1 /\ z + 3 * MaxBlock >= w
    BY <1>0, <1>2 DEF NextOut
  <2> HIDE DEF w
  <2>2. FirstOf(z) + 1 >= Piece(w)
    BY <2>1, FirstBehind
  <2>3. FirstOf(z) \in Nat /\ Piece(w) \in Nat
    BY <2>1, FirstIs, PieceInSize
  <2>4. Ahead(z, w) = (FirstOf(z) + Segments) - Piece(w)
    BY <1>0, <2>1, <2>3 DEF Ahead
  <2> QED BY <1>0, <2>1, <2>2, <2>3, <2>4
<1> QED BY <1>1, <1>2

(* When it has been made it is kept everywhere, and whole. *)
LEMMA NewKept ==
  ASSUME AtRest, NEW len \in 1 .. MaxBlock, NEW new, MadeNow(new, len), NEW t \in new, NEW k, NEW i
  PROVE  /\ Whole(t, NextOut(len)) /\ Kept(k, i, Stub(t), NextOut(len))
         /\ Kept(k, i, CleanEntry(t), NextOut(len))
<1>0. /\ Size \in Nat /\ MaxBlock \in Nat /\ 1 <= MaxBlock
      /\ out \in 0 .. Size - MaxBlock
  BY RingSizes DEF AtRest
<1>1. t \in Placed /\ t.at = out /\ Length[t.a] = len
  BY DEF MadeNow
<1>2. /\ Stub(t) = out + len - 1 /\ Stub(t) \in 0 .. Size - 1 /\ CleanEntry(t) \in 0 .. Size - 1
      /\ out <= CleanEntry(t) /\ CleanEntry(t) <= Stub(t)
  BY <1>1, Places
<1>3. out <= Stub(t) /\ Stub(t) < out + len /\ CleanEntry(t) < out + len
  BY <1>0, <1>2
<1>4. 3 <= Ahead(Stub(t), NextOut(len)) /\ 3 <= Ahead(CleanEntry(t), NextOut(len))
  BY <1>2, <1>3, NewAhead
<1>5. NextOut(len) \in 0 .. Size - 1
  <2>1. NextOut(len) \in 0 .. Size - MaxBlock
    BY RoundsAre
  <2> QED BY <1>0, <2>1
<1>6. Whole(t, NextOut(len))
  <2>1. NextOut(len) = 0 \/ NextOut(len) = out + len
    BY DEF NextOut
  <2> QED BY <1>0, <1>1, <1>3, <2>1, <1>2 DEF Whole
<1> QED BY <1>2, <1>4, <1>5, <1>6, FarIsKept

LEMMA AllKeptThen ==
  ASSUME AtRest, NEW len \in 1 .. MaxBlock, NEW new, MadeNow(new, len), NEW s,
         AllKept(s, NextOut(len), new)
  PROVE  AllKept(s, NextOut(len), {})
<1> DEFINE w == NextOut(len)
<1>1. \A t \in new : \A k, i :
        Whole(t, w) /\ Kept(k, i, Stub(t), w) /\ Kept(k, i, CleanEntry(t), w)
  BY NewKept
<1> HIDE DEF w
<1>2. InKept(s, w, {}) /\ DirtyKept(s, w, {}) /\ HashKept(s) /\ RecordsKept(s, w, {})
  BY <1>1 DEF AllKept, InKept, DirtyKept, RecordsKept, w
<1>3. ASSUME NEW l \in s.links PROVE LinkKept(s, w, {}, l) \/ LinkDead(w, {}, l)
  <2>1. LinkKept(s, w, new, l) \/ LinkDead(w, new, l)
    BY DEF AllKept, LinksKept, w
  <2> QED BY <1>1, <2>1 DEF LinkKept, LinkDead
<1>4. LinksKept(s, w, {})
  BY <1>3 DEF LinksKept
<1> QED BY <1>2, <1>4 DEF AllKept, w

(* What runs is not yet unrecorded when the translation it calls is made. *)
LEMMA RunsOn ==
  ASSUME AtRest, NEW len \in 1 .. MaxBlock, NEW t \in Placed, MayRun(t, out), NEW i \in 0 .. Parts - 1
  PROVE  Kept(3, i, Stub(t), NextOut(len))
<1>0. /\ Size \in Nat /\ MaxBlock \in Nat /\ 1 <= MaxBlock /\ MaxBlock <= Parts /\ Parts \in Nat
      /\ Segment = 4 * Parts /\ Segment \in Nat
      /\ out \in 0 .. Size - MaxBlock /\ Segments \in Nat /\ Segments >= 4 /\ 4 * Segment <= Size
      /\ Size = Segments * Segment
  BY RingSizes DEF AtRest
<1> DEFINE z == Stub(t)
           o == Offset(out)
           p == Piece(out)
           w == NextOut(len)
<1>1. z \in 0 .. Size - 1 /\ out \in 0 .. Size - 1 /\ out \in Nat
  BY Places, OutIs
<1>2. w \in 0 .. Size - 1
  <2>1. NextOut(len) \in 0 .. Size - MaxBlock
    BY RoundsAre
  <2> QED BY <1>0, <2>1
<1>3. 2 <= Ahead(z, out) /\ Ahead(z, out) \in Int /\ (2 * Parts - 1 < o => 3 <= Ahead(z, out)) /\ z # out
  <2>1. Kept(1, Parts - 1, z, out)
    BY DEF MayRun
  <2> HIDE DEF z
  <2>2. 2 <= Ahead(z, out) /\ Ahead(z, out) \in Int /\ z # out
    BY <1>1, <2>1, KeptIs, AheadType
  <2>3. Done(1, Parts - 1, out) => 3 <= Ahead(z, out)
    BY <1>1, <2>1, KeptIs
  <2>4. 1 * Parts + (Parts - 1) = 2 * Parts - 1
    BY <1>0
  <2> QED BY <2>2, <2>3, <2>4 DEF Done
<1>4. o \in 0 .. Segment - 1 /\ p \in 0 .. Segments - 1 /\ p * Segment \in Nat /\ out = p * Segment + o
  BY <1>1, PieceIs, PieceInSize
<1>5. FirstOf(z) \in 0 .. Segments - 1
  BY <1>1, FirstIs
<1>6. 3 * Parts + i \in Nat /\ 3 * Parts <= 3 * Parts + i
  BY <1>0
<1>7. (z < out \/ out + MaxBlock <= z) /\ Ahead(z, out) = IF z < out THEN (FirstOf(z) + Segments) - p ELSE FirstOf(z) - p
  <2> HIDE DEF z
  <2>1. z < out \/ out + MaxBlock <= z
    BY <1>1, <1>3, NotBefore
  <2>2. p \in Int /\ Segments \in Int /\ FirstOf(z) \in Int
    BY <1>0, <1>4, <1>5
  <2>3. Ahead(z, out) = IF z < out THEN FirstOf(z) + Segments - p ELSE FirstOf(z) - p
    BY DEF Ahead
  <2> HIDE DEF p
  <2> QED BY <2>1, <2>2, <2>3
<1>8. CASE out + len > Size - MaxBlock
  <2>1. w = 0
    BY <1>8 DEF NextOut
  <2>2. p = Segments - 1 /\ Piece(0) = 0 /\ Offset(0) = 0
    <3>1. Size <= out + Segment
      <4>1. /\ Size \in Int /\ MaxBlock \in Nat /\ Parts \in Nat /\ Segment \in Int
            /\ MaxBlock <= Parts /\ Segment = 4 * Parts
        BY <1>0
      <4>2. out \in Int
        BY <1>1
      <4> HIDE DEF z, o, p, w
      <4> QED BY <1>8, <4>1, <4>2
    <3>2. out < Size
      BY <1>1, RingSizes
    <3>3. 0 = 0 * Segment + 0 /\ 0 \in 0 .. Segment - 1
      BY <1>0
    <3> QED BY <1>1, <3>1, <3>2, <3>3, LastPiece, PieceMade
  <2>3. p * Segment = Size - Segment
    <3> HIDE DEF p
    <3> QED BY <1>0, <2>2
  <2>4. 2 * Parts - 1 < o
    <3> HIDE DEF p, o
    <3> QED BY <1>0, <1>1, <1>4, <1>8, <2>3
  <2>5. z < out /\ FirstOf(z) >= 2
    <3> HIDE DEF p, o, z, w
    <3> QED BY <1>0, <1>3, <1>5, <1>7, <2>2, <2>4
  <2>6. Ahead(z, 0) = FirstOf(z) - 0
    <3>1. ~(z < 0)
      BY <1>1
    <3> QED BY <2>2, <3>1 DEF Ahead
  <2>7. ~Done(3, i, 0)
    BY <1>6, <2>2 DEF Done
  <2>8. 2 <= Ahead(z, 0)
    BY <1>5, <2>5, <2>6
  <2> QED BY <2>1, <2>7, <2>8 DEF Kept
<1>9. CASE ~(out + len > Size - MaxBlock)
  <2>1. w = out + len
    BY <1>9 DEF NextOut
  <2>2. Ahead(z, w) = IF z < w THEN (FirstOf(z) + Segments) - Piece(w) ELSE FirstOf(z) - Piece(w)
    <3> HIDE DEF z, w
    <3>1. Piece(w) \in Int /\ Segments \in Int /\ FirstOf(z) \in Int
      BY <1>0, <1>2, <1>5, PieceInSize
    <3>2. Ahead(z, w) = IF z < w THEN FirstOf(z) + Segments - Piece(w) ELSE FirstOf(z) - Piece(w)
      BY DEF Ahead
    <3> QED BY <3>1, <3>2
  <2>3. z < w <=> z < out
    <3> HIDE DEF z, w
    <3> QED BY <1>0, <1>1, <1>7, <2>1
  <2>4. CASE o + len < Segment
    <3>1. w = p * Segment + (o + len) /\ o + len \in 0 .. Segment - 1
      <4> DEFINE b == p * Segment
      <4>1. b \in Nat /\ out = b + o
        BY <1>4
      <4> HIDE DEF b, o
      <4>2. w = b + (o + len) /\ o + len \in 0 .. Segment - 1
        BY <1>0, <1>4, <2>1, <2>4, <4>1
      <4> QED BY <4>2 DEF b
    <3>2. Piece(w) = p /\ Offset(w) = o + len
      <4> DEFINE q == p
                 x == o + len
      <4>1. q \in Int /\ x \in 0 .. Segment - 1 /\ w = q * Segment + x /\ w \in Nat
        BY <1>2, <1>4, <3>1, <1>0
      <4> HIDE DEF q, x, w
      <4>2. Piece(w) = q /\ Offset(w) = x
        BY <4>1, PieceMade
      <4> QED BY <4>2 DEF q, x
    <3>3. Ahead(z, w) = Ahead(z, out)
      BY <1>7, <2>2, <2>3, <3>2
    <3>4. Done(3, i, w) => 3 <= Ahead(z, out)
      <4>1. Done(3, i, w) => 3 * Parts + i < o + len
        BY <3>2 DEF Done
      <4> HIDE DEF z, o, p, w
      <4> QED BY <1>0, <1>3, <1>4, <4>1
    <3> QED BY <1>3, <3>3, <3>4 DEF Kept
  <2>5. CASE ~(o + len < Segment)
    <3>1. w = (p + 1) * Segment + ((o + len) - Segment) /\ (o + len) - Segment \in 0 .. Parts - 1
      <4> DEFINE b == p * Segment
                 c == (p + 1) * Segment
      <4>1. b \in Nat /\ out = b + o /\ c = b + Segment
        <5>1. b \in Nat /\ out = b + o /\ p \in Int /\ Segment \in Int
          BY <1>4, <1>0
        <5> HIDE DEF o, p
        <5> QED BY <5>1
      <4> HIDE DEF b, c, o
      <4>2. w = c + ((o + len) - Segment) /\ (o + len) - Segment \in 0 .. Parts - 1
        BY <1>0, <1>4, <2>1, <2>5, <4>1
      <4> QED BY <4>2 DEF c
    <3>2. Piece(w) = p + 1 /\ Offset(w) = (o + len) - Segment
      <4> DEFINE q == p + 1
                 x == (o + len) - Segment
      <4>1. q \in Int /\ x \in 0 .. Segment - 1 /\ w = q * Segment + x /\ w \in Nat
        BY <1>2, <1>4, <3>1, <1>0
      <4> HIDE DEF q, x, w
      <4>2. Piece(w) = q /\ Offset(w) = x
        BY <4>1, PieceMade
      <4> QED BY <4>2 DEF q, x
    <3>3. Ahead(z, w) = Ahead(z, out) - 1
      <4> HIDE DEF z, w
      <4>1. p \in Int
        BY <1>4
      <4> HIDE DEF p, o
      <4> QED BY <1>0, <1>5, <1>7, <2>2, <2>3, <3>2, <4>1
    <3>4. 3 <= Ahead(z, out)
      <4> HIDE DEF z, o, p, w
      <4> QED BY <1>0, <1>3, <1>4, <2>5
    <3>5. ~Done(3, i, w)
      <4>1. Done(3, i, w) => 3 * Parts + i < Offset(w)
        BY DEF Done
      <4> HIDE DEF o, p, w
      <4> QED BY <1>0, <3>1, <3>2, <4>1
    <3> QED BY <1>3, <3>3, <3>4, <3>5 DEF Kept
  <2> QED BY <2>4, <2>5
<1> QED BY <1>8, <1>9

(* What is far enough from its end to be looked up is kept everywhere. *)
LEMMA FarAhead ==
  ASSUME NEW v \in 0 .. Size - 1, NEW z \in 0 .. Size - 1, Far(z, v)
  PROVE  3 <= Ahead(z, v)
<1>0. /\ Size \in Nat \ {0} /\ MaxBlock \in Nat /\ 1 <= MaxBlock /\ MaxBlock <= Segment
      /\ Segment \in Nat /\ Guard = 3 * Segment + MaxBlock /\ Segments \in Nat /\ Segments >= 4
      /\ Size = Segments * Segment /\ v \in Nat /\ z \in Nat
  BY RingSizes DEF Guard
<1> DEFINE d == z - v
           p == Piece(v)
           x == z - MaxBlock
           f == FirstOf(z)
           far == v + 3 * Segment
<1>1. d % Size = IF z < v THEN d + Size ELSE d
  <2>1. CASE z < v
    <3> DEFINE r == d + Size
    <3>1. d \in Int /\ r \in 0 .. Size - 1 /\ d = (-1) * Size + r /\ -1 \in Int
      BY <1>0, <2>1
    <3> HIDE DEF d, r
    <3>2. d % Size = r
      BY <1>0, <3>1, ModIs
    <3> QED BY <2>1, <3>2 DEF r
  <2>2. CASE ~(z < v)
    <3>1. d \in Int /\ d \in 0 .. Size - 1 /\ d = 0 * Size + d /\ 0 \in Int
      BY <1>0, <2>2
    <3> HIDE DEF d
    <3>2. d % Size = d
      BY <1>0, <3>1, ModIs
    <3> QED BY <2>2, <3>2
  <2> QED BY <2>1, <2>2
<1>2. d % Size > Guard
  BY DEF Far
<1>3. /\ p \in 0 .. Segments - 1 /\ Offset(v) \in 0 .. Segment - 1 /\ p * Segment \in Nat
      /\ v = p * Segment + Offset(v) /\ f \in Nat
  BY PieceInSize, PieceIs, FirstIs
<1>4. Piece(far) = p + 3 /\ far \in Nat
  <2> DEFINE q == p + 3
             o == Offset(v)
             b == p * Segment
  <2>1. q * Segment = b + 3 * Segment /\ q \in Int
    BY <1>0, <1>3
  <2>2. b \in Nat /\ v = b + o /\ o \in 0 .. Segment - 1
    BY <1>3
  <2>3. far = q * Segment + o /\ far \in Nat
    <3> HIDE DEF q, o, b
    <3> QED BY <1>0, <2>1, <2>2
  <2> HIDE DEF q, o, far
  <2>4. Piece(far) = q
    BY <2>1, <2>2, <2>3, PieceMade
  <2> QED BY <2>3, <2>4 DEF q
<1>5. CASE ~(z < v)
  <2>1. x \in Nat /\ far <= x /\ ~(z < MaxBlock)
    BY <1>0, <1>1, <1>2, <1>5
  <2>2. f = Piece(x)
    BY <2>1 DEF FirstOf
  <2>3. Piece(far) <= Piece(x)
    <3> HIDE DEF far, x
    <3> QED BY <1>4, <2>1, PiecesInOrder
  <2>4. Ahead(z, v) = f - p
    BY <1>5 DEF Ahead
  <2> HIDE DEF p, f, far, x
  <2> QED BY <1>3, <1>4, <2>2, <2>3, <2>4
<1>6. CASE z < v
  <2>1. far + MaxBlock < z + Size
    BY <1>0, <1>1, <1>2, <1>6
  <2>2. Ahead(z, v) = (f + Segments) - p
    <3>1. Ahead(z, v) = f + Segments - p
      BY <1>6 DEF Ahead
    <3> HIDE DEF f, p
    <3> QED BY <1>0, <1>3, <3>1
  <2>3. CASE z < MaxBlock
    <3>1. far \in 0 .. Size - 1
      <4> HIDE DEF far
      <4> QED BY <1>0, <1>4, <2>1, <2>3
    <3>2. Piece(far) <= Segments - 1
      <4> HIDE DEF far
      <4> QED BY <3>1, PieceInSize
    <3> HIDE DEF p, f, far
    <3> QED BY <1>0, <1>3, <1>4, <2>2, <3>2
  <2>4. CASE ~(z < MaxBlock)
    <3>1. x \in Nat /\ f = Piece(x)
      BY <1>0, <2>4 DEF FirstOf
    <3> DEFINE y == x + Size
    <3>2. y \in Nat /\ far <= y
      BY <1>0, <2>1, <3>1, <1>4
    <3>3. Piece(y) = f + Segments
      <4> DEFINE o == Offset(x)
                 g == Piece(x)
                 n == g + Segments
      <4>1. g \in Nat /\ o \in 0 .. Segment - 1 /\ x = g * Segment + o /\ g * Segment \in Nat
        BY <3>1, PieceIs
      <4>2. n * Segment = g * Segment + Segments * Segment /\ n \in Int
        BY <1>0, <4>1
      <4>3. y = n * Segment + o
        <5> HIDE DEF g, o, n, x
        <5> QED BY <1>0, <4>1, <4>2
      <4>4. y \in Nat
        BY <3>2
      <4> HIDE DEF g, o, n, y
      <4>5. Piece(y) = n
        BY <4>1, <4>2, <4>3, <4>4, PieceMade
      <4> QED BY <3>1, <4>5 DEF n, g
    <3> HIDE DEF y, far
    <3>4. Piece(far) <= Piece(y)
      BY <1>4, <3>2, PiecesInOrder
    <3> HIDE DEF p, f
    <3> QED BY <1>0, <1>3, <1>4, <2>2, <3>3, <3>4
  <2> QED BY <2>3, <2>4
<1> QED BY <1>5, <1>6

-----------------------------------------------------------------------------
(* What lookups, links and translations do to the tables.                   *)

(* Tables that hold only what is kept at v, or one of new. *)
Held(s, v, new) == s \in Tables /\ AllKept(s, v, new)

LEMMA ListsKept ==
  ASSUME NEW v \in 0 .. Size - 1, NEW s, Held(s, v, {}), NEW t \in s.jump_in \cup s.jump_dirty
  PROVE  t \in Placed /\ MayRun(t, v)
<1>1. t \in Placed
  BY TableTypes DEF Held
<1>2. PICK z \in {CleanEntry(t), Stub(t)} : Whole(t, v) /\ Kept(0, ListOf[t.a], z, v)
  BY DEF Held, AllKept, InKept, DirtyKept
<1>3. 0 \in 0 .. 1
  OBVIOUS
<1> QED BY <1>1, <1>2, <1>3, Runs

LEMMA HashLeads ==
  ASSUME NEW v \in 0 .. Size - 1, NEW s, Held(s, v, {}), NEW p \in s.hash
  PROVE  p.to \in Placed /\ MayRun(p.to, v)
<1>1. p.to \in s.jump_in \cup s.jump_dirty
  BY DEF Held, AllKept, HashKept
<1> QED BY <1>1, ListsKept

LEMMA HashOnly ==
  ASSUME NEW s, NEW v, NEW new, Held(s, v, new),
         NEW h \in SUBSET [to : Placed, clean : BOOLEAN],
         \A p \in h : IF p.clean THEN p.to \in s.jump_in ELSE p.to \in s.jump_dirty,
         NEW u, u = [s EXCEPT !.hash = h]
  PROVE  /\ Held(u, v, new)
         /\ u.jump_in = s.jump_in /\ u.jump_dirty = s.jump_dirty /\ u.hash = h
         /\ u.jump_out = s.jump_out /\ u.links = s.links
<1>1. s \in Tables /\ AllKept(s, v, new)
  BY DEF Held
<1>2. s = [jump_in |-> s.jump_in, jump_dirty |-> s.jump_dirty, hash |-> s.hash,
           jump_out |-> s.jump_out, links |-> s.links]
  BY <1>1, FieldsAre
<1>3. /\ u.jump_in = s.jump_in /\ u.jump_dirty = s.jump_dirty /\ u.hash = h
      /\ u.jump_out = s.jump_out /\ u.links = s.links
      /\ u = [jump_in |-> s.jump_in, jump_dirty |-> s.jump_dirty, hash |-> h,
              jump_out |-> s.jump_out, links |-> s.links]
  BY <1>2
<1>4. u \in Tables
  BY <1>1, <1>3 DEF Tables
<1>5. HashKept(u)
  BY <1>3 DEF HashKept
<1>6. /\ InKept(u, v, new) <=> InKept(s, v, new)
      /\ DirtyKept(u, v, new) <=> DirtyKept(s, v, new)
      /\ RecordsKept(u, v, new) <=> RecordsKept(s, v, new)
  BY <1>3 DEF InKept, DirtyKept, RecordsKept
<1>7. LinksKept(u, v, new) <=> LinksKept(s, v, new)
  BY <1>3 DEF LinksKept, LinkKept, Recorded
<1> QED BY <1>1, <1>3, <1>4, <1>5, <1>6, <1>7 DEF Held, AllKept

LEMMA HashedIn ==
  ASSUME NEW s, NEW v, NEW new, Held(s, v, new)
  PROVE  /\ s.hash \in SUBSET [to : Placed, clean : BOOLEAN]
         /\ \A p \in s.hash : IF p.clean THEN p.to \in s.jump_in ELSE p.to \in s.jump_dirty
         /\ \A t \in Placed, c \in BOOLEAN :
              /\ HashEntry(t, c) \in [to : Placed, clean : BOOLEAN]
              /\ HashEntry(t, c).to = t /\ HashEntry(t, c).clean = c
<1>1. s.hash \in SUBSET [to : Placed, clean : BOOLEAN]
  BY DEF Held, Tables
<1>2. \A p \in s.hash : IF p.clean THEN p.to \in s.jump_in ELSE p.to \in s.jump_dirty
  BY DEF Held, AllKept, HashKept
<1> QED BY <1>1, <1>2 DEF HashEntry

LEMMA PushedKeeps ==
  ASSUME NEW s, NEW v, NEW new, Held(s, v, new), NEW c \in BOOLEAN, NEW t \in Placed,
         IF c THEN t \in s.jump_in ELSE t \in s.jump_dirty,
         NEW u \in Pushed(s, HashEntry(t, c))
  PROVE  Held(u, v, new) /\ HashEntry(t, c) \in u.hash
<1> DEFINE p == HashEntry(t, c)
<1>1. /\ s.hash \in SUBSET [to : Placed, clean : BOOLEAN]
      /\ \A q \in s.hash : IF q.clean THEN q.to \in s.jump_in ELSE q.to \in s.jump_dirty
      /\ p \in [to : Placed, clean : BOOLEAN] /\ p.to = t /\ p.clean = c
  BY HashedIn
<1>2. PICK keep \in SUBSET Hashed(s, p.to.a) :
        u = [s EXCEPT !.hash = (s.hash \ Hashed(s, p.to.a)) \cup keep \cup {p}]
  BY DEF Pushed
<1> HIDE DEF p
<1> DEFINE h == (s.hash \ Hashed(s, p.to.a)) \cup keep \cup {p}
<1>3. h \subseteq s.hash \cup {p} /\ p \in h
  BY <1>2 DEF Hashed
<1>4. u = [s EXCEPT !.hash = h]
  BY <1>2
<1> HIDE DEF h
<1>5. /\ h \in SUBSET [to : Placed, clean : BOOLEAN]
      /\ \A q \in h : IF q.clean THEN q.to \in s.jump_in ELSE q.to \in s.jump_dirty
  BY <1>1, <1>3
<1>6. Held(u, v, new) /\ u.hash = h
  BY <1>4, <1>5, HashOnly
<1> QED BY <1>3, <1>6 DEF p

(* The jump of t may be patched to c. *)
MayLink(t, c, v, new) ==
  /\ t \in new \/ Kept(3, ListOf[c.a], Stub(t), v)
  /\ c \in new \/ (Whole(c, v) /\ Kept(1, ListOf[c.a], CleanEntry(c), v))

LEMMA LinkedKeeps ==
  ASSUME NEW s, NEW v, NEW new, Held(s, v, new), NEW t \in Placed, NEW c \in Placed,
         MayLink(t, c, v, new)
  PROVE  /\ Held(Linked(s, t, c), v, new) /\ Linked(s, t, c).jump_in = s.jump_in
         /\ \A l \in Linked(s, t, c).links : l \in s.links \/ l.from = t
<1> DEFINE u == Linked(s, t, c)
           r == [stub |-> t, a |-> c.a]
           e == [from |-> t, to |-> c]
<1>1. s \in Tables /\ AllKept(s, v, new)
  BY DEF Held
<1>2. s = [jump_in |-> s.jump_in, jump_dirty |-> s.jump_dirty, hash |-> s.hash,
           jump_out |-> s.jump_out, links |-> s.links]
  BY <1>1, FieldsAre
<1>3. u = [s EXCEPT !.jump_out = s.jump_out \cup {r}, !.links = s.links \cup {e}]
  BY DEF Linked
<1> HIDE DEF u
<1>4. r.stub = t /\ r.a = c.a /\ e.from = t /\ e.to = c /\ c.a \in Addrs
  BY Places
<1>5. r \in [stub : Placed, a : Addrs] /\ e \in [from : Placed, to : Placed]
  BY <1>4
<1> HIDE DEF e
<1>6. /\ u.jump_in = s.jump_in /\ u.jump_dirty = s.jump_dirty /\ u.hash = s.hash
      /\ u.jump_out = s.jump_out \cup {r} /\ u.links = s.links \cup {e}
      /\ u = [jump_in |-> s.jump_in, jump_dirty |-> s.jump_dirty, hash |-> s.hash,
              jump_out |-> s.jump_out \cup {r}, links |-> s.links \cup {e}]
  <2> HIDE DEF r
  <2> QED BY <1>2, <1>3
<1>7. u \in Tables
  <2> HIDE DEF r
  <2> QED BY <1>1, <1>5, <1>6 DEF Tables
<1>8. HashKept(u) /\ InKept(u, v, new) /\ DirtyKept(u, v, new)
  BY <1>1, <1>6 DEF AllKept, HashKept, InKept, DirtyKept
<1>9. RecordsKept(u, v, new)
  <2>1. \A q \in s.jump_out : q.stub \in new \/ Kept(3, ListOf[q.a], Stub(q.stub), v)
    BY <1>1 DEF AllKept, RecordsKept
  <2> HIDE DEF r
  <2> QED BY <1>4, <1>6, <2>1 DEF RecordsKept, MayLink
<1>10. LinksKept(u, v, new)
  <2>1. ASSUME NEW l \in s.links PROVE LinkKept(u, v, new, l) \/ LinkDead(v, new, l)
    <3>1. LinkKept(s, v, new, l) \/ LinkDead(v, new, l)
      BY <1>1 DEF AllKept, LinksKept
    <3>2. Recorded(s, l) => Recorded(u, l)
      BY <1>6 DEF Recorded
    <3> QED BY <3>1, <3>2 DEF LinkKept
  <2>2. LinkKept(u, v, new, e)
    <3>1. Recorded(u, e)
      BY <1>4, <1>6 DEF Recorded
    <3> QED BY <1>4, <3>1 DEF LinkKept, MayLink
  <2> QED BY <1>6, <2>1, <2>2 DEF LinksKept
<1>11. \A l \in u.links : l \in s.links \/ l.from = t
  BY <1>4, <1>6
<1>12. Held(u, v, new)
  BY <1>7, <1>8, <1>9, <1>10 DEF Held, AllKept
<1> HIDE DEF r, e
<1> QED BY <1>6, <1>11, <1>12 DEF u

(* An entry of the lists can be linked to. *)
LEMMA EntryKept ==
  ASSUME NEW v \in 0 .. Size - 1, NEW s, NEW new, Held(s, v, new), NEW c \in s.jump_in
  PROVE  /\ c \in Placed
         /\ c \in new \/ (Whole(c, v) /\ Kept(1, ListOf[c.a], CleanEntry(c), v))
<1>1. c \in Placed
  BY TableTypes DEF Held
<1>2. ASSUME c \notin new PROVE Whole(c, v) /\ Kept(1, ListOf[c.a], CleanEntry(c), v)
  <2> DEFINE i == ListOf[c.a]
             z == CleanEntry(c)
  <2>1. Whole(c, v) /\ Kept(0, i, z, v)
    BY <1>2 DEF Held, AllKept, InKept
  <2>2. i \in 0 .. Parts - 1 /\ z \in 0 .. Size - 1 /\ 0 \in 0 .. 3 /\ 1 \in 0 .. 3
    BY <1>1, Places
  <2> HIDE DEF i, z
  <2>3. 0 * Parts + i <= 1 * Parts + i /\ Ahead(z, v) <= Ahead(z, v)
    <3>1. Ahead(z, v) \in Int
      BY <2>2, AheadType
    <3> QED BY <2>2, <3>1, RingSizes
  <2>4. Kept(1, i, z, v)
    BY <2>1, <2>2, <2>3, KeptLater
  <2> QED BY <2>1, <2>4 DEF i, z
<1> QED BY <1>1, <1>2

LEMMA CachedKeeps ==
  ASSUME NEW s, NEW v, NEW new, Held(s, v, new), NEW c \in s.jump_in, NEW u \in Cached(s, c)
  PROVE  Held(u, v, new) /\ u.jump_in = s.jump_in /\ u.links = s.links
<1> DEFINE p == HashEntry(c, TRUE)
<1>0. c \in Placed
  BY TableTypes DEF Held
<1>1. /\ s.hash \in SUBSET [to : Placed, clean : BOOLEAN]
      /\ \A q \in s.hash : IF q.clean THEN q.to \in s.jump_in ELSE q.to \in s.jump_dirty
      /\ p \in [to : Placed, clean : BOOLEAN] /\ p.to = c /\ p.clean = TRUE
  BY <1>0, HashedIn
<1>2. u = s \/ u = [s EXCEPT !.hash = s.hash \cup {p}]
      \/ \E q \in Hashed(s, c.a) : u = [s EXCEPT !.hash = (s.hash \ {q}) \cup {p}]
  BY DEF Cached
<1> HIDE DEF p
<1>3. ASSUME NEW h, u = [s EXCEPT !.hash = h], h \subseteq s.hash \cup {p}
      PROVE  Held(u, v, new) /\ u.jump_in = s.jump_in /\ u.links = s.links
  <2>1. /\ h \in SUBSET [to : Placed, clean : BOOLEAN]
        /\ \A q \in h : IF q.clean THEN q.to \in s.jump_in ELSE q.to \in s.jump_dirty
    BY <1>1, <1>3
  <2> QED BY <1>3, <2>1, HashOnly
<1>4. CASE u = s
  BY <1>4
<1>5. CASE u = [s EXCEPT !.hash = s.hash \cup {p}]
  BY <1>3, <1>5
<1>6. ASSUME NEW q \in Hashed(s, c.a), u = [s EXCEPT !.hash = (s.hash \ {q}) \cup {p}]
      PROVE  Held(u, v, new) /\ u.jump_in = s.jump_in /\ u.links = s.links
  <2> DEFINE h == (s.hash \ {q}) \cup {p}
  <2>1. h \subseteq s.hash \cup {p} /\ u = [s EXCEPT !.hash = h]
    BY <1>6
  <2> HIDE DEF h
  <2> QED BY <1>3, <2>1
<1> QED BY <1>2, <1>4, <1>5, <1>6

(* The jump of the translation being made is linked to what is held. *)
LEMMA CheckKeeps ==
  ASSUME NEW v \in 0 .. Size - 1, NEW s, NEW new, Held(s, v, new), NEW t \in new, t \in Placed,
         NEW a, NEW u \in check_addr(s, t, a)
  PROVE  Held(u, v, new) /\ \A l \in u.links : l \in s.links \/ l.from = t
<1>1. ASSUME NEW w, Held(w, v, new), w.links = s.links, NEW c \in w.jump_in, u = Linked(w, t, c)
      PROVE  Held(u, v, new) /\ \A l \in u.links : l \in s.links \/ l.from = t
  <2>1. c \in Placed /\ (c \in new \/ (Whole(c, v) /\ Kept(1, ListOf[c.a], CleanEntry(c), v)))
    BY <1>1, EntryKept
  <2>3. MayLink(t, c, v, new)
    BY <2>1 DEF MayLink
  <2>4. Held(w, v, new) /\ u = Linked(w, t, c) /\ c \in Placed /\ t \in Placed
    BY <1>1, <2>1
  <2>5. Held(Linked(w, t, c), v, new) /\ \A l \in Linked(w, t, c).links : l \in w.links \/ l.from = t
    BY <2>3, <2>4, LinkedKeeps
  <2> QED BY <1>1, <2>4, <2>5
<1>2. CASE Hits(s, t, a) # {}
  <2>1. PICK p \in Hits(s, t, a) : u = Linked(s, t, p.to)
    BY <1>2 DEF check_addr
  <2>2. p \in s.hash /\ p.clean
    BY DEF Hits, Hashed
  <2>3. p.to \in s.jump_in
    BY <2>2 DEF Held, AllKept, HashKept
  <2> QED BY <1>1, <2>1, <2>3
<1>3. CASE Hits(s, t, a) = {} /\ Listed(s, t, a) # {}
  <2>1. u \in UNION {{Linked(w, t, c) : w \in Cached(s, c)} : c \in Listed(s, t, a)}
    BY <1>3 DEF check_addr
  <2>2. PICK c \in Listed(s, t, a) : \E w \in Cached(s, c) : u = Linked(w, t, c)
    BY <2>1
  <2>3. PICK w \in Cached(s, c) : u = Linked(w, t, c)
    BY <2>2
  <2>4. c \in s.jump_in
    BY DEF Listed, CleanOf
  <2>5. Held(w, v, new) /\ w.jump_in = s.jump_in /\ w.links = s.links
    BY <2>4, CachedKeeps
  <2> QED BY <1>1, <2>3, <2>4, <2>5
<1>4. CASE Hits(s, t, a) = {} /\ Listed(s, t, a) = {}
  <2>1. u = s
    BY <1>4 DEF check_addr
  <2> QED BY <2>1
<1> QED BY <1>2, <1>3, <1>4

(* Where the translation is written, what was patched is gone. *)
LEMMA OverwrittenKeeps ==
  ASSUME NEW s, Held(s, out, {}), NEW len, NEW new, \A t \in new : LiesIn(t, out, len)
  PROVE  /\ Held(Overwritten(s, len), out, new)
         /\ \A l \in Overwritten(s, len).links : ~LiesIn(l.from, out, len)
<1> DEFINE k == {l \in s.links : ~LiesIn(l.from, out, len)}
           u == Overwritten(s, len)
<1>1. s \in Tables /\ AllKept(s, out, {})
  BY DEF Held
<1>2. s = [jump_in |-> s.jump_in, jump_dirty |-> s.jump_dirty, hash |-> s.hash,
           jump_out |-> s.jump_out, links |-> s.links]
  BY <1>1, FieldsAre
<1>3. u = [s EXCEPT !.links = k] /\ k \subseteq s.links /\ \A l \in k : ~LiesIn(l.from, out, len)
  BY DEF Overwritten
<1> HIDE DEF k, u
<1>4. /\ u.jump_in = s.jump_in /\ u.jump_dirty = s.jump_dirty /\ u.hash = s.hash
      /\ u.jump_out = s.jump_out /\ u.links = k
      /\ u = [jump_in |-> s.jump_in, jump_dirty |-> s.jump_dirty, hash |-> s.hash,
              jump_out |-> s.jump_out, links |-> k]
  BY <1>2, <1>3
<1>5. u \in Tables
  BY <1>1, <1>3, <1>4, FewerEntries
<1>6. HashKept(u) /\ InKept(u, out, new) /\ DirtyKept(u, out, new) /\ RecordsKept(u, out, new)
  BY <1>1, <1>4 DEF AllKept, HashKept, InKept, DirtyKept, RecordsKept
<1>7. ASSUME NEW l \in k PROVE LinkKept(u, out, new, l) \/ LinkDead(out, new, l)
  <2>1. LinkKept(s, out, {}, l) \/ LinkDead(out, {}, l)
    BY <1>1, <1>3 DEF AllKept, LinksKept
  <2>2. l.from \notin new
    BY <1>3
  <2>3. Recorded(s, l) => Recorded(u, l)
    BY <1>4 DEF Recorded
  <2> QED BY <2>1, <2>2, <2>3 DEF LinkKept, LinkDead
<1>8. LinksKept(u, out, new)
  BY <1>4, <1>7 DEF LinksKept
<1> QED BY <1>3, <1>4, <1>5, <1>6, <1>8 DEF Held, AllKept, u

LEMMA AddedKeeps ==
  ASSUME NEW s, NEW v, NEW new, Held(s, v, new), NEW t \in Placed, t \in new
  PROVE  Held(Added(s, t), v, new) /\ t \in Added(s, t).jump_in /\ Added(s, t).links = s.links
<1> DEFINE u == Added(s, t)
           p == HashEntry(t, TRUE)
           h == Redirected(s, t)
<1>0. s \in Tables /\ AllKept(s, v, new)
  BY DEF Held
<1>1. /\ s.hash \in SUBSET [to : Placed, clean : BOOLEAN]
      /\ \A q \in s.hash : IF q.clean THEN q.to \in s.jump_in ELSE q.to \in s.jump_dirty
      /\ p \in [to : Placed, clean : BOOLEAN] /\ p.to = t /\ p.clean = TRUE
  BY HashedIn
<1>2. s = [jump_in |-> s.jump_in, jump_dirty |-> s.jump_dirty, hash |-> s.hash,
           jump_out |-> s.jump_out, links |-> s.links]
  BY <1>0, FieldsAre
<1>3. h \subseteq s.hash \cup {p}
  BY DEF Redirected, remove_hash
<1>9. u = [s EXCEPT !.jump_in = s.jump_in \cup {t}, !.jump_dirty = s.jump_dirty \cup {t}, !.hash = h]
  BY DEF Added
<1> HIDE DEF p, h, u
<1>4. /\ u.jump_in = s.jump_in \cup {t} /\ u.jump_dirty = s.jump_dirty \cup {t} /\ u.hash = h
      /\ u.jump_out = s.jump_out /\ u.links = s.links
      /\ u = [jump_in |-> s.jump_in \cup {t}, jump_dirty |-> s.jump_dirty \cup {t}, hash |-> h,
              jump_out |-> s.jump_out, links |-> s.links]
  BY <1>2, <1>9
<1>5. u \in Tables
  BY <1>0, <1>1, <1>3, <1>4 DEF Tables
<1>6. HashKept(u)
  BY <1>1, <1>3, <1>4 DEF HashKept
<1>7. InKept(u, v, new) /\ DirtyKept(u, v, new) /\ RecordsKept(u, v, new)
  BY <1>0, <1>4 DEF AllKept, InKept, DirtyKept, RecordsKept
<1>8. LinksKept(u, v, new)
  <2>1. ASSUME NEW l \in u.links PROVE LinkKept(u, v, new, l) \/ LinkDead(v, new, l)
    <3>1. l \in s.links /\ (LinkKept(s, v, new, l) \/ LinkDead(v, new, l))
      BY <1>0, <1>4 DEF AllKept, LinksKept
    <3>2. Recorded(s, l) => Recorded(u, l)
      BY <1>4 DEF Recorded
    <3> QED BY <3>1, <3>2 DEF LinkKept
  <2> QED BY <2>1 DEF LinksKept
<1> QED BY <1>4, <1>5, <1>6, <1>7, <1>8 DEF Held, AllKept, u

LEMMA CompiledIs ==
  ASSUME NEW s, NEW t, NEW u \in Compiled(s, t)
  PROVE  \E w \in check_addr(Overwritten(s, Length[t.a]), t, Calls[t.a]) :
           u = Expire(Added(w, t), End(Length[t.a]))
BY DEF Compiled

LEMMA NewIs ==
  ASSUME AtRest, NEW a \in Addrs, NEW new, new = {New(a)}
  PROVE  /\ New(a) \in Placed /\ New(a).a = a /\ New(a).at = out /\ Length[a] \in 1 .. MaxBlock
         /\ MadeNow(new, Length[a])
         /\ \A t \in new : LiesIn(t, out, Length[a])
<1> DEFINE t == New(a)
<1>1. t = [a |-> a, at |-> out] /\ t.a = a /\ t.at = out
  BY DEF New
<1>2. t \in Placed
  <2>1. out \in 0 .. Size - 1 /\ out + MaxBlock <= Size
    BY OutIs, RingSizes DEF AtRest
  <2> QED BY <1>1, <2>1 DEF Placed, Code
<1>3. Length[a] \in 1 .. MaxBlock
  BY RingAssumption
<1>4. LiesIn(t, out, Length[a])
  <2>1. Stub(t) = out + Length[a] - 1
    BY <1>1 DEF Stub
  <2> QED BY <1>1, <1>3, <2>1, OutIs DEF LiesIn
<1> QED BY <1>1, <1>2, <1>3, <1>4 DEF MadeNow

LEMMA CompiledKeeps ==
  ASSUME AtRest, NEW a \in Addrs, NEW s, Held(s, out, {}), NEW u \in Compiled(s, New(a))
  PROVE  Held(u, NextOut(Length[a]), {}) /\ New(a) \in u.jump_in
<1> DEFINE t == New(a)
           new == {t}
           len == Length[a]
           o == Overwritten(s, len)
<1>1. /\ t \in Placed /\ t.a = a /\ t.at = out /\ len \in 1 .. MaxBlock
      /\ MadeNow(new, len) /\ \A c \in new : LiesIn(c, out, len)
  BY NewIs
<1>2. PICK w \in check_addr(o, t, Calls[t.a]) : u = Expire(Added(w, t), End(len))
  <2>1. Length[t.a] = len
    BY <1>1
  <2> HIDE DEF t
  <2>2. u \in Compiled(s, t)
    BY DEF t
  <2>3. \E w \in check_addr(Overwritten(s, Length[t.a]), t, Calls[t.a]) :
          u = Expire(Added(w, t), End(Length[t.a]))
    BY <2>2, CompiledIs
  <2> QED BY <2>1, <2>3
<1> DEFINE e == Added(w, t)
<1>3. t \in new /\ u = Expire(e, End(len))
  BY <1>2
<1> HIDE DEF new, len, t
<1>4. Held(o, out, new) /\ \A l \in o.links : ~LiesIn(l.from, out, len)
  BY <1>1, OverwrittenKeeps
<1> HIDE DEF o
<1>5. Held(w, out, new) /\ \A l \in w.links : l \in o.links \/ l.from = t
  <2>1. out \in 0 .. Size - 1
    BY OutIs
  <2> QED BY <1>1, <1>2, <1>3, <1>4, <2>1, CheckKeeps
<1>7. Held(e, out, new) /\ t \in e.jump_in /\ e.links = w.links
  <2>1. Held(w, out, new) /\ t \in new /\ t \in Placed
    BY <1>1, <1>3, <1>5
  <2>2. Held(Added(w, t), out, new) /\ t \in Added(w, t).jump_in /\ Added(w, t).links = w.links
    BY <2>1, AddedKeeps
  <2> QED BY <2>2 DEF e
<1>8. \A l \in e.links : l.from \in new \/ ~LiesIn(l.from, out, len)
  BY <1>3, <1>4, <1>5, <1>7
<1>9. /\ Expire(e, End(len)) \in Tables
      /\ \A c \in new \cap e.jump_in : c \in Expire(e, End(len)).jump_in
      /\ AllKept(Expire(e, End(len)), NextOut(len), new)
  BY <1>1, <1>7, <1>8, ExpireKeeps DEF Held
<1>10. AllKept(u, NextOut(len), {})
  BY <1>1, <1>3, <1>9, AllKeptThen
<1>11. t \in u.jump_in /\ u \in Tables
  BY <1>3, <1>7, <1>9
<1> QED BY <1>10, <1>11 DEF Held, len, t

-----------------------------------------------------------------------------
(* The actions.                                                             *)

LEMMA RingConstants ==
  /\ \A a \in Addrs : Calls[a] \in Addrs /\ ListOf[a] \in 0 .. Parts - 1 /\ Length[a] \in 1 .. MaxBlock
  /\ Others \subseteq 1 .. MaxBlock
  /\ NoCode \notin Placed
<1>1. ASSUME NEW t \in Placed PROVE t # NoCode
  <2>1. t \in [a : Addrs, at : 0 .. Size - 1]
    BY DEF Placed, Code
  <2>2. DOMAIN t = {"a", "at"}
    BY <2>1
  <2>3. DOMAIN NoCode = {"a"}
    BY DEF NoCode
  <2> QED BY <2>2, <2>3
<1> QED BY <1>1, RingAssumption

LEMMA RingInitHolds == RingInit => RingInv
<1> SUFFICES ASSUME RingInit PROVE RingInv
  OBVIOUS
<1>1. out = 0 /\ expirep = Lead /\ tables = Empty /\ running = NoCode
  BY DEF RingInit
<1>2. 0 \in 0 .. Size - 1 /\ 0 \in 0 .. Size - MaxBlock /\ 0 + Lead < Size /\ Lead \in Nat
  BY RingSizes
<1>3. expirep = StepAt(out)
  <2>1. StepAt(0) = IF 0 + Lead < Size THEN 0 + Lead ELSE 0 + Lead - Size
    BY <1>2, StepIs
  <2> QED BY <1>1, <1>2, <2>1
<1>4. tables \in Tables
  BY <1>1 DEF Tables, Empty
<1>5. AllKept(tables, out, {})
  BY <1>1 DEF Empty, AllKept, InKept, DirtyKept, HashKept, RecordsKept, LinksKept
<1> QED BY <1>1, <1>2, <1>3, <1>4, <1>5 DEF RingInv, RingTyped, StepAt

(* The parts of the invariant. *)
LEMMA RingParts ==
  ASSUME RingInv
  PROVE  /\ AtRest /\ out \in 0 .. Size - 1 /\ Held(tables, out, {})
         /\ running # NoCode => running \in Placed /\ MayRun(running, out)
<1>1. AtRest
  BY DEF RingInv, RingTyped, AtRest, StepAt
<1> QED BY <1>1, OutIs DEF RingInv, RingTyped, Held

(* Nothing is compiled. *)
LEMMA Unmoved ==
  ASSUME AtRest, Held(tables', out, {}), UNCHANGED <<out, expirep>>,
         running' # NoCode => running' \in Placed /\ MayRun(running', out)
  PROVE  RingInv'
<1>1. out' = out /\ expirep' = expirep
  OBVIOUS
<1>2. running' \in Placed \cup {NoCode}
  OBVIOUS
<1>3. tables' \in Tables /\ AllKept(tables', out', {})
  BY <1>1 DEF Held
<1>4. running' # NoCode => MayRun(running', out')
  BY <1>1
<1> QED BY <1>1, <1>2, <1>3, <1>4 DEF RingInv, RingTyped, AtRest, StepAt

(* Something is compiled. *)
LEMMA Moved ==
  ASSUME AtRest, NEW len \in 1 .. MaxBlock, Advance(len), Held(tables', NextOut(len), {}),
         running' # NoCode => running' \in Placed /\ MayRun(running', NextOut(len))
  PROVE  RingInv'
<1>1. out' = NextOut(len) /\ expirep' = (NextOut(len) + Lead) % Size
  BY DEF Advance, End
<1>2. NextOut(len) \in 0 .. Size - MaxBlock
  BY RoundsAre
<1>3. running' \in Placed \cup {NoCode}
  OBVIOUS
<1>4. tables' \in Tables /\ AllKept(tables', out', {})
  BY <1>1 DEF Held
<1>5. running' # NoCode => MayRun(running', out')
  BY <1>1
<1> QED BY <1>1, <1>2, <1>3, <1>4, <1>5 DEF RingInv, RingTyped

LEMMA EnterInv ==
  ASSUME AtRest, NEW t, NEW s, Enter(t, s), Held(s, out, {}), t \in Placed, MayRun(t, out)
  PROVE  RingInv'
<1>1. running' = t /\ tables' = s /\ UNCHANGED <<out, expirep>>
  BY DEF Enter
<1> QED BY <1>1, Unmoved

LEMMA NewRuns ==
  ASSUME AtRest, NEW a \in Addrs
  PROVE  /\ New(a) \in Placed /\ MayRun(New(a), NextOut(Length[a]))
         /\ Whole(New(a), NextOut(Length[a]))
         /\ \A k, i : Kept(k, i, CleanEntry(New(a)), NextOut(Length[a]))
<1> DEFINE t == New(a)
           new == {t}
           len == Length[a]
<1>1. t \in Placed /\ len \in 1 .. MaxBlock /\ MadeNow(new, len) /\ t \in new
  BY NewIs
<1> HIDE DEF t, new, len
<1>2. \A k, i : /\ Whole(t, NextOut(len)) /\ Kept(k, i, Stub(t), NextOut(len))
                /\ Kept(k, i, CleanEntry(t), NextOut(len))
  BY <1>1, NewKept
<1> QED BY <1>1, <1>2 DEF MayRun, t, len

LEMMA NewInv ==
  ASSUME AtRest, NEW a \in Addrs, Starts(a), Held(tables', NextOut(Length[a]), {})
  PROVE  RingInv'
<1> DEFINE len == Length[a]
<1>1. Advance(len) /\ running' = New(a) /\ len \in 1 .. MaxBlock
  BY RingConstants DEF Starts
<1>2. New(a) \in Placed /\ MayRun(New(a), NextOut(len))
  BY NewRuns
<1>3. Held(tables', NextOut(len), {})
  OBVIOUS
<1> HIDE DEF len
<1> QED BY <1>1, <1>2, <1>3, Moved

LEMMA LookUpInv ==
  ASSUME AtRest, NEW s, Held(s, out, {}), NEW a \in Addrs, LookUp(s, a)
  PROVE  RingInv'
<1>0. out \in 0 .. Size - 1 /\ TRUE \in BOOLEAN /\ FALSE \in BOOLEAN
  BY OutIs
<1>1. ASSUME NEW t \in CleanOf(s, a), NEW u \in Pushed(s, HashEntry(t, TRUE)), Enter(t, u)
      PROVE  RingInv'
  <2>1. t \in s.jump_in
    BY DEF CleanOf
  <2>2. t \in Placed /\ MayRun(t, out)
    BY <1>0, <2>1, ListsKept
  <2>3. Held(u, out, {})
    BY <1>0, <2>1, <2>2, PushedKeeps
  <2> QED BY <1>1, <2>2, <2>3, EnterInv
<1>2. ASSUME NEW t \in DirtyOf(s, a), NEW u \in Pushed(s, HashEntry(t, FALSE)), Enter(t, u)
      PROVE  RingInv'
  <2>1. t \in s.jump_dirty
    BY DEF DirtyOf
  <2>2. t \in Placed /\ MayRun(t, out)
    BY <1>0, <2>1, ListsKept
  <2>3. Held(u, out, {})
    BY <1>0, <2>1, <2>2, PushedKeeps
  <2> QED BY <1>2, <2>2, <2>3, EnterInv
<1>3. ASSUME Starts(a), NEW u \in Compiled(s, New(a)), tables' \in Pushed(u, HashEntry(New(a), TRUE))
      PROVE  RingInv'
  <2>1. Held(u, NextOut(Length[a]), {}) /\ New(a) \in u.jump_in
    BY CompiledKeeps
  <2>2. New(a) \in Placed
    BY NewRuns
  <2>3. Held(tables', NextOut(Length[a]), {})
    BY <1>0, <1>3, <2>1, <2>2, PushedKeeps
  <2> QED BY <1>3, <2>3, NewInv
<1> QED BY <1>1, <1>2, <1>3 DEF LookUp

LEMMA FollowInv ==
  ASSUME AtRest, NEW s, Held(s, out, {}), NEW p \in s.hash, Follow(s, p)
  PROVE  RingInv'
<1>1. p.to \in Placed /\ MayRun(p.to, out)
  BY OutIs, HashLeads
<1>2. p.to.a \in Addrs
  BY <1>1, Places
<1>3. CASE Enter(p.to, s)
  BY <1>1, <1>3, EnterInv
<1>4. CASE LookUp(s, p.to.a)
  BY <1>2, <1>4, LookUpInv
<1> QED BY <1>3, <1>4 DEF Follow

LEMMA LookUpHashedInv ==
  ASSUME RingInv, NEW a \in Addrs, LookUpHashed(a)
  PROVE  RingInv'
<1>0. AtRest /\ Held(tables, out, {})
  BY RingParts
<1>1. ASSUME NEW p \in Hashed(tables, a), Follow(tables, p) PROVE RingInv'
  <2>1. p \in tables.hash
    BY DEF Hashed
  <2> QED BY <1>0, <1>1, <2>1, FollowInv
<1>2. ASSUME LookUp(tables, a) PROVE RingInv'
  BY <1>0, <1>2, LookUpInv
<1> QED BY <1>1, <1>2 DEF LookUpHashed

LEMMA LinkInv ==
  ASSUME RingInv, running # NoCode, NEW a \in Addrs, Link(a)
  PROVE  RingInv'
<1>0. /\ AtRest /\ out \in 0 .. Size - 1 /\ Held(tables, out, {})
      /\ running \in Placed /\ MayRun(running, out) /\ FALSE \in BOOLEAN
  BY RingParts
<1>1. ASSUME NEW t \in CleanOf(tables, a), Enter(t, Linked(tables, running, t)) PROVE RingInv'
  <2>1. t \in tables.jump_in
    BY DEF CleanOf
  <2>2. t \in Placed /\ MayRun(t, out)
    BY <1>0, <2>1, ListsKept
  <2>3. Whole(t, out) /\ Kept(1, ListOf[t.a], CleanEntry(t), out)
    <3>1. t \in {} \/ (Whole(t, out) /\ Kept(1, ListOf[t.a], CleanEntry(t), out))
      BY <1>0, <2>1, EntryKept
    <3> QED BY <3>1
  <2>4. Kept(3, ListOf[t.a], Stub(running), out)
    <3>1. ListOf[t.a] \in 0 .. Parts - 1
      BY <2>2, Places
    <3> QED BY <1>0, <3>1, RunsNotDead
  <2>5. MayLink(running, t, out, {})
    BY <2>3, <2>4 DEF MayLink
  <2>6. Held(Linked(tables, running, t), out, {})
    BY <1>0, <2>2, <2>5, LinkedKeeps
  <2> QED BY <1>0, <1>1, <2>2, <2>6, EnterInv
<1>2. ASSUME NEW p \in Hashed(tables, a), Follow(tables, p) PROVE RingInv'
  <2>1. p \in tables.hash
    BY DEF Hashed
  <2> QED BY <1>0, <1>2, <2>1, FollowInv
<1>3. ASSUME NEW t \in DirtyOf(tables, a), NEW s \in Pushed(tables, HashEntry(t, FALSE)),
             Follow(s, HashEntry(t, FALSE))
      PROVE  RingInv'
  <2>1. t \in tables.jump_dirty
    BY DEF DirtyOf
  <2>2. t \in Placed
    BY <1>0, <2>1, ListsKept
  <2>3. Held(s, out, {}) /\ HashEntry(t, FALSE) \in s.hash
    BY <1>0, <2>1, <2>2, PushedKeeps
  <2> QED BY <1>0, <1>3, <2>3, FollowInv
<1>4. ASSUME Starts(a), NEW s \in Compiled(tables, New(a)), tables' = Linked(s, running, New(a))
      PROVE  RingInv'
  <2> DEFINE w == NextOut(Length[a])
             t == New(a)
  <2>1. Held(s, w, {})
    BY <1>0, CompiledKeeps
  <2>2. t \in Placed /\ Whole(t, w) /\ Kept(1, ListOf[t.a], CleanEntry(t), w)
    BY <1>0, NewRuns
  <2>3. Kept(3, ListOf[t.a], Stub(running), w)
    <3>1. ListOf[t.a] \in 0 .. Parts - 1 /\ Length[a] \in 1 .. MaxBlock
      BY <2>2, Places, RingConstants
    <3> HIDE DEF t
    <3> QED BY <1>0, <3>1, RunsOn
  <2> HIDE DEF w, t
  <2>4. MayLink(running, t, w, {})
    BY <2>2, <2>3 DEF MayLink
  <2>5. Held(Linked(s, running, t), w, {})
    BY <1>0, <2>1, <2>2, <2>4, LinkedKeeps
  <2>6. Held(tables', NextOut(Length[a]), {})
    BY <1>4, <2>5 DEF w, t
  <2> QED BY <1>0, <1>4, <2>6, NewInv
<1> QED BY <1>1, <1>2, <1>3, <1>4 DEF Link

LEMMA JumpInv ==
  ASSUME RingInv, Jump
  PROVE  RingInv'
<1>0. /\ AtRest /\ out \in 0 .. Size - 1 /\ Held(tables, out, {}) /\ running # NoCode
      /\ running \in Placed /\ MayRun(running, out)
  BY RingParts DEF Jump
<1>1. running.a \in Addrs /\ Calls[running.a] \in Addrs
  BY <1>0, Places, RingConstants
<1>2. ASSUME NEW l \in tables.links, l.from = running, Enter(l.to, tables) PROVE RingInv'
  <2>1. LinkKept(tables, out, {}, l) \/ LinkDead(out, {}, l)
    BY <1>0 DEF Held, AllKept, LinksKept
  <2>2. l.to \in Placed
    BY <1>0, TableTypes DEF Held
  <2>3. ListOf[l.to.a] \in 0 .. Parts - 1
    BY <2>2, Places
  <2>4. ~LinkDead(out, {}, l)
    <3>1. Kept(3, ListOf[l.to.a], Stub(running), out)
      BY <1>0, <2>3, RunsNotDead
    <3> QED BY <1>2, <3>1 DEF LinkDead
  <2>5. Whole(l.to, out) /\ Kept(1, ListOf[l.to.a], CleanEntry(l.to), out)
    BY <2>1, <2>4 DEF LinkKept
  <2>6. MayRun(l.to, out)
    <3>1. 1 \in 0 .. 1 /\ CleanEntry(l.to) \in {CleanEntry(l.to), Stub(l.to)}
      OBVIOUS
    <3> QED BY <1>0, <2>2, <2>5, <3>1, Runs
  <2> QED BY <1>0, <1>2, <2>2, <2>6, EnterInv
<1>3. ASSUME Link(Calls[running.a]) PROVE RingInv'
  BY <1>0, <1>1, <1>3, LinkInv
<1> QED BY <1>2, <1>3 DEF Jump

LEMMA OtherInv ==
  ASSUME RingInv, NEW len \in Others, CompileOther(len)
  PROVE  RingInv'
<1> DEFINE o == Overwritten(tables, len)
           new == {}
<1>0. AtRest /\ Held(tables, out, {}) /\ len \in 1 .. MaxBlock
  BY RingParts, RingConstants
<1>1. Advance(len) /\ running' = NoCode /\ tables' = Expire(o, End(len))
  BY DEF CompileOther
<1>2. Held(o, out, new) /\ \A l \in o.links : ~LiesIn(l.from, out, len)
  BY <1>0, OverwrittenKeeps
<1>3. MadeNow(new, len)
  BY DEF MadeNow
<1>4. \A l \in o.links : l.from \in new \/ ~LiesIn(l.from, out, len)
  BY <1>2
<1> HIDE DEF o, new
<1>5. Expire(o, End(len)) \in Tables /\ AllKept(Expire(o, End(len)), NextOut(len), new)
  BY <1>0, <1>2, <1>3, <1>4, ExpireKeeps DEF Held
<1>6. Held(tables', NextOut(len), {})
  BY <1>1, <1>5 DEF Held, new
<1> QED BY <1>0, <1>1, <1>6, Moved

LEMMA WithdrawInv ==
  ASSUME RingInv, NEW i, Withdraw(i)
  PROVE  RingInv'
<1>0. /\ AtRest /\ Held(tables, out, {})
      /\ running # NoCode => running \in Placed /\ MayRun(running, out)
  BY RingParts
<1> DEFINE s == tables
           clean == {t \in s.jump_in : ListOf[t.a] # i}
           gone == {t.a : t \in {x \in s.jump_in : ListOf[x.a] = i}}
           h == remove_hash(s, gone)
           r == {q \in s.jump_out : ListOf[q.a] # i}
           k == {l \in s.links : ~(ListOf[l.to.a] = i /\ Recorded(s, l))}
           u == tables'
<1>1. s \in Tables /\ AllKept(s, out, {})
  BY <1>0 DEF Held
<1>2. s = [jump_in |-> s.jump_in, jump_dirty |-> s.jump_dirty, hash |-> s.hash,
           jump_out |-> s.jump_out, links |-> s.links]
  BY <1>1, FieldsAre
<1>3. u = [s EXCEPT !.jump_in = clean, !.hash = h, !.jump_out = r, !.links = k]
  BY DEF Withdraw
<1>4. h = {p \in s.hash : p.to.a \notin gone}
  BY DEF remove_hash
<1>5. /\ clean \subseteq s.jump_in /\ h \subseteq s.hash /\ r \subseteq s.jump_out /\ k \subseteq s.links
      /\ \A p \in h : p.to.a \notin gone
  BY <1>4
<1>6. \A p \in h : p.to \in s.jump_in => p.to \in clean
  BY <1>5
<1>7. \A l \in k : Recorded(s, l) => [stub |-> l.from, a |-> l.to.a] \in r
  BY DEF Recorded
<1> HIDE DEF clean, gone, h, r, k, u, s
<1>8. /\ u.jump_in = clean /\ u.jump_dirty = s.jump_dirty /\ u.hash = h
      /\ u.jump_out = r /\ u.links = k
      /\ u = [jump_in |-> clean, jump_dirty |-> s.jump_dirty, hash |-> h, jump_out |-> r, links |-> k]
  BY <1>2, <1>3
<1>9. u \in Tables
  BY <1>1, <1>5, <1>8, FewerEntries
<1>10. HashKept(u)
  BY <1>1, <1>5, <1>6, <1>8 DEF AllKept, HashKept
<1>11. InKept(u, out, {}) /\ DirtyKept(u, out, {}) /\ RecordsKept(u, out, {})
  BY <1>1, <1>5, <1>8 DEF AllKept, InKept, DirtyKept, RecordsKept
<1>12. LinksKept(u, out, {})
  <2>1. ASSUME NEW l \in k PROVE LinkKept(u, out, {}, l) \/ LinkDead(out, {}, l)
    <3>1. LinkKept(s, out, {}, l) \/ LinkDead(out, {}, l)
      BY <1>1, <1>5 DEF AllKept, LinksKept
    <3>2. Recorded(s, l) => Recorded(u, l)
      BY <1>7, <1>8 DEF Recorded
    <3> QED BY <3>1, <3>2 DEF LinkKept
  <2> QED BY <1>8, <2>1 DEF LinksKept
<1>13. Held(tables', out, {})
  BY <1>9, <1>10, <1>11, <1>12 DEF Held, AllKept, u
<1>14. UNCHANGED <<out, expirep>> /\ running' = running
  BY DEF Withdraw
<1> QED BY <1>0, <1>13, <1>14, Unmoved

LEMMA RestoreInv ==
  ASSUME RingInv, NEW t \in tables.jump_dirty, Restore(t)
  PROVE  RingInv'
<1>0. /\ AtRest /\ out \in 0 .. Size - 1 /\ Held(tables, out, {})
      /\ running # NoCode => running \in Placed /\ MayRun(running, out)
  BY RingParts
<1> DEFINE s == tables
           u == tables'
           h == Redirected(s, t)
           p == HashEntry(t, TRUE)
<1>1. s \in Tables /\ AllKept(s, out, {})
  BY <1>0 DEF Held
<1>2. s = [jump_in |-> s.jump_in, jump_dirty |-> s.jump_dirty, hash |-> s.hash,
           jump_out |-> s.jump_out, links |-> s.links]
  BY <1>1, FieldsAre
<1>3. u = [s EXCEPT !.jump_in = s.jump_in \cup {t}, !.hash = h]
  BY DEF Restore
<1>4. t \in Placed /\ Whole(t, out)
  <2>1. t \in Placed
    BY <1>1, TableTypes
  <2>2. t \in s.jump_dirty /\ t \notin {}
    OBVIOUS
  <2> QED BY <1>1, <2>1, <2>2 DEF AllKept, DirtyKept
<1>5. Kept(0, ListOf[t.a], CleanEntry(t), out)
  <2>1. CleanEntry(t) \in 0 .. Size - 1 /\ Far(CleanEntry(t), out)
    BY <1>4, Places DEF Restore
  <2>2. 3 <= Ahead(CleanEntry(t), out)
    BY <1>0, <2>1, FarAhead
  <2> QED BY <1>0, <2>1, <2>2, FarIsKept
<1>6. /\ s.hash \in SUBSET [to : Placed, clean : BOOLEAN]
      /\ \A q \in s.hash : IF q.clean THEN q.to \in s.jump_in ELSE q.to \in s.jump_dirty
      /\ p \in [to : Placed, clean : BOOLEAN] /\ p.to = t /\ p.clean = TRUE
  BY <1>0, <1>4, HashedIn
<1>7. h \subseteq s.hash \cup {p}
  BY DEF Redirected, remove_hash
<1> HIDE DEF s, u, h, p
<1>8. /\ u.jump_in = s.jump_in \cup {t} /\ u.jump_dirty = s.jump_dirty /\ u.hash = h
      /\ u.jump_out = s.jump_out /\ u.links = s.links
      /\ u = [jump_in |-> s.jump_in \cup {t}, jump_dirty |-> s.jump_dirty, hash |-> h,
              jump_out |-> s.jump_out, links |-> s.links]
  BY <1>2, <1>3
<1>9. u \in Tables
  BY <1>1, <1>4, <1>6, <1>7, <1>8 DEF Tables
<1>10. HashKept(u)
  BY <1>6, <1>7, <1>8 DEF HashKept
<1>11. InKept(u, out, {}) /\ DirtyKept(u, out, {}) /\ RecordsKept(u, out, {})
  BY <1>1, <1>4, <1>5, <1>8 DEF AllKept, InKept, DirtyKept, RecordsKept
<1>12. LinksKept(u, out, {})
  <2>1. ASSUME NEW l \in s.links PROVE LinkKept(u, out, {}, l) \/ LinkDead(out, {}, l)
    <3>1. LinkKept(s, out, {}, l) \/ LinkDead(out, {}, l)
      BY <1>1 DEF AllKept, LinksKept
    <3>2. Recorded(s, l) => Recorded(u, l)
      BY <1>8 DEF Recorded
    <3> QED BY <3>1, <3>2 DEF LinkKept
  <2> QED BY <1>8, <2>1 DEF LinksKept
<1>13. Held(tables', out, {})
  BY <1>9, <1>10, <1>11, <1>12 DEF Held, AllKept, u
<1>14. UNCHANGED <<out, expirep>> /\ running' = running
  BY DEF Restore
<1> QED BY <1>0, <1>13, <1>14, Unmoved

LEMMA PushOutInv ==
  ASSUME RingInv, NEW p, PushOut(p)
  PROVE  RingInv'
<1>0. /\ AtRest /\ Held(tables, out, {})
      /\ running # NoCode => running \in Placed /\ MayRun(running, out)
  BY RingParts
<1> DEFINE h == tables.hash \ {p}
<1>1. tables' = [tables EXCEPT !.hash = h] /\ UNCHANGED <<out, expirep>> /\ running' = running
  BY DEF PushOut
<1>2. /\ h \in SUBSET [to : Placed, clean : BOOLEAN]
      /\ \A q \in h : IF q.clean THEN q.to \in tables.jump_in ELSE q.to \in tables.jump_dirty
  BY <1>0, HashedIn
<1> HIDE DEF h
<1>3. Held(tables', out, {})
  BY <1>0, <1>1, <1>2, HashOnly
<1> QED BY <1>0, <1>1, <1>3, Unmoved

LEMMA RingNextInv == RingInv /\ [RingNext]_ringVars => RingInv'
<1> SUFFICES ASSUME RingInv, [RingNext]_ringVars PROVE RingInv'
  OBVIOUS
<1>1. CASE \E a \in Addrs : LookUpHashed(a)
  BY <1>1, LookUpHashedInv
<1>2. CASE Jump
  BY <1>2, JumpInv
<1>3. CASE \E len \in Others : CompileOther(len)
  BY <1>3, OtherInv
<1>4. CASE \E i \in {ListOf[a] : a \in Addrs} : Withdraw(i)
  BY <1>4, WithdrawInv
<1>5. CASE \E t \in tables.jump_dirty : Restore(t)
  BY <1>5, RestoreInv
<1>6. CASE \E p \in tables.hash : PushOut(p)
  BY <1>6, PushOutInv
<1>7. CASE UNCHANGED ringVars
  <2>1. /\ AtRest /\ Held(tables, out, {})
        /\ running # NoCode => running \in Placed /\ MayRun(running, out)
    BY RingParts
  <2>2. UNCHANGED <<out, expirep>> /\ tables' = tables /\ running' = running
    BY <1>7 DEF ringVars
  <2> QED BY <2>1, <2>2, Unmoved
<1> QED BY <1>1, <1>2, <1>3, <1>4, <1>5, <1>6, <1>7 DEF RingNext

-----------------------------------------------------------------------------
(* What can still run may run. *)
LEMMA FollowedRuns ==
  ASSUME RingInv, NEW t \in Followed
  PROVE  t \in Placed /\ MayRun(t, out)
<1> DEFINE all == Found \cup {l.to : l \in tables.links}
           R == {c \in all : c \in Placed /\ MayRun(c, out)}
<1>0. /\ out \in 0 .. Size - 1 /\ Held(tables, out, {})
      /\ running # NoCode => running \in Placed /\ MayRun(running, out)
  BY RingParts
<1>1. Found \subseteq R
  <2>1. ASSUME NEW c \in Found PROVE c \in Placed /\ MayRun(c, out)
    <3>1. CASE c \in tables.jump_in \cup tables.jump_dirty
      BY <1>0, <3>1, ListsKept
    <3>2. CASE \E p \in tables.hash : c = p.to
      BY <1>0, <3>2, HashLeads
    <3>3. CASE c = running /\ running # NoCode
      BY <1>0, <3>3
    <3> QED BY <3>1, <3>2, <3>3 DEF Found
  <2> QED BY <2>1
<1>2. ASSUME NEW l \in tables.links, l.from \in R PROVE l.to \in R
  <2>1. l.from \in Placed /\ MayRun(l.from, out)
    BY <1>2
  <2>2. LinkKept(tables, out, {}, l) \/ LinkDead(out, {}, l)
    BY <1>0 DEF Held, AllKept, LinksKept
  <2>3. l.to \in Placed
    BY <1>0, TableTypes DEF Held
  <2>4. ListOf[l.to.a] \in 0 .. Parts - 1
    BY <2>3, Places
  <2>5. Kept(3, ListOf[l.to.a], Stub(l.from), out)
    BY <1>0, <2>1, <2>4, RunsNotDead
  <2>6. Whole(l.to, out) /\ Kept(1, ListOf[l.to.a], CleanEntry(l.to), out)
    BY <2>2, <2>5 DEF LinkKept, LinkDead
  <2>7. MayRun(l.to, out)
    <3>1. 1 \in 0 .. 1 /\ CleanEntry(l.to) \in {CleanEntry(l.to), Stub(l.to)}
      OBVIOUS
    <3> QED BY <1>0, <2>3, <2>6, <3>1, Runs
  <2> QED BY <2>3, <2>7
<1>3. R \in SUBSET all /\ FollowedIn(R)
  <2> HIDE DEF all
  <2>1. R \in SUBSET all
    OBVIOUS
  <2> HIDE DEF R
  <2> QED BY <1>1, <1>2, <2>1 DEF FollowedIn
<1>4. t \in R
  <2> HIDE DEF R
  <2> QED BY <1>3 DEF Followed
<1> QED BY <1>4

LEMMA RoomIsClear == RingInv => RoomIsFree
<1> SUFFICES ASSUME RingInv, NEW t \in Followed \cup {r.stub : r \in tables.jump_out}
             PROVE  ~LiesIn(t, out, MaxBlock)
  BY DEF RoomIsFree
<1>0. out \in 0 .. Size - 1 /\ Held(tables, out, {})
  BY RingParts
<1>1. ASSUME NEW k, NEW i, t \in Placed, Kept(k, i, Stub(t), out) PROVE ~LiesIn(t, out, MaxBlock)
  <2>1. Stub(t) \in 0 .. Size - 1
    BY <1>1, Places
  <2>2. 2 <= Ahead(Stub(t), out)
    BY <1>0, <1>1, <2>1, KeptIs
  <2> QED BY <1>0, <1>1, <2>2, ClearOfRoom
<1>2. CASE t \in Followed
  BY <1>1, <1>2, FollowedRuns DEF MayRun
<1>3. CASE t \in {r.stub : r \in tables.jump_out}
  <2>1. PICK r \in tables.jump_out : t = r.stub
    BY <1>3
  <2>2. t \in Placed
    BY <1>0, <2>1, TableTypes DEF Held
  <2>3. Kept(3, ListOf[r.a], Stub(t), out)
    BY <1>0, <2>1 DEF Held, AllKept, RecordsKept
  <2> QED BY <1>1, <2>2, <2>3
<1> QED BY <1>2, <1>3

(* RoomIsFree of CodeRing: whatever the sizes, nothing that lookups, the    *)
(* hash table, what runs and the patched jumps of these can reach, and no   *)
(* recorded jump, lies where the next translation will be written.          *)
THEOREM RoomAlwaysFree == RingSpec => []RoomIsFree
<1>1. RingSpec => []RingInv
  BY RingInitHolds, RingNextInv, PTL DEF RingSpec
<1> QED BY <1>1, RoomIsClear, PTL
=============================================================================
