----------------------------- MODULE CodeCache -----------------------------
(***************************************************************************)
(* The recompiler's block cache (new_dynarec.c, linkage_arm.S,             *)
(* assem_arm.c): which translations may run without being compared with    *)
(* the guest's memory, and how stores, transfers and loaded states find    *)
(* and withdraw them.                                                      *)
(*                                                                         *)
(* A translation has two entries for each of its entry points: a clean one *)
(* that runs at once, and a dirty one (do_dirty_stub) that first compares  *)
(* the source with the copy taken at compile time and looks the address up *)
(* again when they differ.  jump_in lists the clean entries by page,       *)
(* jump_dirty all translations, hash_table points to either kind, and      *)
(* jump_out records the jumps patched to lead straight to a clean entry.   *)
(*                                                                         *)
(* Memory is a few words on a few pages; the linked lists are sets, so     *)
(* which of two entries for one address is found first is left open.  The  *)
(* expiry of the oldest translations is not modelled: the buffer is taken  *)
(* to be large enough.                                                     *)
(***************************************************************************)
EXTENDS Integers, FiniteSets, FiniteSetsExt

CONSTANTS
  Pages,      \* the number of pages of guest memory
  PageWords,  \* the words of one page
  Vals,       \* what a word may hold
  Guests      \* the programs; one is chosen at the start

VARIABLES
  guest,              \* the running program
  mem,                \* its memory
  jump_in,            \* clean entries that a lookup may return
  jump_dirty,         \* every translation made so far
  hash_table,         \* recently used entries, clean or dirty
  jump_out,           \* clean entries that patched jumps lead to
  invalid_code,       \* per view and page: stores are not trapped
  restore_candidate,  \* pages whose translations may be made clean again
  inv_code            \* words just found to hold no code: not trapped

vars == <<guest, mem, jump_in, jump_dirty, hash_table, jump_out,
          invalid_code, restore_candidate, inv_code>>
lists == <<jump_in, hash_table, jump_out>>

-----------------------------------------------------------------------------
(* Addresses and translations *)

Word == 0..(Pages * PageWords - 1)
Page == 0..(Pages - 1)
PageOf(w) == w \div PageWords

(* The same memory is seen at 0x00000000, 0x80000000 and 0xa0000000. *)
View == {"kuseg", "kseg0", "kseg1"}

(* A stretch of guest code that compiles to one block: its first and last *)
(* word, and the words in it that are branched to.                        *)
Shape == {s \in [view : View, first : Word, last : Word, entries : SUBSET Word] :
            s.first <= s.last /\ s.first \in s.entries /\ s.entries \subseteq s.first..s.last}

Text(m, s) == [w \in s.first..s.last |-> m[w]]

Translation == UNION {[shape : {s}, src : [s.first..s.last -> Vals]] : s \in Shape}

Entry == {e \in [at : Word, t : Translation] : e.at \in e.t.shape.entries}
Addr(e) == <<e.t.shape.view, e.at>>
EntriesOf(t) == {[at |-> w, t |-> t] : w \in t.shape.entries}
Known == UNION {EntriesOf(t) : t \in jump_dirty}

Covers(t, w) == t.shape.first <= w /\ w <= t.shape.last

(* verify_dirty: the source still is what was compiled. *)
Agrees(t) == t.src = Text(mem, t.shape)

(* A program: the blocks it jumps to, the words it writes with the CPU and  *)
(* through which views, the transfers its DMA makes, and the words that may *)
(* change.                                                                  *)
Guest == [shapes : SUBSET Shape, stores : SUBSET Word, views : SUBSET View,
          transfers : SUBSET {d \in [view : View, first : Word, last : Word] : d.first <= d.last},
          words : SUBSET Word]

ASSUME CacheAssumption ==
  /\ Pages \in Nat \ {0} /\ PageWords \in Nat \ {0}
  /\ Guests \subseteq Guest

NoWindow == [view |-> "kseg0", words |-> {}]

(* The memory contents a program can leave behind in given words. *)
Contents(words) == {[w \in Word |-> IF w \in words THEN f[w] ELSE mem[w]] : f \in [words -> Vals]}

Init ==
  /\ guest \in Guests
  /\ \E v \in Vals : mem = [w \in Word |-> v]
  /\ jump_in = {} /\ jump_dirty = {} /\ hash_table = {} /\ jump_out = {}
  /\ invalid_code = [b \in View \X Page |-> TRUE]
  /\ restore_candidate = {}
  /\ inv_code = NoWindow

-----------------------------------------------------------------------------
(* Invalidation *)

(* Fault: the patched jumps are left as they are. *)
InvalidatePageKeepsLinks(ps) ==
  LET gone == {e \in jump_in : PageOf(e.at) \in ps}
  IN /\ jump_in' = jump_in \ gone
     /\ hash_table' = {p \in hash_table : \A e \in gone : Addr(e) # Addr(p.to)}
     /\ UNCHANGED jump_out

(* Fault: the hash table keeps its pointers. *)
InvalidatePageKeepsHash(ps) ==
  LET gone == {e \in jump_in : PageOf(e.at) \in ps}
  IN /\ jump_in' = jump_in \ gone
     /\ jump_out' = {e \in jump_out : PageOf(e.at) \notin ps}
     /\ UNCHANGED hash_table

(* Drop the clean entries of these pages, their hash table entries, and   *)
(* point the jumps patched to them back at the linker.                    *)
invalidate_page(ps) ==
  LET gone == {e \in jump_in : PageOf(e.at) \in ps}
  IN /\ jump_in' = jump_in \ gone
     /\ hash_table' = {p \in hash_table : \A e \in gone : Addr(e) # Addr(p.to)}
     /\ jump_out' = {e \in jump_out : PageOf(e.at) \notin ps}

(* The pages dropped with page p: those from first on before it, and those *)
(* after it up to, but not including, last.                                *)
invalidate_block_range(p, first, last) ==
  {p} \cup {q \in Page : (first <= q /\ q < p) \/ (p < q /\ q < last)}

(* A store hit page v, w: withdraw the translations it touches, or, when   *)
(* there are none, remember the gap between the neighbouring translations. *)
NearBy(w) ==
  {t \in jump_dirty : \E a \in t.shape.entries : PageOf(a) \in {PageOf(w) - 1, PageOf(w)}}
Hit(w) == {t \in NearBy(w) : Covers(t, w)}

Gap(w) ==
  {u \in Word : /\ PageOf(u) \in {PageOf(w) - 1, PageOf(w)}
                /\ \A t \in NearBy(w) :
                     \/ t.shape.last < u /\ t.shape.last < w
                     \/ u < t.shape.first /\ w < t.shape.first}

invalidate_addr(v, w) ==
  IF Hit(w) = {}
  THEN inv_code' = [view |-> v, words |-> Gap(w)] /\ UNCHANGED <<lists, invalid_code>>
  ELSE /\ inv_code' = NoWindow
       /\ invalidate_page(invalidate_block_range(PageOf(w),
            PageOf(Min({t.shape.first : t \in Hit(w)})),
            PageOf(Max({t.shape.last + 1 : t \in Hit(w)}) % (Pages * PageWords))))
       /\ invalid_code' = [invalid_code EXCEPT ![<<v, PageOf(w)>>] = TRUE]

(* invalidate_block looks at the translations of the page's own view only. *)
InBlock(v, p) ==
  {t \in jump_dirty : /\ t.shape.view = v
                      /\ \E a \in t.shape.entries : PageOf(a) = p
                      /\ PageOf(t.shape.first) <= p /\ p <= PageOf(t.shape.last)}
invalidate_block(v, p) ==
  invalidate_block_range(p, Min({p} \cup {PageOf(t.shape.first) : t \in InBlock(v, p)}),
                            Max({p} \cup {PageOf(t.shape.last) : t \in InBlock(v, p)}))

-----------------------------------------------------------------------------
(* Translating *)

(* What the hash table holds for an address. *)
BinOf(h, a) == {p \in h : Addr(p.to) = a}
Pointer(e, clean) == [to |-> e, clean |-> clean]

(* A new translation replaces what the hash table holds for its entries. *)
Replaced(h, es) ==
  {p \in h : \A e \in es : Addr(e) # Addr(p.to)}
    \cup {Pointer(e, TRUE) : e \in {x \in es : BinOf(h, Addr(x)) # {}}}

(* Everything new_recompile_block changes but the hash table and links; the *)
(* page after a block that ends its page is trapped too.                   *)
new_recompile_block(t) ==
  /\ jump_dirty' = jump_dirty \cup {t}
  /\ jump_in' = jump_in \cup EntriesOf(t)
  /\ invalid_code' =
       [b \in View \X Page |->
          invalid_code[b] /\ ~(PageOf(t.shape.first) <= b[2] /\ b[2] <= PageOf(t.shape.last + 1))]
  /\ inv_code' = NoWindow
  /\ UNCHANGED restore_candidate

NewTranslation(a) ==
  {[shape |-> s, src |-> Text(mem, s)] : s \in {x \in guest.shapes : <<x.view, x.first>> = a}}

StartOf(t) == [at |-> t.shape.first, t |-> t]

(* Into the bin of two, in front of what was there. *)
Push(h, p) ==
  \E keep \in SUBSET BinOf(h, Addr(p.to)) :
    /\ Cardinality(keep) <= 1
    /\ hash_table' = (h \ BinOf(h, Addr(p.to))) \cup keep \cup {p}

CleanAt(a) == {e \in jump_in : Addr(e) = a}
DirtyAt(a) == {e \in Known : Addr(e) = a}

(* A jump through a register, or the lookup after a dirty entry that did   *)
(* not compare equal: first the clean entries, then a dirty one that still *)
(* agrees, which makes its page a candidate for clean_blocks, and else a   *)
(* new translation.                                                        *)
get_addr(a) ==
  /\ \/ \E e \in CleanAt(a) :
          /\ Push(hash_table, Pointer(e, TRUE))
          /\ UNCHANGED <<jump_in, jump_dirty, invalid_code, restore_candidate, inv_code>>
     \/ /\ CleanAt(a) = {}
        /\ \E e \in DirtyAt(a) :
             /\ Agrees(e.t)
             /\ Push(hash_table, Pointer(e, FALSE))
        /\ invalid_code' = [invalid_code EXCEPT ![<<a[1], PageOf(a[2])>>] = FALSE]
        /\ inv_code' = NoWindow
        /\ restore_candidate' = restore_candidate \cup {PageOf(a[2])}
        /\ UNCHANGED <<jump_in, jump_dirty>>
     \/ /\ CleanAt(a) = {}
        /\ \A e \in DirtyAt(a) : ~Agrees(e.t)
        /\ \E t \in NewTranslation(a) :
             /\ new_recompile_block(t)
             /\ Push(Replaced(hash_table, EntriesOf(t)), Pointer(StartOf(t), TRUE))
  /\ UNCHANGED <<guest, mem, jump_out>>

(* A direct jump that is not patched yet: it is patched to a clean entry;  *)
(* failing that it goes where the hash table says, or to a dirty entry     *)
(* that is not compared here but by its own stub.                          *)
dyna_linker(a) ==
  /\ \/ \E e \in CleanAt(a) :
          /\ jump_out' = jump_out \cup {e}
          /\ UNCHANGED <<jump_in, jump_dirty, hash_table, invalid_code, restore_candidate, inv_code>>
     \/ /\ CleanAt(a) = {} /\ BinOf(hash_table, a) = {}
        /\ \E e \in DirtyAt(a) : Push(hash_table, Pointer(e, FALSE))
        /\ UNCHANGED <<jump_in, jump_dirty, jump_out, invalid_code, restore_candidate, inv_code>>
     \/ /\ CleanAt(a) = {} /\ BinOf(hash_table, a) = {} /\ DirtyAt(a) = {}
        /\ \E t \in NewTranslation(a) :
             /\ new_recompile_block(t)
             /\ hash_table' = Replaced(hash_table, EntriesOf(t))
             /\ jump_out' = jump_out \cup {StartOf(t)}
  /\ UNCHANGED <<guest, mem>>

(* Code on some other page is compiled: check_addr looks for a clean entry *)
(* of a, and the linker pass patches the jump to it at once; pass 1 only   *)
(* asks, to end the block there.  Jumps between the blocks of this model   *)
(* are patched when they are first taken.                                  *)
CompileCaller(a) ==
  /\ inv_code' = NoWindow
  /\ LET clean == {p \in BinOf(hash_table, a) : p.clean}
     IN \/ \E p \in clean : jump_out' = jump_out \cup {p.to} /\ UNCHANGED hash_table
        \/ /\ clean = {}
           /\ \E e \in CleanAt(a) :
                /\ jump_out' \in {jump_out, jump_out \cup {e}}
                /\ IF BinOf(hash_table, a) # {}
                   THEN \E p \in BinOf(hash_table, a) :
                          hash_table' = (hash_table \ {p}) \cup {Pointer(e, TRUE)}
                   ELSE hash_table' \in {hash_table, hash_table \cup {Pointer(e, TRUE)}}
        \/ /\ clean = {} /\ CleanAt(a) = {}
           /\ UNCHANGED <<jump_out, hash_table>>
  /\ UNCHANGED <<guest, mem, jump_in, jump_dirty, invalid_code, restore_candidate>>

(* Other addresses of the same bin push an entry out. *)
Evict(p) ==
  /\ hash_table' = hash_table \ {p}
  /\ UNCHANGED <<guest, mem, jump_in, jump_dirty, jump_out, invalid_code, restore_candidate, inv_code>>

-----------------------------------------------------------------------------
(* Writing *)

(* A store by translated code: trapped unless its page holds no code as    *)
(* seen through this view, or the word lies in the gap found last.         *)
Store(v, w, x) ==
  /\ mem' = [mem EXCEPT ![w] = x]
  /\ IF invalid_code[<<v, PageOf(w)>>] \/ (v = inv_code.view /\ w \in inv_code.words)
     THEN UNCHANGED <<lists, invalid_code, inv_code>>
     ELSE invalidate_addr(v, w)
  /\ UNCHANGED <<guest, jump_dirty, restore_candidate>>

(* A transfer or an executable read into memory, followed by               *)
(* psxCpu->Clear: every page of it, unless it is seen through kseg0 and    *)
(* holds no code.                                                          *)
ari64_clear(d) ==
  LET blocks == {p \in Page : /\ PageOf(d.first) <= p /\ p <= PageOf(d.last + 1)
                              /\ d.view # "kseg0" \/ ~invalid_code[<<d.view, p>>]}
  IN /\ invalidate_page(UNION {invalidate_block(d.view, p) : p \in blocks})
     /\ invalid_code' = [b \in View \X Page |->
                           invalid_code[b] \/ (b[1] = d.view /\ b[2] \in blocks)]

Transfer(d) ==
  /\ mem' \in Contents(guest.words \cap d.first..d.last)
  /\ ari64_clear(d)
  /\ UNCHANGED <<guest, jump_dirty, restore_candidate, inv_code>>

(* A reset or a loaded state: everything becomes dirty, then all of memory *)
(* is replaced.                                                            *)
LoadState ==
  /\ invalidate_page(Page)
  /\ restore_candidate' =
       restore_candidate \cup {p \in Page : \E v \in View : ~invalid_code[<<v, p>>]}
  /\ mem' \in Contents(guest.words)
  /\ UNCHANGED <<guest, jump_dirty, invalid_code, inv_code>>

(* A game chosen from the list: the cache starts empty. *)
new_dynarec_clear_full ==
  /\ jump_in' = {} /\ jump_dirty' = {} /\ hash_table' = {} /\ jump_out' = {}
  /\ invalid_code' = [b \in View \X Page |-> TRUE]
  /\ restore_candidate' = {}
  /\ inv_code' = NoWindow
  /\ UNCHANGED <<guest, mem>>

(* At an interrupt: the translations of a candidate page that still agree, *)
(* and all of whose pages are trapped, become clean again.                 *)
Restorable(p) ==
  {e \in Known : /\ PageOf(e.at) = p
                 /\ ~invalid_code[<<e.t.shape.view, p>>]
                 /\ Agrees(e.t)
                 /\ \A q \in PageOf(e.t.shape.first)..PageOf(e.t.shape.last) :
                      ~invalid_code[<<"kseg0", q>>]}

clean_blocks(p) ==
  /\ p \in restore_candidate
  /\ restore_candidate' = restore_candidate \ {p}
  /\ jump_in' = jump_in \cup Restorable(p)
  /\ hash_table' = Replaced(hash_table, Restorable(p))
  /\ UNCHANGED <<guest, mem, jump_dirty, jump_out, invalid_code, inv_code>>

Target == UNION {{<<s.view, w>> : w \in s.entries} : s \in guest.shapes}

Next ==
  \/ \E a \in Target : get_addr(a) \/ dyna_linker(a) \/ CompileCaller(a)
  \/ \E p \in hash_table : Evict(p)
  \/ \E v \in guest.views, w \in guest.stores, x \in Vals : Store(v, w, x)
  \/ \E d \in guest.transfers : Transfer(d)
  \/ LoadState
  \/ new_dynarec_clear_full
  \/ \E p \in Page : clean_blocks(p)

Spec == Init /\ [][Next]_vars

-----------------------------------------------------------------------------
TypeOK ==
  /\ guest \in Guests
  /\ mem \in [Word -> Vals]
  /\ jump_dirty \subseteq Translation
  /\ jump_in \subseteq Entry /\ jump_out \subseteq Entry
  /\ hash_table \subseteq [to : Entry, clean : BOOLEAN]
  /\ invalid_code \in [View \X Page -> BOOLEAN]
  /\ restore_candidate \subseteq Page
  /\ inv_code \in [view : View, words : SUBSET Word]

(* What runs without a comparison. *)
Clean == jump_in \cup jump_out \cup {p.to : p \in {x \in hash_table : x.clean}}

InOnePage(t) == PageOf(t.shape.first) = PageOf(t.shape.last)

(* Whatever the guest writes, by the CPU, by DMA or by loading a state, no  *)
(* clean entry of a block within one page runs code other than what memory *)
(* holds: not through a lookup, a patched jump or the hash table, and not   *)
(* after the block was made clean again.                                    *)
TranslationsAgree == \A e \in Clean : InOnePage(e.t) => Agrees(e.t)

(* A patched jump and a clean hash table entry always lead to an entry that *)
(* jump_in lists, or an invalidation, which walks that list only, would     *)
(* leave them behind.                                                       *)
PointersBacked == Clean \subseteq jump_in

(* Every clean block within one page is watched: its page traps stores      *)
(* through kseg0, and none of its words lies in the gap whose stores are    *)
(* let through.                                                             *)
CleanIsWatched ==
  \A e \in jump_in : InOnePage(e.t) =>
    /\ ~invalid_code[<<"kseg0", PageOf(e.at)>>]
    /\ \A w \in inv_code.words : ~Covers(e.t, w)
=============================================================================
