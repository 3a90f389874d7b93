------------------------------ MODULE CodeRing ------------------------------
(***************************************************************************)
(* The buffer of translations (new_dynarec.c, linkage_arm.S): a ring, in   *)
(* which what lies ahead of `out' expires, one piece after the other,      *)
(* before it is written over.  A piece is first taken off the lists that   *)
(* lookups search, then the jumps patched to it are pointed back at the    *)
(* linker, then the hash table forgets it, and last go the records of the  *)
(* jumps in it.  Meanwhile code that is about to expire still runs, links  *)
(* its jumps and has new code compiled, which moves the expiry on.         *)
(*                                                                         *)
(* The unit is one step of expirep, 256 bytes of the buffer.  What memory  *)
(* holds is left open: a comparison may come out either way (CodeCache has *)
(* the memory).  Addresses outside Addrs only take room; returns through   *)
(* mini_ht are not modelled.                                               *)
(***************************************************************************)
EXTENDS Integers, FiniteSets

CONSTANTS
  Segments,   \* the pieces of the buffer (8)
  Parts,      \* the steps in which each table of a piece is gone through (2048)
  MaxBlock,   \* MAX_OUTPUT_BLOCK_SIZE (1024)
  Addrs,      \* the guest addresses followed
  ListOf,     \* the lists each belongs to
  Bin,        \* its part of the hash table
  Length,     \* the room its translation takes
  Loads,      \* the addresses whose code has registers to load first
  Calls,      \* the address its code jumps to
  Others,     \* the room that translations of other addresses take
  Live        \* a bound: at most so many translations are mentioned anywhere

(* A translation fits in the time that a table of a piece takes. *)
ASSUME RingAssumption ==
  /\ Segments \in Nat /\ Segments >= 4
  /\ Parts \in Nat /\ MaxBlock \in 1 .. Parts
  /\ Length \in [Addrs -> 1 .. MaxBlock] /\ Others \subseteq 1 .. MaxBlock
  /\ ListOf \in [Addrs -> 0 .. Parts - 1] /\ Bin \in [Addrs -> 0 .. Parts - 1]
  /\ Calls \in [Addrs -> Addrs]

VARIABLES
  out,        \* where the next translation is written
  expirep,    \* the next step of the expiry
  tables,     \* the lists, the hash table and the patched jumps
  running     \* the translation that runs

ringVars == <<out, expirep, tables, running>>

Segment == 4 * Parts
Size == Segments * Segment
Lead == 2 * Segment
Guard == 3 * Segment + MaxBlock

(* A translation, with its place.  The stubs of its jumps and its dirty    *)
(* entry are at the end; so is the clean one when registers are loaded     *)
(* first, else it is the first instruction.                                *)
Code == [a : Addrs, at : 0 .. Size - 1]
NoCode == [a |-> "elsewhere"]

Stub(t) == t.at + Length[t.a] - 1
CleanEntry(t) == IF t.a \in Loads THEN Stub(t) ELSE t.at
LiesIn(t, from, len) == t.at < from + len /\ from <= Stub(t)

HashEntry(t, clean) == [to |-> t, clean |-> clean]
Position(p) == IF p.clean THEN CleanEntry(p.to) ELSE Stub(p.to)

Empty == [jump_in |-> {}, jump_dirty |-> {}, hash |-> {}, jump_out |-> {}, links |-> {}]

RingInit ==
  /\ out = 0
  /\ expirep = Lead
  /\ tables = Empty
  /\ running = NoCode

-----------------------------------------------------------------------------
(* Lookups *)

(* Not about to expire. *)
Far(position, from) == (position - from) % Size > Guard

CleanOf(s, a) == {t \in s.jump_in : t.a = a}
DirtyOf(s, a) == {t \in s.jump_dirty : t.a = a}
Hashed(s, a) == {p \in s.hash : p.to.a = a}

(* Into the bin of two, in front of what was there. *)
Pushed(s, p) ==
  {[s EXCEPT !.hash = (@ \ Hashed(s, p.to.a)) \cup keep \cup {p}] :
     keep \in {k \in SUBSET Hashed(s, p.to.a) : Cardinality(k) <= 1}}

remove_hash(s, as) == {p \in s.hash : p.to.a \notin as}

(* What the hash table has for t's address leads to t now. *)
Redirected(s, t) ==
  IF Hashed(s, t.a) = {} THEN s.hash ELSE remove_hash(s, {t.a}) \cup {HashEntry(t, TRUE)}

(* add_link, and the jump patched. *)
Linked(s, from, to) ==
  [s EXCEPT !.jump_out = @ \cup {[stub |-> from, a |-> to.a]},
            !.links = @ \cup {[from |-> from, to |-> to]}]

(* check_addr for the jump of t, and the jump patched to what it finds; an *)
(* entry of the list is put into the hash table if there is room.          *)
Hits(s, t, a) == {p \in Hashed(s, a) : p.clean /\ Far(Position(p) - MaxBlock, Stub(t))}
Listed(s, t, a) == {c \in CleanOf(s, a) : Far(CleanEntry(c), Stub(t))}

Cached(s, c) ==
  IF Hashed(s, c.a) = {}
  THEN {s, [s EXCEPT !.hash = @ \cup {HashEntry(c, TRUE)}]}
  ELSE {[s EXCEPT !.hash = (@ \ {p}) \cup {HashEntry(c, TRUE)}] : p \in Hashed(s, c.a)}

check_addr(s, t, a) ==
  IF Hits(s, t, a) # {} THEN {Linked(s, t, p.to) : p \in Hits(s, t, a)}
  ELSE IF Listed(s, t, a) # {}
       THEN UNION {{Linked(u, t, c) : u \in Cached(s, c)} : c \in Listed(s, t, a)}
       ELSE {s}

-----------------------------------------------------------------------------
(* Expiry *)

(* In this piece, or perhaps in a translation that begins in it. *)
Expired(position, piece) ==
  \/ position \div Segment = piece
  \/ position >= MaxBlock /\ (position - MaxBlock) \div Segment = piece

Unlisted(s, i, piece) ==
  LET clean == {t \in s.jump_in : ListOf[t.a] = i /\ Expired(CleanEntry(t), piece)}
      dirty == {t \in s.jump_dirty : ListOf[t.a] = i /\ Expired(Stub(t), piece)}
  IN  [s EXCEPT !.jump_in = @ \ clean, !.jump_dirty = @ \ dirty,
                !.hash = remove_hash(s, {t.a : t \in clean \cup dirty})]

Recorded(s, l) == [stub |-> l.from, a |-> l.to.a] \in s.jump_out

(* ll_kill_pointers finds the jumps by their records, by page of the target. *)
Unpatched(s, i, piece) ==
  [s EXCEPT !.links = {l \in @ : ~ /\ ListOf[l.to.a] = i
                                   /\ Recorded(s, l)
                                   /\ Expired(CleanEntry(l.to), piece)}]

Unhashed(s, i, piece) ==
  [s EXCEPT !.hash = {p \in @ : ~(Bin[p.to.a] = i /\ Expired(Position(p), piece))}]

UnrecordedByTarget(s, i, piece) ==  \* fault: what the jump leads to decides
  [s EXCEPT !.jump_out = {r \in @ : ~ /\ ListOf[r.a] = i
                                      /\ \E l \in s.links : l.from = r.stub /\ l.to.a = r.a
                                                            /\ Expired(CleanEntry(l.to), piece)}]
Unrecorded(s, i, piece) ==
  LET gone == {r \in s.jump_out : ListOf[r.a] = i /\ Expired(Stub(r.stub), piece)}
  IN  [s EXCEPT !.jump_out = @ \ gone, !.hash = remove_hash(s, {r.a : r \in gone})]

ExpireStep(s, step) ==
  LET piece == step \div Segment
      phase == (step \div Parts) % 4
      i == step % Parts
  IN  CASE phase = 0 -> Unlisted(s, i, piece)
        [] phase = 1 -> Unpatched(s, i, piece)
        [] phase = 2 -> Unhashed(s, i, piece)
        [] phase = 3 -> Unrecorded(s, i, piece)

(* The steps up to end. *)
ExpireOn(e) == [tables |-> ExpireStep(e.tables, e.step), step |-> (e.step + 1) % Size]

Expire(s, end) ==
  LET steps == (end - expirep) % Size
      after[k \in 0 .. steps] ==
        IF k = 0 THEN [tables |-> s, step |-> expirep] ELSE ExpireOn(after[k - 1])
  IN  after[steps].tables

-----------------------------------------------------------------------------
(* Compiling *)

(* Within MaxBlock of the end, start over from the beginning. *)
NextOut(len) == IF out + len > Size - MaxBlock THEN 0 ELSE out + len
End(len) == (NextOut(len) + Lead) % Size

(* The code that was there is gone, and with it its jumps. *)
Overwritten(s, len) == [s EXCEPT !.links = {l \in @ : ~LiesIn(l.from, out, len)}]

Advance(len) ==
  /\ out' = NextOut(len)
  /\ expirep' = End(len)

(* new_recompile_block: its jump linked if it can be, its entries added,   *)
(* the rest expired.                                                       *)
New(a) == [a |-> a, at |-> out]

Added(s, t) ==
  [s EXCEPT !.jump_in = @ \cup {t}, !.jump_dirty = @ \cup {t}, !.hash = Redirected(s, t)]

Compiled(s, t) ==
  {Expire(Added(u, t), End(Length[t.a])) :
     u \in check_addr(Overwritten(s, Length[t.a]), t, Calls[t.a])}

Mentioned ==
  tables.jump_in \cup tables.jump_dirty \cup {p.to : p \in tables.hash}
    \cup {r.stub : r \in tables.jump_out} \cup {l.from : l \in tables.links}

Starts(a) ==
  /\ Cardinality(Mentioned) < Live
  /\ Advance(Length[a])
  /\ running' = New(a)

(* Code at some other address is called and compiled. *)
CompileOther(len) ==
  /\ Advance(len)
  /\ running' = NoCode
  /\ tables' = Expire(Overwritten(tables, len), End(len))

-----------------------------------------------------------------------------
(* Running *)

Enter(t, s) == running' = t /\ tables' = s /\ UNCHANGED <<out, expirep>>

(* get_addr: a clean entry, or a dirty one that compares and is not about  *)
(* to expire, or a new translation, which is looked up again.              *)
LookUp(s, a) ==
  \/ \E t \in CleanOf(s, a) : \E u \in Pushed(s, HashEntry(t, TRUE)) : Enter(t, u)
  \/ /\ CleanOf(s, a) = {}
     /\ \/ \E t \in DirtyOf(s, a) : \E u \in Pushed(s, HashEntry(t, FALSE)) :
             Far(Stub(t), out) /\ Enter(t, u)
        \/ /\ Starts(a)
           /\ \E u \in Compiled(s, New(a)) : tables' \in Pushed(u, HashEntry(New(a), TRUE))

(* A dirty entry compares, and looks again when the code has changed. *)
Follow(s, p) == Enter(p.to, s) \/ (~p.clean /\ LookUp(s, p.to.a))

(* A jump through a register: get_addr_ht. *)
LookUpHashed(a) ==
  \/ \E p \in Hashed(tables, a) : Follow(tables, p)
  \/ Hashed(tables, a) = {} /\ LookUp(tables, a)

(* A jump that is not patched, to dyna_linker: to a clean entry, and it is *)
(* patched; where the hash table leads; to a dirty entry, however near its *)
(* end; or to a new translation, and it is patched when that is made.      *)
Link(a) ==
  \/ \E t \in CleanOf(tables, a) : Enter(t, Linked(tables, running, t))
  \/ /\ CleanOf(tables, a) = {}
     /\ \/ \E p \in Hashed(tables, a) : Follow(tables, p)
        \/ /\ Hashed(tables, a) = {}
           /\ \E t \in DirtyOf(tables, a) : \E s \in Pushed(tables, HashEntry(t, FALSE)) :
                Follow(s, HashEntry(t, FALSE))
        \/ /\ Hashed(tables, a) = {} /\ DirtyOf(tables, a) = {}
           /\ Starts(a)
           /\ \E s \in Compiled(tables, New(a)) : tables' = Linked(s, running, New(a))

Jump ==
  /\ running # NoCode
  /\ LET a == Calls[running.a]
         patched == {l \in tables.links : l.from = running /\ l.to.a = a}
     IN  \/ \E l \in patched : Enter(l.to, tables)
         \/ patched = {} /\ Link(a)

(* invalidate_page. *)
Withdraw(i) ==
  /\ tables' = [tables EXCEPT
       !.jump_in = {t \in @ : ListOf[t.a] # i},
       !.hash = remove_hash(tables, {t.a : t \in {x \in tables.jump_in : ListOf[x.a] = i}}),
       !.jump_out = {r \in @ : ListOf[r.a] # i},
       !.links = {l \in @ : ~(ListOf[l.to.a] = i /\ Recorded(tables, l))}]
  /\ UNCHANGED <<out, expirep, running>>

(* clean_blocks, for a translation that still agrees. *)
Restore(t) ==
  /\ Far(Stub(t), out) /\ Far(CleanEntry(t), out)
  /\ tables' = [tables EXCEPT !.jump_in = @ \cup {t}, !.hash = Redirected(tables, t)]
  /\ UNCHANGED <<out, expirep, running>>

(* Other addresses of the same bin push an entry out. *)
PushOut(p) ==
  /\ tables' = [tables EXCEPT !.hash = @ \ {p}]
  /\ UNCHANGED <<out, expirep, running>>

RingNext ==
  \/ \E a \in Addrs : LookUpHashed(a)
  \/ Jump
  \/ \E len \in Others : CompileOther(len)
  \/ \E i \in {ListOf[a] : a \in Addrs} : Withdraw(i)
  \/ \E t \in tables.jump_dirty : Restore(t)
  \/ \E p \in tables.hash : PushOut(p)

RingSpec == RingInit /\ [][RingNext]_ringVars

-----------------------------------------------------------------------------
(* What can still run: what lookups and the hash table return, what runs   *)
(* now, and what the patched jumps of any of these lead to.                *)
Found ==
  tables.jump_in \cup tables.jump_dirty \cup {p.to : p \in tables.hash} \cup ({running} \ {NoCode})

FollowedIn(R) == Found \subseteq R /\ \A l \in tables.links : l.from \in R => l.to \in R

Followed ==
  LET all == Found \cup {l.to : l \in tables.links}
  IN  {t \in all : \A R \in SUBSET all : FollowedIn(R) => t \in R}

(* Nothing that can still run lies where the next translation will be      *)
(* written, whatever runs, is linked and is compiled while it expires; nor *)
(* does a jump that is still recorded, for an invalidation would take other *)
(* code for it (find_extjump_insn asserts that it is one).                  *)
RoomIsFree ==
  \A t \in Followed \cup {r.stub : r \in tables.jump_out} : ~LiesIn(t, out, MaxBlock)
=============================================================================
