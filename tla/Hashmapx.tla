------------------------------ MODULE Hashmapx ------------------------------
(***************************************************************************)
(* runtime::Hashmapx (include/common/runtime/Hashmap.hpp), the table of one*)
(* thread, without tags: chains of entries that are elements of the        *)
(* thread's Stack.  A chain is the sequence of the places of its entries in*)
(* that Stack, the last inserted first.  Hashmap models the table that     *)
(* several threads insert into.                                            *)
(*                                                                         *)
(* runtime::Stack (include/common/runtime/Stack.hpp): elements in a list of*)
(* chunks, each twice as large as the one before, so that they stay where  *)
(* they are while the stack grows.  clear() forgets the elements, not the  *)
(* memory: the chunks keep what is in them and are filled again.           *)
(***************************************************************************)
EXTENDS Integers, Sequences, SequencesExt

CONSTANT initialSize    \* elements of the first chunk: 1024

NewStack ==
  [chunks |-> << <<>> >>, last |-> 1, chunkSize |-> initialSize, fill |-> 0, nrElements |-> 0]

\* The chunk behind the last one, which may be there from before clear().
newChunk(st) ==
  [chunks |-> IF st.last < Len(st.chunks) THEN st.chunks ELSE Append(st.chunks, <<>>),
   last |-> st.last + 1, chunkSize |-> 2 * st.chunkSize,
   fill |-> 0, nrElements |-> st.nrElements + st.fill]

\* What a chunk holds once its element i has been written.
Put(chunk, i, e) == IF i <= Len(chunk) THEN [chunk EXCEPT ![i] = e] ELSE Append(chunk, e)

emplace_back(st, e) ==
  LET room == IF st.fill = st.chunkSize THEN newChunk(st) ELSE st
  IN  [room EXCEPT !.chunks[room.last] = Put(@, room.fill + 1, e), !.fill = @ + 1]

clear(st) == [st EXCEPT !.last = 1, !.chunkSize = initialSize, !.fill = 0, !.nrElements = 0]

size(st) == st.nrElements + st.fill
empty(st) == st.last = 1 /\ st.fill = 0

\* Where an element is: its chunk and its place there.
back(st) == <<st.last, st.fill>>
Element(st, place) == st.chunks[place[1]][place[2]]

\* The order of iteration: the chunks before the last are full.
Places(st) ==
  LET InChunk(c) == IF c = st.last THEN st.fill ELSE initialSize * 2^(c - 1)
  IN  FlattenSeq([c \in 1 .. st.last |-> [i \in 1 .. InChunk(c) |-> <<c, i>>]])

Elements(st) == [k \in DOMAIN Places(st) |-> Element(st, Places(st)[k])]

----------------------------------------------------------------------------
\* A Hashmapx that has been constructed has no chains before setSize().
NewTable == [capacity |-> 0, chains |-> <<>>, nrEntries |-> 0]

\* 64 - __builtin_clzll(n)
Bits(n) == CHOOSE e \in 1 .. 64 : 2^(e - 1) <= n /\ n < 2^e

\* The smallest power of two above nrEntries, and above nrEntries / 0.7.
Capacity(nrEntries) ==
  LET exp == Bits(nrEntries)
  IN  IF 7 * 2^exp < 10 * nrEntries THEN 2^(exp + 1) ELSE 2^exp

\* The memory of a new table is zero, which is the empty chain.
setSize(nrEntries) ==
  [capacity |-> Capacity(nrEntries), nrEntries |-> 0,
   chains |-> [pos \in 0 .. Capacity(nrEntries) - 1 |-> <<>>]]

\* How many entries the table takes: capacity * loadFactor.
MaxFill(ht) == (7 * ht.capacity) \div 10

Clear(ht) == [ht EXCEPT !.nrEntries = 0, !.chains = [pos \in DOMAIN @ |-> <<>>]]

insert(ht, place, h) ==
  [ht EXCEPT !.chains[h % ht.capacity] = <<place>> \o @, !.nrEntries = @ + 1]

insertAll(ht, st) ==
  FoldLeft(LAMBDA acc, place : insert(acc, place, Element(st, place).hash), ht, Places(st))

\* The first entry of its chain with the hash and the key; none if it is <<>>.
findOne(ht, st, key, h) ==
  LET found(place) == Element(st, place).hash = h /\ Element(st, place).key = key
      same == SelectSeq(ht.chains[h % ht.capacity], found)
  IN  IF same = <<>> THEN <<>> ELSE Head(same)

\* A group that is not there is made, in room: what is left of table and Stack when
\* there is place for it.  locals has both; the result has them, and the place of
\* the group.
findOrCreate(locals, room, key, h, init) ==
  LET place == findOne(locals.groups, locals.entries, key, h)
      pushed == emplace_back(room.entries, [hash |-> h, key |-> key, val |-> init])
  IN  IF place # <<>> THEN [locals |-> locals, group |-> place]
      ELSE [locals |-> [room EXCEPT !.entries = pushed, !.groups = insert(@, back(pushed), h)],
            group |-> back(pushed)]
=============================================================================
