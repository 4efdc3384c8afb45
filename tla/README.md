# A TLA+ development for redlib

redlib is the runtime library of a hobby operating system: C, a little C++ and
assembly, freestanding, used by the kernel and by its programs. It is a set of
mostly independent libraries over a few shared ones: everything allocates from
one heap, most modules keep their state in the same containers, and files are
reached through one virtual file system. Nothing is locked and nothing is
threaded inside the library. What makes it hard is long sequences of calls
whose effects meet in shared pages, lists and buckets, calls whose requests for
memory fail half-way, the collector, whose steps interleave with its clients,
and descriptors and entries that outlive the calls that made them.

## Inventory

| Part | State | Operations | Interacts with | Hard behaviour | Correct when |
|---|---|---|---|---|---|
| Heap (`alloc/allocate.c`, `page_index.c`) | page chain, free lists and bump pointers inside pages, index of blocks of whole pages | zalloc, release, reallocate, release_page_all | kernel (`page_alloc`, `page_free`); every other part | any sequence of sizes; split, join, trim, grow in place; memory out between two requests | blocks never overlap, none is lost, new ones are clear, pages go only when empty |
| Per-file heap (`alloc/alloc.h`, `allocator.cpp`) | one page chain per file | alloc, new, delete | heap | a chain `release` does not know | as the heap |
| Collector (`alloc/gc.c`) | white, gray, black lists | register, run, run_next | heap, linked list, its client | client stores and allocations between steps, cycles cut short | garbage goes, what is in reach stays |
| Growable queue (`data/struct/queue.c`) | circular buffer | init, enqueue, dequeue, clear, destroy | heap | growth while wrapped, failing growth | first in, first out |
| Ring buffers (`ring_buffer.c`, `.hpp`) | array, two ends, full flag | push, pop, push_buf, pop_buf, clear | console, audio, kernel | empty against full, copies in two segments | first in, first out |
| Hash map (`hashmap.c`) | buckets of chains, size, threshold | create, put, get, remove, empty, destroy | heap, cache, router, modules | growth, three failing requests in one put | a dictionary with short chains |
| Cache (`cache/cache.h`) | hash map of timed blocks | prealloc, get, remove, invalidate, cleanup | hash map, heap, clock, fonts | overwrite that fails, two policies, restarted times | cached blocks are live, entries go on time |
| Lists and chunked array (`linked_list.c`, `double_linked_list.c`, `chunk_array.c`, `stack.h`) | nodes with links, ends, a length; chunks with counts | insert, remove, update, sort, clone, get, find | heap, collector, file system, tokens | removal at the ends, sorting by relinking, indexes across chunks | sequences, ends and length agree with the links |
| Other containers (`p_queue.c`, `priority_queue.c`, `array.hpp`, `indexmap.hpp`) | slots | push, pop, find | Huffman codes | the smallest of equal values | order of priorities |
| Trees (`bt_tree.c`, `rb_tree.c`) | nodes with parents, colours, a count | insert, remove, update, find, walk, reset | heap | rotations, removal by swapping contents, equal keys | every entry is found and walked over once, paths stay balanced |
| Buffers (`files/buffer.c`) | bytes, size, limit, cursor, options | write, write_to, delete, seek, read, wipe | file system, shell | growth, circular and static modes, seek then write | size within limit, reads give what was written |
| Virtual file system (`files/`) | entries, descriptors, mounts | open, read, write, stat, close, readdir, load and unload modules | kernel calls, buffers, chunked array, hash map | aliases that share a descriptor, names that are patterns, listings resumed at an offset | a descriptor keeps meaning the file it was opened on |
| Text and formats (`data/format/`) | cursors, token trees | scan, tokenise, parse, serialise | strings, buffers | ends of input, nesting, escapes | what is written parses back |
| Strings (`string/string.c`, `slice.c`) | none | format, parse numbers, search, compare | every other part | no room, padding, numbers at the ends of their types | a text is cut and marked, a number is read back |
| Memory (`memory/memory.c`) | none | copy, move, fill, reverse, compare, search | every other part | words of two widths, alignment, overlap, batches | as byte by byte |
| Patterns (`regex/regex.c`) | nodes, a scanner, groups | compile, find, find many | scanner, chunked array | restarts, classes, ends of texts | what is reported is meant, nothing is missed, searches end |
| Compression and images (`compression/`, `image/`) | bit cursors, code tables, window | inflate, huffman_populate, decode | heap | code lengths at their limits, overlapping copies in the window | prefix-free codes, window in range |
| Binary serialisation (`data/serialize/`) | schema, cursor | serialise, scan | buffers | schemas that disagree with the data | reading inverts writing |
| Shell and console (`shell/`, `utils/console.cpp`) | lines, history, cursor | edit, run, scroll | files, ring buffers, drawing | scrolling with wrapped rows | the screen shows the last lines |
| Drawing, fonts, UI, audio, math | pixels, samples, glyph cache | render | cache, heap | arithmetic | not stated here |
| System calls, build (`syscalls/`, `redbuild.h`) | none | stubs, compiling | kernel | none that spans calls | not stated here |

The hazards these parts are exposed to are listed in `PROJECT.json`, each at
the line where it bites and with the properties that would catch it.

## Modules

| Module | Role |
|---|---|
| `Heap` | abstract: extents of clients that never overlap |
| `Allocator` | `allocate.c` and `page_index.c`; implements `Heap` |
| `AllocatorProofs` | proofs about `Allocator` for all values of its constants |
| `GC`, `GCProofs` | `gc.c` with its client, and the proofs |
| `Fifo` | abstract: a bounded queue |
| `CQueue`, `Ring` | `queue.c` and both ring buffers; each implements `Fifo` |
| `Dict` | abstract: a map from keys to values |
| `HashTable` | `hashmap.c` as operators on a map |
| `HashMap` | the map and its clients; implements `Dict` |
| `HashTableProofs` | proofs about the operators and about a map by itself |
| `Cache` | `cache.h`, over the operators of `HashTable` |
| `ContainersProofs` | proofs about the queues, the map and the cache, over `HashTableProofs`, and about the lists and the chunked array |
| `Text` | abstract: a text with a cursor |
| `Buffer`, `BufferProofs` | `buffer.c`; implements `Text`; and the proofs |
| `Tree`, `TreeProofs` | `bt_tree.c` and `rb_tree.c`, and the proofs |
| `Sequence` | abstract: a sequence edited at places |
| `LinkedList`, `DoubleList`, `ChunkArray` | `linked_list.c`, `double_linked_list.c`, `chunk_array.c` with `stack.h`; each implements `Sequence` |
| `Router` | `parse_path` of `router.h`, as operators |
| `StackFs`, `Vfs` | `stack_fs.h` and the entries and aliases of `vfs.h`; both resolve paths with `Router` |
| `Mounts` | which module serves which mount point, `module_loader.c` |
| `FilesProofs` | proofs about these three |
| `Tokenizer` | `scanner.c`, `tokenizer.c`, `token_stream.c` and the numerals of `token_utils.c`, as operators on texts |
| `Tokens` | a client that reads the tokens of a text |
| `Json` | `json.c`: parsing, writing, building, copying and freeing, and its clients |
| `Formats` | the readers of URLs, user information, query strings, percent codes, CSV and TOML |
| `MemMove` | memcpy and memmove of `memory.c`, step by step |
| `MemWords` | memset, memset32, memreverse, memcmp and memmem |
| `MemMoveProofs` | proofs about these two |
| `Inflate` | `deflate.c` and `huffman_populate`: a stream in one or two parts |
| `Huffman` | `p_queue.c` with its clients, and the codes `huffman.c` builds with it |
| `Regex` | `regex.c`: a pattern as nodes, and the search |
| `StringFormat` | `string_format` and the parsers of numbers of `string.c` |
| `Serial` | `binary_serial.c` and `binary_scanner.c` |
| `MC*` | the values TLC runs with, the symmetries and views; `MCContainers`, `MCFiles`, `MCText` and `MCCodes` hold several modules, one of which runs in a behaviour, and `MCCodes` holds `MCText` |

### Heap

Sizes and offsets are in units of 16 bytes, to which the code rounds every size
first: the page header takes two, the word before a block one, a free block's
own fields one. A page holds `used`, `free_mem` and the free blocks; the set of
free blocks says all that the list does, since `release` inserts by address.
The model adds what the code does not keep: the blocks in use (`live`, read
from the header words in the code) and what the last writer left in each unit
(`mem`: zeros, a client's data, or junk). `page_alloc` gives any page nobody
holds, or nothing. A block of whole pages takes one element of `Pages`,
whatever its length, and its contents are not followed.

Each operator that stands for a function returns the set of its results,
because `page_alloc` may fail at every call of it. The loops of `release` are
modelled by where they stop (`RunEnd`, `RunStart`), which is what the chains of
joins come to on an address-ordered list. The messages about corrupted lists in
`allocate` and `release` are left out: given `TypeOK` and `Tiled`, which are
proved, none of their conditions can hold. Clients use the interface as they
must: they release and resize only what they hold. `release_page_all`, chains
other than zalloc's, and `alloc()` of `alloc.h` are not modelled.

### Collector

`Run`, `RunNext` and `Collect` are the calls `gc_run` and `gc_run_next` (which
scans a gray object, or releases the white ones). The lists are sets: the order
in which objects are popped is left open. `New`, `Store` and `Clear` are the
client. `Adjacent` says which blocks lie right behind which, because
`gc_run_next_node` does not count a pointer to the block behind (see Findings).
`Stale` is the other effect of that size: the scan takes in 16 bytes behind the
payload, which are the header of the next block. Its first word is a size and
never an address; its second one is not used and keeps what was there, which is
zero, the poison of `release`, or a link of the list of free blocks
(`allocate.c:87` leaves it in place), an address at which a block may have been
handed out since. `Scan` finds that block or not, so that a block may be
retained for no reason. `garbage` and `moved` are history: what nothing led to
when the cycle began, neither a pointer nor such a word (`Suspect`), and whether
the client has since stored a pointer and then overwritten one.
`linked_list_remove(gc_gray, node)` in `gc_run_next_node` is given an object
where a list node is meant and does nothing; `gc_run_next` has popped the
object already. Only one root is modelled, and no blocks of whole pages, which
have no header for the scan to read.

### Queues

`CQueue` keeps the fields of the struct, with `max_capacity` chosen initially
from `Limits`, and lets every request for memory fail. `Ring` covers the C ring
(push, pop, clear) and the template, which adds `push_buf` and `pop_buf`; their
single operations are the same code. `offered` and `out` hold the argument and
the result of the last call, so that the refinement of `Fifo` speaks of what
clients see.

### Hash map and cache

A bucket is the set of its entries: no key is there twice, which is proved, so
that their order in the chain decides nothing. `Capacities` are the sizes of
tables, powers of two from 8 on, of which the greatest is a bound of the model.
`Hash` stands for `hash_fn`; that equal keys are equal byte by byte is left to the keys' identity.
`hash_map_put` has one result for each request that may fail, and the table
that grew stays grown. `hash_map_empty` is not modelled: it releases all
entries and leaves the buckets pointing at them, so that no call is defined
after it; nothing in the repository calls it. `Cache` keeps which blocks are
allocated and what their entries say. A block that is removed is never
released by anybody, which the model shows as live blocks no key leads to.
Cleanup reads the clock once in the model, and per entry in the code. A cache
whose map could not be created is not modelled.

### Buffers

`Buffer` keeps the fields of the struct; `data` is the block, so that the limit
is its length. The contents are followed byte by byte, since what the
properties are about is which bytes a write, a shift or a reset puts where.
`Cuts` is what `string_format_va_buf` leaves of a text there is no room for;
what a format makes of its arguments is left open: any text may come of a
format of any length. `Slack` stands for the 256 bytes of `buffer_write_va`,
whose unsigned comparisons are kept with their wrap-around.

A static buffer is promised to be written from its start wherever its cursor
is, and `Text` says so. The code keeps that only while the cursor is there:
`buffer_write_to` and `buffer_seek` move it, and the next write starts where it
is (see Findings). `MovesStatic` says whether clients call these two on static
buffers; the refinement is checked and proved for those that do not.

In other buffers a write is defined at the end of the text. Elsewhere
`buffer_write_lim` overwrites and yet adds to the size, so that nobody can tell
what the text is, and the size may pass the limit. No comment says what that
should do: `lost` records it, `Text` has a step for it (`Stray`), and the model
then follows the buffer no further than a wipe. Clients give
`buffer_write_to`, `buffer_delete` and `buffer_read` places inside the text.
Every block that is asked for is had.

### Trees

`tree` holds the struct and the fields of every node; `Nodes` are the blocks
nodes are made of, one of which an insertion takes. A removed node belongs to
the client, who may keep it; the model forgets it (`Clean`). `Rotate` and the
cases of `Mend` stand for both sides at once. The loops of the code are
functions of the number of rounds, as many as there are nodes: a way that goes
on from node to node (`Way`) has then ended, and once round more changes
nothing, which the proofs show. `rb_tree_swap_balance` changes
nothing. `Traversal` calls `bt_tree_next` to the end, on a tree that does not
change meanwhile. `bt_tree_update` is modelled as it is: on a node with two
children it inserts what the node holds after the removal, the successor's
data. `twice` and `pruned` are history: whether two nodes have had the same
key at a time, whether a node was taken out.

### Lists

`list` is the struct with the fields of every node, or the sequence of chunks.
`out` holds what the last call was asked, at which place, and what it gave
back, so that `Sequence` can tell whether the call worked there. A freed node
keeps nothing. The clients of `cdouble_linked_list` name nodes they hold;
`linked_list_remove` is also given nodes that are not in the list. Requests for
nodes fail in the doubly linked list, whose code looks: an insertion then does
nothing, a clone leaves the element out. Elsewhere they do not, since the code
uses the null pointer.

Three things follow the code and not its names. `insert_before` the head of the
doubly linked list inserts after the tail, and the new node becomes the tail.
`linked_list_sort` gives the opposite of the order of `less`: a node goes in
front of the first one it is not less than. `chunk_array_push` returns the
place in the whole array, and `chunk_array_remove` takes from the end of the
last chunks and leaves the chunks in place. `chunk_array_get` compares the
index with the capacity of a chunk but subtracts its count, which differ only
in the last chunk that holds anything. `chunk_array_test` asserts after twenty
pushes into chunks of ten that there is no second chunk; the code makes one, as
the count of twenty that the test asks for next needs.

### File systems

A path, and the name of an entry, is the sequence of its components; how a
string is split into them is left out (a path that ends in a slash keeps it in
its last component, which then matches nothing). `Router` has the three
policies of `parse_path`: an entry's name goes with a path to the end of both,
or for one component more than the path (`partial`, and always for the empty
path), or less (`forward`). With `forward` the first alias that is found wins,
otherwise the last entry that is.

`StackFs` keeps the sizes of its files, what texts hold being the business of
`Buffer`. Its four entries never change. `Counted` is what the code does twice,
on opening and on asking for type and size; `emit_route_contents` is what one
entry adds to a listing. Listing a file lists that file's name or its siblings,
as in the code. A read does not move the cursor, which is the kernel's to do;
`Seek` is the library's.

`Vfs` has entries that hold a text and aliases of a path outside. The kernel's
`openf`, `readf`, `writef` and `closef` are external: `openf` may fail, and
the others work on the descriptor they are given, which the entry keeps
(`alias_fd`) and every client of the alias shares. Entries are found again by
the hash of their names, so that two entries of one name are one to every
descriptor; `make_menu_entry` of `utils/menu.h` hashes the last component only,
which makes that easy. `asked` is history: the file a client opened, until
somebody else opens, uses or closes a descriptor on the same alias.

`Mounts` has one map from mount points to modules and one of reservations. Both
are hash maps that may be refused the memory for a new key, which neither
function notices. `live` (initialised and not finished since)
and `barred` (reserved while free) are history.

Not modelled: entries with actions of their own; stat, transform and listing of
`vfs.h`; the parameter of `readdir` at which a listing is resumed, and a block
that runs out of room; `stackfs_open_root` and the functions around it;
`folderfs.h`; finding and listing modules; `references`, which is counted up
and never read.

### Text

A text is a TLA+ string and a place in it counts from 1. A tokenizer that failed
stays there, which place 0 stands for. A token keeps its kind, its text, where
it begins and where the next one is looked for; the token of a line break is
the exception to the first, since the code notes the place behind it. Every
`ts_expect` function takes the token it does not want, so that on the stream
they are `ts_next`. Left out: rules for identifiers that a client supplies (none
does), and `skip_type_check`.

`Json` has a record for the memory of a call: how many requests are had before
one is refused, and how many blocks are out. Each operator gives the error, or
the value and the stream behind it, and the memory after it. Only requests of
`json.c` itself are refused, and strings are always had, since the string
library does not look. A document's blocks are those `json_free` releases. A
double is kept as its numeral, so that arithmetic is left out; an integer stays
within 64 bits; the escape `\b` is left out. Clients parse when they have no
other documents, which loses nothing, as a parse touches none. `spilled` is history: a copy went on
without a block; the model follows one such copy in a behaviour. `taken` and
`wanted` are history too: what a client of the stream was given, and whether
the kind it expected made a difference.

`Formats` gives the readers texts that a client has put together from parts,
and texts that are in no form. Four things follow the code and not the names:
what follows the bracket that closes a host is ignored unless it begins with a
colon; a line of TOML without an equals sign swallows the key of the next line;
names of TOML tables are passed over; and an array that is not closed gives no
entry, while its key's string is never released (`toml.c:28`).

The tokenizer takes `.f` and `.e5` for numbers. It reads a minus as part of the
number behind it, for which `parse_double_literal` has no use; `json.c` looks for
a minus of its own, so that `- -5` is 5 and `-1.5` no document. `0x10` is a
number of which `parse_int64` reads the 0.

### Memory, patterns and codes

`MemMove` and `MemWords` have one step for one round of a loop, so that a loop
that is left too early, entered unaligned or goes the wrong way shows. A word
that is read is read before anything of it is written, but where the code reads
one word ahead (`lo`) the model keeps what it read. The sizes of words and of
batches are constants, since what matters is that one divides the other. Only
clients of memcpy whose memory is apart, or the same, are modelled, as C has
it; the one that is not is in `Inflate`.

`Inflate` reads bits from a stream, through `bs` and `c` of the code as one
position. A tree is the set of ways to its nodes: `huffman_populate` adds one
way for each symbol. `Symbol` follows it and finds a symbol, no node, or the
end. `stream` also holds what its writer meant; `MCCodes` writes its bits as
another program would, and shares no definition with the decoder. A reference that reaches into what it
writes is copied with memcpy, which is not defined: as memcpy is written, the
bytes come out as a run where it goes byte by byte, and may be older ones where
words are put together (`Unknown`). Blocks with fixed codes lead nowhere (see
the hazards in `PROJECT.json`), and the model stops (`lost`).

`Huffman` keeps the fields of the queue with the remembered place. Insertion
compares with the least value remembered, and removal finds it anew. `p_queue_peek`
compares with an uninitialised variable, so that it answers the first place of the least value or, when
that variable holds less, the first place of all; nothing calls it.

`Regex` keeps the nodes with their relative next ones, and what the two loops
keep from round to round. A pattern is given as it is written and as a sequence
of parts, from which `Sound` and `Complete` take what it means. Three things
follow the code: a dot matches nothing (see Findings), the last node of a
pattern has no next one, and a class links the first nodes of the pattern
rather than its own (`regex.c:112-121`), so that a class is only modelled at the
beginning. A pattern that begins with a group, a repetition or an option of
nothing reads a node that is not there.

`StringFormat` keeps texts as sequences of characters, since what the cut
leaves of them is the question, and integers at a width of `Bits`. Floating
point, pointers and the two forms that print slices of memory are left out.
Four things follow the code: `#` takes the prefix of a hexadecimal or binary
number away, a minus pads both sides, a directive with a star for both its width
and its precision takes the precision from the arguments first (`string.c:381`,
`404`), against the order of C, and a text that is cut exactly between two
directives has no marker. The digits of a decimal number are kept in an
array of a block that has ended when they are used (`string.c:517`, `543`);
the model takes it that nothing else is put there, as in the builds the
library is made for.

`Serial` has bytes that say which part of which number they are, so that a
record that is read with another field order, or from the middle, shows.
A field without a type or without a name leaves no structure. `Copied` follows
the code in stepping from the first chunk of the stack to the
second again and again (`binary_serial.c:46`).

## Runs

| Run | Question | Bounds |
|---|---|---|
| `alloc_layout` | do splitting, joining, trimming, growing and moving keep every page right? | two pages of five usable units, requests of 0, 1 and 2: room for four blocks with holes of different sizes between them, and a second page to move to and to drop |
| `alloc_pages` | does every page serve one purpose, and do clients see a heap? | five pages of two usable units, requests that fit a page and one that does not, one entry per index page: a chain of three, an index that overflows, and memory out at every point |
| `gc_cycle` | what may a cycle release? | four objects: root, a chain of two, and one to move between them, which the header behind either of the others may name |
| `gc_neighbours` | the same with two objects side by side; expected to fail | three objects |
| `containers` | are the queues queues, is the map a dictionary with short chains, are cached blocks live and gone on time, are the lists sequences? | queues: growth from 0 to 4 to 8 with up to 6 elements, wrapped in every way; a fixed queue of 3; a ring of four slots with batches of up to three: every position of the ends, every split of a copy. Map: seven keys, the fewest that make the smallest table grow; three share a bucket before it grows, two after. Cache: two keys in one bucket, three blocks, times 0 to 4 with a length of 2, all policies. Lists: five nodes and three values, or three chunks of two: sorting past equal values in the middle, removals at both ends and between, indexes into every chunk |
| `trees` | is every entry of a tree found and walked over, and what stays balanced? | five nodes, the fewest for a recolouring that moves on to a rotation's level; five keys, one of which (`Repeated`) nodes may share; two data |
| `buffer` | do clients see a text? | blocks of two bytes that grow to four (`MaxLimit`), texts of one to three, a slack of one: texts that fit, miss by one, and never fit; six sets of options, growing and circular at once among them |
| `buffer_static` | does a write to a static buffer start at its beginning?; expected to fail | static buffers of two bytes, which clients also insert into and seek in |
| `files` | do descriptors keep meaning their file, can what is listed be opened, does a reservation hold? | two clients; two entries of three names (a parent, its child, another), five paths at, below and beside them, two opens in the kernel; up to three files in the stack; three modules, two of which share a mount point, and owners 0 to 2 |
| `codes` | do the algorithms without state between calls give what their results are defined as, and do searches end? Are tokens read in order and as long as they can be, do documents survive writing, copying and running out of memory, are the parts of a text found again? | memory of 18 bytes with words of 3 and 6, so that every loop and batch runs, at every alignment, distance and overlap; streams of one or two blocks, whole or cut in two, with references of every shape; queues of up to 5 with values that repeat; patterns of up to eight parts and groups three deep over four letters, and every text of up to four; every flag and length of one directive, its width and precision in the format or among the arguments, pairs of directives in buffers of 0 to 9, integers of 4 to 16 bits; structures of up to four fields in chunks of two, records whose bytes end anywhere; texts of three or four words over alphabets that hold what each rule looks at, under every setting of comments and line breaks that changes them; documents of up to six blocks beside a second one, with keys and strings that need escapes, and request 1, 2, 3 or 5 refused, or none; parts of texts that hold the marks of other parts |
| `regex_syntax` | is the documented syntax matched?; expected to fail | patterns with a dot |
| `routes` | is what is left of a path forwarded?; expected to fail | as `files` |

Every run leaves deadlock checking on but those of `MCCodes`, since a text and
a call end. Symmetries permute pages, blocks, keys or values, which no
definition tells apart. The view of `trees` has of a tree its shape and
contents, and that of `containers` of a list its contents, its length and where
its links go: which block a node is made of no definition tells apart. These
and the one of `files` leave out the answer of the last call, on which no step depends; the properties
are evaluated on every step all the same, also those that lead to a state whose
view is known.

`alloc_layout` checks `TypeOK`, `Tiled`, `UsedIsExact`, `Merged` and, on steps,
`ContentsKept` (no request changes another block, a new one is all zeros, a
moved one keeps its contents and is clear after them). `alloc_pages` checks
`PagesAccounted` and that the allocator implements `Heap`. `gc_cycle` checks
`OneColour`, `ReleasedUnused` and `GarbageGoes`. The queues, the lists and the
map check that they implement their abstract specification. The `TypeOK` of
`containers` says that the ends, slots and lengths of each queue agree, and of a
map that every entry is under its hash, once, that the size is exact and never
above three quarters of the buckets, and of a list that links, ends and lengths
agree; that of `trees` that parents and children do. The cache checks `Linked`
and `OnTime`. The buffer checks that it implements
`Text`, and `FormattedWhole`, which `Text` leaves open: a buffer that can grow
does not cut a formatted text. Trees check `Findable`, `Walkable` (both
directions, and the count), `RedBlack` (the conditions of `rb_tree_test`) and,
on steps, `EntriesKept`. `files` checks `FilesOK` (a descriptor leads to a file
that exists and remembers no more than it holds), `ListedOpens` (listing,
opening and stating of the stack file system agree, and each file has one name
in each order), `MountsHold` and, on steps, `DescriptorsKeep`: a client's read
or write is on the file it opened and goes on where its descriptor left off.
Of texts `codes` checks `InOrder` (every token once and in order, however far a client
looks ahead, nothing that is passed over holds a token, and each is as long as
a description of the kinds of tokens has it that does not read from left to
right), `Owned` (blocks that are allocated are those of the documents),
`Reproduced` (a document is parsed from what it is written as, with and without
line breaks, and copied) and `ReadBack` (every part of a text is found again,
and what breaks the form is refused).

Of the other algorithms `codes` compares each algorithm with a definition of its result that has no
loop: `MovedOnly` (the destination holds what the source held, all else is as
it was), `Served` (the memory and the answers of the other memory functions),
`Inflated` (a stream gives what its writer put in), `Optimal` (the queue serves
the least, first come of equals, and codes built with it are prefix-free and as
short as any tree of merges makes them), `Searched` (a reported match and its
groups are among the ways to read the text by the pattern, and nothing is
missed), `ReadBack` (a formatted text is whole, or cut to fit with the marker;
it is as wide as asked; a number that was written is read back; records are
read as they were written as far as the bytes go) and `Halts`.

`Halts` is the one liveness property: a search ends. Its fairness is weak
fairness of the steps of a search: `regex_find_many` is one call, whose loop
runs on its caller's thread and waits for nothing, so that no step of it is
enabled for good and never taken. Everything else is without fairness: the
library does nothing on its own, and no caller is bound to call again.

## What holds only on a condition

- `ReleasedUnused`: the collector has no write barrier. A pointer that is
  stored in a scanned object and afterwards overwritten in an unscanned one
  hides its object, which is then released although it is in reach. The
  property excludes cycles in which a store was followed by an overwrite; it
  includes all others, in particular allocation in the middle of a cycle.
- `GarbageGoes`: for blocks that no word behind a scanned block leads to. One
  that such a word leads to may be retained, for as long as the word stays.
- `Linked` and `OnTime`: an overwrite that runs out of memory leaves the
  released block in the map. `orphaned` records it, and nothing is promised
  afterwards.
- `ImplementsText` and `TypeOK` of `Buffer`: while nothing was written away
  from the end of the text. In buffers that are not static only `buffer_seek`
  takes the cursor there, and nothing in the repository calls it.
- `ImplementsText`: for clients that neither insert nor seek in static buffers
  (`MovesStatic`). In the repository `buffer_write_to` is called by `vfs.h:224`
  and `stack_fs.h:57` and `65`, on buffers that grow or are read-only.
- `FormattedWhole`: while the slack is left ahead of the cursor, as it is on a
  buffer created with more than 256 bytes that is not written past that by
  `buffer_write_const`. With less, the subtraction wraps, the buffer does not
  grow, and the text is cut.
- `Walkable`: backwards only while no two nodes ever had the same key, forwards
  also then in a plain tree. The walk climbs by comparing keys, so that a
  parent with an equal key is passed by. `Findable` holds with equal keys too.
- `RedBlack`: while nothing was removed, since removal does not restore the
  colours, and with at least two nodes: the first node of a tree is never
  balanced and stays red, where `rb_tree_test` asks for a black root.
- `DescriptorsKeep`: on an alias, while no other client opens, uses or closes a
  descriptor on it, since they all share the kernel's; and while no two entries
  have the same name.
- `MountsHold`: for mount points that were reserved while free, by an owner
  other than 0. Owner 0 is stored as the null pointer, which the map does not
  tell from nothing. A reservation of a mount point that is taken keeps the
  module that is there.

- `Reproduced`: the first half for documents without keys that need an escape
  (keys are written with escapes and read as they stand), without negative
  doubles (refused when they are read) and without whole ones (read as integers);
  the copy for objects without a key twice, which a parse allows and a copy
  merges.
- `Owned`: exactly while no copy went on without a block. `json_clone` does not
  look at what `json_array_push` and `json_obj_set` return, so that what they did
  not take belongs to nobody.
- `Complete` (in `Searched`): for patterns whose parts have no character in
  common and that end with a group or a class. A failure starts over behind the
  characters that were read and does not go back to try them again, so that
  `aab` is not found in `aaab`; and the last node of other patterns has no next
  node. `Halts`: for patterns that match at least one character, since the
  empty match is found again and again at one place.
- `Inflated`: for streams without fixed codes, without an empty stored block,
  without a length repeated after a run of zeros and without copies that memcpy
  may get wrong.
- `RecordsReadBack` (in `ReadBack`): for structures of up to two chunks of fields.
- `InOrder`: that the tokens are those of a plain reading, while no expected
  kind made a difference; that they do not overlap or leave one out, always.

## Findings

`gc_neighbours` refutes `ReleasedUnused` with no store during the cycle. Line
32 of `gc.c` skips a word that points into the scanned object itself, up to and
including `node + obj_size`; `obj_size` is the header's size, header included,
so that this address is the payload of the block right behind. An object held
only by its neighbour in front is never marked, and released by the function
that logs `Releasing unused object`.

`routes` refutes `Forwarded`: line 18 of `router.h` says of
`path_resolution_forward` that the remainder of a path goes into `forwarded`.
Line 67 goes on to the next entry before that happens unless the entry is an
alias, so that a plain entry is returned for any path below it and the rest of
the path is dropped. `vfs_open` then opens `a` when asked for `a/b`, which is
not there.

`regex_syntax` refutes `AnyMatches`: line 18 of `regex.h` documents the dot as
`match any character`. `init_regex_slice` marks the node of a dot as `any`, which
nothing reads; `regex_does_match` compares the character with its literal, which
is zero.

`buffer_static` refutes `StaticFromStart`: line 15 of `buffer.h` says of a static
buffer `Always read/write starting from 0, ignoring cursor`, and the test of
`buffer.c` (lines 208 and 211) asserts that its cursor stays at 0. A write by
`buffer_write_lim` does set it back, but starts at it (line 76), and both
`buffer_write_to` (line 102) and `buffer_seek` leave it elsewhere. The size is
then the length of what was written, so that a reader, who is given the buffer
from 0, finds other bytes.

## Proofs

What is proved holds for every value of the constants that the named
assumptions of the modules allow; TLC evaluates these in the runs. The proof
modules state one lemma per operator on a value (a page, a table, a record),
carry it to the state, have one lemma per action, and end with the theorems.

| Run | Proved for every instance | Only model-checked |
|---|---|---|
| `alloc_layout` | `TypeOK`, `Tiled`, `UsedIsExact`, `Merged`, `ContentsKept` | |
| `alloc_pages` | `PagesAccounted`, `ImplementsHeap` | |
| `gc_cycle` | `TypeOK`, `OneColour`, `ReleasedUnused`, `GarbageGoes` | |
| `containers` | `TypeOK`, `Linked`, `OnTime`, `ImplementsFifo`, `ImplementsDict`, `ImplementsSequence` | |
| `trees` | `TypeOK`, `Findable`, `Walkable`, `RedBlack`, `EntriesKept` | |
| `buffer` | `TypeOK`, `FormattedWhole`, `ImplementsText` | |
| `files` | `FilesOK`, `MountsHold`, `DescriptorsKeep` | `ListedOpens` |
| `codes` | `Moved` of `MovedOnly`, `Served` of `MemWords` | all others |

### Heap

`HeapIsOK` is the inductive invariant of `AllocatorProofs`, for every page size,
index limit, set of pages and set of requests: the type of every field; on
every page the blocks tile the part below `free_mem`, `used` is their sum, and
free space is merged (`PageOK`); a page is in the chain, an index page, lost or
a block, and only one of these (`OnePurpose`); every block of whole pages is
entered once, in an index page that has room (`Indexed`); pages off the chain
are as `page_alloc` gives them. These must be one invariant. That `used` is
exact needs tiling, to know that the cells a freed block gives back were counted
once; tiling needs merged free space, for the trim to recede to the start of one
free block; all of them need the types, for no block to cross the end of its
page; and a page may only be given back to the kernel because nothing else
holds it. `TypeCorrect`, `BlocksTile`, `CounterIsExact`, `FreeSpaceIsMerged` and
`PagesHaveOneUse` follow.

`RefinesHeap` maps every step to one of `Heap`: each operator either leaves the
extents of clients alone or adds or removes one, and an extent that is added
lies in cells that tiling gives to no other block.

`ContentsStay` is an action property, and needs of each operator what it does to
the contents of every live block: handing out clears the block and nothing
else, free blocks and headers are written in cells of no client, a block that
grows in place keeps its cells and gets clear ones behind them, and one that
moves is copied to a block that was cleared when it was handed out.

### Collector

`GCProofs` proves for every set of objects:

- `TypeCorrect` and `ListsPartition` (`OneColour`), inductive together with the
  fact that only the root may be in no list;
- `GarbageIsReleased` (`GarbageGoes`): what nothing led to when the cycle began,
  words behind scanned blocks included, stays out of reach and out of gray and
  black, since a step scans only blocks that something led to;
- `InUseIsKept` (`ReleasedUnused`), under the assumption that no object lies
  right behind another: the tri-colour argument. As long as nothing was
  stored, no scanned object points to a white one (`Strong`). A store may put
  a white object into a scanned one; until something is overwritten, whatever
  is in reach can still be reached from the scanned and gray objects along
  gray and white ones only (`Weak`), because the pointer it was read from is
  still there. When gray is empty, either says that no white object is in
  reach.

### Queues, map and cache

`ContainersProofs` proves all that the run `containers` checks, from an
invariant with a part for each kind. The contents of a queue and of a ring are
both a lap: so many slots of an array from a place on, around its end. Pushing,
popping, copying in two segments and moving a wrapped array to a larger one are
lemmas about laps; `QueueOK` and `RingOK` say where the ends are, and that a
ring whose ends are the same is full or empty as its flag says.

`HashTableProofs` proves of the operators that a table stays good (`Good`:
every entry is under its hash, no key twice, finitely many entries, as many as
`size` says, no more than the threshold) and that each is an operation of the
dictionary the table holds. Growing sends an entry of bucket i to i or to i +
capacity, so that the new buckets are disjoint and together have the same
entries; the proof needs that capacities are doubled and nothing else
(`CapacityAssumption`). `MapIsDictionary` follows for the map by itself, and in
`ContainersProofs` for the map in the run.

The invariant of the cache (`CInv`) says that as long as no overwrite ran out of
memory, different keys have different blocks, which are allocated, and the entry
of a key's block says what the policies want of the time since when the key is
timed (`Owned`, `IsTimed`). `Linked` and `OnTime` follow; neither is inductive by
itself, as a block may be released under one key and handed out under another.

### Lists and chunks

`ListsAreSequences` says that both lists and the array implement `Sequence`, for
any nodes, any data and any size and number of chunks. The inductive invariant
of a list is that there is a sequence of nodes, each once, that its links run
through: `next` alone for the singly linked list, from the head to no node
(`SLinked`); `next` and `prev` in a circle that closes between the tail and the
head (`DLinked`). `InOrder`, which walks the links, is then that sequence, so
that every operation comes to what it does to the sequence: put a node in at a
place (`SInserted`, `DInserted`) or take one out (`SRemoved`, `DRemoved`).
`linked_list_sort` needs an invariant of its own over the rounds of its loop
(`SortedTo`): the nodes are a rearrangement of those it began with, those up to
`current` are in order, and those behind it are as they were. A clone
agrees, after each element, with what is kept of the sequence so far.

Of the array the invariant is that chunks before the last one that holds
anything are full (`Chunked`). What is in the chunks from each one on is one
sequence, of which `chunk_array_get`, `push`, `remove` and `find` are each shown to
do their part from that chunk on, which carries from the last chunk to the
first. This is where fullness is needed: an index is compared with the
capacity of a chunk and made relative by its count, which differ only behind
everything that is held.

These proofs are by induction on numbers, rounds of a loop or places of
chunks, which the library states for an operator. They take the set of numbers
where the claim fails instead, and its least element (`LeastNumber`,
`Rounds`, `Upward`).

### Trees

`TreeProofs` proves what `trees` checks, for any nodes, keys and data. Its
inductive invariant `IInv` has these parts (`Sound`):

- `Shaped`: the nodes that are met from the root are linked both ways, and
  there is a height that falls from each node to its children, so that ways up
  and down end;
- `Sorted`: each node has a range of keys, the root all of them, which its key
  splits into those of its children. In a plain tree, equal keys are to the
  right; after a rotation they may be on either side;
- `Placed`: the nodes have places, numbers that are in order from left to right
  in every subtree. They say what a walk has to visit, whatever the keys are;
- `Distinct`, while no key came twice, and `Counted`: the count is the number of
  nodes. It is an invariant only where the walk that counts goes right, which
  is why `Walkable` and it need each other: a removal counts by walking;
- `Painting`, while nothing was removed from a balanced tree: no two reds one
  above the other, a number of black nodes below each node that both its
  children agree on, and a red root only if it is alone.

`Findable` follows from `Sorted`: at a node with another key, all nodes with the
key that is looked for are on the side the search takes. `Walkable` follows from `Placed`: the keys tell, in the cases it is
stated for, whether the way up has come from the left or the right, so that a
climb ends at the node in the next place. For `RedBlack` the loop of
`rb_tree_balance` has an invariant (`Mid`): the trees between rounds are right but
for a red node at `node` whose parent may be red too. A round recolours and
goes two levels up, or rotates and ends. `EntriesAreKept` comes of what every
operation does to the keys and data of each node.

### Buffers

`BufferOK` adds to the types that what cannot be written cannot be lost: a
read-only buffer keeps its text, and that the cursor of a static one is at 0
where clients do not move it. `RefinesText`, under that assumption (`~MovesStatic`),
compares byte by byte what each
write, shift, wipe and reset leaves with what `Text` promises, over every way a
block grows and every split of a text that does not fit. `FormatsWhole` holds
for any slack and any formats, and it and `TypeCorrect` whatever clients do.

### File systems

`FilesProofs` holds for any clients, modules and bounds. `MountsOK` adds to
`MountsHold` who reserved what, since a mount point that nobody reserved would
be given away. `StackOK` adds the types: that a number in a path is that of a
file there is comes from how the path was matched. `VfsOK` says that every
descriptor leads to an entry, no further than its text, and that the entry
knows what the client asked for: it is the text of that path, or its
descriptor of the kernel's was opened for that path and is where the client is.
When clients open, use and close descriptors on one alias, `asked` forgets
those that were overtaken, which is what keeps this inductive. If two entries
have one name the last part says nothing, as descriptors find the first.

### Memory

`MemMoveProofs` proves for any memory, any widths of words and any sizes of
batches:

- `LoopsAgree`: in every loop the bytes that were moved, the bytes to go, both
  pointers and the word read ahead agree with the call;
- `MovesSource` (`Moved`, which `MovedOnly` checks with it): at the end the
  destination holds what the source held. The invariant says that upwards
  everything below the pointers has moved and everything of the source above
  them is as it was, which needs that the destination lies below the source
  wherever they overlap; downwards the other way around; and that the word that
  is kept holds bytes of the source as it was when the call was made;
- `WordsAreServed` (`Served`): memset, memset32, memreverse, memcmp and memmem do
  and answer what their definitions byte by byte say, for any questions that
  `IsQuestion` admits, of which `MCCodes` asks some. The invariant `WordsOK` has
  one part for each kind. A fill has written what lies before its pointer, and
  its value has turned as far as the pointer is from the start, which is what
  `TurnsAdd` is for: a byte of the value turned twice is that of one turn by the
  sum. A reversal has turned around what lies outside its two pointers, whose
  sum stays the same. A comparison has found no difference in what it passed,
  so the first in a word is the first of all. A search has passed no place of
  the needle: `StrideIsSafe` shows that a place that is skipped would put a copy
  of the window's last byte into the needle further back than the last.

### Only model-checked

`ListedOpens` compares names that `ToString` makes of numbers, which the provers
know nothing about. What `codes` checks besides `Moved` and `Served` rests on recursive operators (`Tokenizer`, `Json`, `Formats`,
`Huffman`, `Regex`, `StringFormat`) or on inputs that `MCText` and
`MCCodes` enumerate, and most of it would need induction over texts. `Halts` is
a liveness property, which is out of the proof system's reach.

## Plan

1. The rest of the file systems: listings that are resumed at an offset or run
   out of room (`dir_list_fill`, `current_offset`), stat and listing of aliases,
   `folderfs`, entries with actions of their own, finding modules.
2. The rest of strings: slices, searching and splitting, floating point, and
   the functions of the scanner that the tokenizer does not use.
3. Patterns that begin with a group or match nothing, and classes in the middle
   of a pattern.
4. Console and shell (`Console`): the ring of lines, the line that is edited.
5. Shell helpers and `package_info`, over `Formats`.
6. Proofs: the queue of `Huffman` and the copies of `Inflate`, written as
   functions of the number of rounds as the lists and trees are.

The runs are kept to one per question; where two modules answer the same one
they share a run, as the queues with the map, the cache and the lists, the file
systems, and the algorithms with the texts. New
parts join the run whose question they share: strings `codes`, the console
`containers`.
