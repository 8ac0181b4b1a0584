--------------------------- MODULE DispatcherQuery --------------------------
(***************************************************************************)
(* dispatcher::q6Dispatcher (include/dispatcher/kernelTestGraph.h): Q6 as a*)
(* graph of OpenCL kernels (include/dispatcher/kernels/mapper) that work on*)
(* named buffers of a device.  The host queues them as in GraphDispatch,   *)
(* with the local size that executeGraphinDevice chooses; OpenCL (up to    *)
(* 1.2, and later for kernels that are built without -cl-std=CL2.0, as     *)
(* these) refuses a kernel if it does not divide the number of work items. *)
(* Other reasons for a failure are in GraphDispatch.  All work items of a  *)
(* kernel are one step.                                                    *)
(*                                                                         *)
(* A word of a bitmap is the set of its bits.                              *)
(***************************************************************************)
EXTENDS Relational

CONSTANTS
  vectorSize,   \* bits of a word of a bitmap, and rows of a block: 32
  UIntBits,     \* bits of an unsigned int: 32
  SevenItems,   \* the number of work items that get a local size of 7: 18767
  Garbage       \* see GraphDispatch

VARIABLES
  sizes,      \* the rows of lineitem
  buffers,    \* data_dictionary: what the buffers with these names hold
  answer,     \* what q6Dispatcher() returns
  device      \* "idle", "run" or "done"

VARIABLES   \* the graph, the host and the commands of the device: see GraphDispatch
  edges, make_order, err, iv, prevTime, relatedEvents, returnedEvents, evt, command, waits, pc

Graph == INSTANCE GraphDispatch WITH N <- 9

graphVars == <<edges, make_order, err, iv, prevTime, relatedEvents, returnedEvents, evt,
               command, waits, pc>>
dispatcherVars == <<sizes, buffers, answer, device, graphVars>>

UInt(x) == x % 2^UIntBits

\* The kernels of connectingKernelsWithBuffes(), with the work items of each.
Kernel(name, arguments, parameters, globalSize) ==
  [name |-> name, arguments |-> arguments, parameters |-> parameters, globalSize |-> globalSize]

kernelArr ==
  LET words == sizes \div vectorSize
      blocks == sizes \div (vectorSize * vectorSize)
  IN  << Kernel("selection_between_block", <<"shipdate", "selection1Result">>,
                <<19940101, 19950101>>, words),
         Kernel("selection_less_than_block", <<"quantity", "selection2Result">>, <<2400>>, words),
         Kernel("selection_between_block", <<"discount", "selection3Result">>, <<500, 700>>, words),
         Kernel("logical_block", <<"selection1Result", "selection2Result", "logicalResult">>,
                <<>>, blocks),
         Kernel("logical_block", <<"logicalResult", "selection3Result", "logical2Result">>,
                <<>>, blocks),
         Kernel("materialize_block", <<"discount", "logical2Result", "materialize1Result">>,
                <<>>, blocks),
         Kernel("materialize_block", <<"extended", "logical2Result", "materialize2Result">>,
                <<>>, blocks),
         Kernel("arithmetic_block",
                <<"materialize1Result", "materialize2Result", "arithmeticResult">>, <<>>, blocks),
         Kernel("aggregate_block", <<"arithmeticResult", "aggregateResult">>, <<>>, blocks) >>


\* The edges of q6Dispatcher(); vertex v is the kernel kernelArr[v].
kernelGraph ==
  {<<0, 3>>, <<1, 3>>, <<2, 4>>, <<3, 4>>, <<4, 5>>, <<4, 6>>, <<5, 7>>, <<6, 7>>, <<7, 8>>}

KernelOf(v) == kernelArr[v + 1]

localSize(globalSize) == IF globalSize = SevenItems THEN 7 ELSE 2

\* A name that the device has already keeps its buffer.
add_data(dictionary, alias, data) ==
  IF alias \in DOMAIN dictionary THEN dictionary ELSE (alias :> data) @@ dictionary

\* initializedataBuffers(): the buffers of the results are filled with zeros.  The
\* columns are read as arrays of int, through data<int>(): a date is one, a number
\* is an int64_t, its lower word first, of which `size` words are half the column.
\* The buffer "discount" is filled with the quantities.
initializedataBuffers(lineitem) ==
  LET size == Len(lineitem)
      dates(a) == [r \in 0 .. size - 1 |-> lineitem[r + 1][a]]
      word(x, r) == IF r % 2 = 0 THEN UInt(x) ELSE x \div 2^UIntBits
      numbers(a) == [r \in 0 .. size - 1 |-> word(lineitem[r \div 2 + 1][a], r)]
      bitmap == [w \in 0 .. size \div vectorSize - 1 |-> {}]
      zeros(k) == [r \in 0 .. k - 1 |-> 0]
      blocks == zeros(size \div vectorSize)
  IN  << <<"shipdate", dates("l_shipdate")>>, <<"extended", numbers("l_extendedprice")>>,
         <<"selection1Result", bitmap>>, <<"quantity", numbers("l_quantity")>>,
         <<"selection2Result", bitmap>>, <<"discount", numbers("l_quantity")>>,
         <<"selection3Result", bitmap>>, <<"logicalResult", bitmap>>, <<"logical2Result", bitmap>>,
         <<"materialize1Result", blocks>>, <<"materialize2Result", blocks>>,
         <<"arithmeticResult", zeros(size)>>, <<"aggregateResult", zeros(1)>> >>

----------------------------------------------------------------------------
\* What the work items 0 .. globalSize - 1 of a kernel write: from the index of an
\* element of the last argument to its new value.
Items(k) == 0 .. k.globalSize - 1
RowsOfItems(k) == 0 .. vectorSize * k.globalSize - 1

BitsOf(k, rows) ==
  [g \in Items(k) |-> {i \in 0 .. vectorSize - 1 : vectorSize * g + i \in rows}]

selection_between_block(k) ==
  LET data == buffers[k.arguments[1]]
  IN  BitsOf(k, {r \in RowsOfItems(k) : k.parameters[1] <= data[r] /\ data[r] <= k.parameters[2]})

selection_less_than_block(k) ==
  LET data == buffers[k.arguments[1]]
  IN  BitsOf(k, {r \in RowsOfItems(k) : data[r] < k.parameters[1]})

logical_block(k) ==
  [g \in Items(k) |-> buffers[k.arguments[1]][g] \cap buffers[k.arguments[2]][g]]

materialize_block(k) ==
  [r \in RowsOfItems(k) |->
     IF r % vectorSize \in buffers[k.arguments[2]][r \div vectorSize]
     THEN buffers[k.arguments[1]][r] ELSE 0]

arithmetic_block(k) ==
  [g \in Items(k) |-> UInt(buffers[k.arguments[1]][g] * buffers[k.arguments[2]][g])]

\* atomic_add(&result[0], agg), of all work items.
aggregate_block(k) ==
  LET input == buffers[k.arguments[1]]
  IN  (0 :> UInt(buffers[k.arguments[2]][0] + MapThenSumSet(LAMBDA r : input[r], RowsOfItems(k))))

WrittenBy(k) ==
  CASE k.name = "selection_between_block" -> selection_between_block(k)
    [] k.name = "selection_less_than_block" -> selection_less_than_block(k)
    [] k.name = "logical_block" -> logical_block(k)
    [] k.name = "materialize_block" -> materialize_block(k)
    [] k.name = "arithmetic_block" -> arithmetic_block(k)
    [] k.name = "aggregate_block" -> aggregate_block(k)

----------------------------------------------------------------------------
\* The graph is as executeGraphinDevice finds it.  Every topological order of it
\* gives the same levels; and all writes of add_data have succeeded.
DispatcherInit ==
  /\ sizes = 0
  /\ buffers = <<>>
  /\ answer = 0
  /\ device = "idle"
  /\ edges = kernelGraph
  /\ make_order = [i \in 1 .. 9 |-> i - 1]
  /\ err = TRUE
  /\ iv = 0
  /\ prevTime = 0
  /\ relatedEvents = {}
  /\ returnedEvents = {}
  /\ evt = <<>>
  /\ command = [v \in Graph!Vertices |-> "none"]
  /\ waits = [v \in Graph!Vertices |-> {}]
  /\ pc = "queue"

StartDispatcher(db) ==
  /\ device = "idle"
  /\ sizes' = Len(db.lineitem)
  /\ buffers' = FoldLeft(LAMBDA b, new : add_data(b, new[1], new[2]), buffers,
                          initializedataBuffers(db.lineitem))
  /\ device' = "run"
  /\ UNCHANGED <<answer, graphVars>>

\* A kernel fails to be queued when its local size does not divide its work items, or
\* when a kernel of its wait list, which is relatedEvents from now on, has failed.
Refused(k, waitList) ==
  \/ k.globalSize % localSize(k.globalSize) # 0
  \/ Garbage \in waitList

QueueKernel ==
  /\ Graph!SameLevel \/ Graph!OtherLevel
  /\ command'[iv] = "failed" <=> Refused(KernelOf(iv), relatedEvents')
  /\ UNCHANGED buffers

CompleteKernel(v) ==
  /\ Graph!Complete(v)
  /\ buffers' = [buffers EXCEPT ![Last(KernelOf(v).arguments)] = WrittenBy(KernelOf(v)) @@ @]

\* executeGraphinDevice and the device.
ExecuteGraph ==
  /\ device = "run"
  /\ \/ QueueKernel
     \/ Graph!Finish /\ UNCHANGED buffers
     \/ Graph!Crash /\ UNCHANGED buffers
     \/ \E v \in Graph!Vertices : Graph!Run(v) /\ UNCHANGED buffers
     \/ \E v \in Graph!Vertices : CompleteKernel(v)
  /\ UNCHANGED <<sizes, answer, device>>

\* get_data("aggregateResult", ..., 1)
GetResult ==
  /\ device = "run"
  /\ pc = "returned"
  /\ answer' = buffers["aggregateResult"][0]
  /\ device' = "done"
  /\ UNCHANGED <<sizes, buffers, graphVars>>

DispatcherNext == ExecuteGraph \/ GetResult
=============================================================================
