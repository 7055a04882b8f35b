--------------------------- MODULE ProcessorState ---------------------------
(***************************************************************************)
(* The value kept by one ProcessorState object of the Envoy HTTP filter    *)
(* (src/envoy/http/golang/processor_state.{h,cc}) and its methods, each    *)
(* written as a function from the object before the call to the object     *)
(* after it.  A filter owns two of them: decoding_state_ for the request   *)
(* and encoding_state_ for the response.                                   *)
(*                                                                         *)
(* A message is a sequence of items: its headers, its body chunks, and     *)
(* either the end_stream mark, carried by the item before it, or trailers. *)
(***************************************************************************)
EXTENDS Naturals, Sequences

Dir == {"decode", "encode"}

Hdr      == <<"headers", 0>>
Chunk(i) == <<"data", i>>
End      == <<"end", 0>>
Trl      == <<"trailers", 0>>

Chunks == {"data"} \X Nat
Item   == {Hdr, End, Trl} \cup Chunks

\* The end_stream flag of a headers or data call, as an item.
EndIf(endStream) == IF endStream THEN <<End>> ELSE <<>>

FilterState == {"WaitingHeader", "ProcessingHeader", "WaitingData",
                "WaitingAllData", "ProcessingData", "WaitingTrailer",
                "ProcessingTrailer", "Done"}

GolangStatus == {"Running", "LocalReply", "Continue", "StopAndBuffer",
                 "StopAndBufferWatermark", "StopNoBuffer"}

\* What a call into Go is about, and the state kept while Go works on it.
Kind == {"headers", "data", "trailers"}

Processing(kind) == CASE kind = "headers"  -> "ProcessingHeader"
                      [] kind = "data"     -> "ProcessingData"
                      [] kind = "trailers" -> "ProcessingTrailer"

(***************************************************************************)
(* doDataList is the list of buffers already shown to Go and not passed on *)
(* yet.  Only its last buffer is ever treated apart from the others        *)
(* (clearLatest), so the list is kept as the content of all the buffers    *)
(* but the last one, held, and the content of the last one, latest.        *)
(* dataBuffer is the content of data_buffer_, the private buffer of data   *)
(* that Go was not shown; hasBuffer is false while data_buffer_ is null.   *)
(***************************************************************************)
Processor == [state              : FilterState,
              endStream          : BOOLEAN,
              doEndStream        : BOOLEAN,
              seenTrailers       : BOOLEAN,
              hasBuffer          : BOOLEAN,
              dataBuffer         : Seq(Chunks),
              held               : Seq(Chunks),
              latest             : Seq(Chunks),
              watermarkRequested : BOOLEAN]

NewProcessor == [state              |-> "WaitingHeader",
                 endStream          |-> FALSE,
                 doEndStream        |-> FALSE,
                 seenTrailers       |-> FALSE,
                 hasBuffer          |-> FALSE,
                 dataBuffer         |-> <<>>,
                 held               |-> <<>>,
                 latest             |-> <<>>,
                 watermarkRequested |-> FALSE]

\* Mutant: a call about data is not seen as being in Go.
InGo_ForgetsData(p) == p.state \in {"ProcessingHeader", "ProcessingTrailer"}

InGo(p) == p.state \in {"ProcessingHeader", "ProcessingData", "ProcessingTrailer"}

\* "seen trailers also means stream is end"
IsStreamEnd(p) == p.endStream \/ p.seenTrailers

-----------------------------------------------------------------------------
(* BufferList *)

\* Mutant: the newest buffer goes first.
DataList_NewestFirst(p) == p.latest \o p.held

DataList(p) == p.held \o p.latest

\* Mutant: the buffer is pushed as one element instead of its content.
Push_AsElement(p, data) == [p EXCEPT !.held = DataList(p), !.latest = <<data>>]

Push(p, data) == [p EXCEPT !.held = DataList(p), !.latest = data]

ClearLatest(p) == [p EXCEPT !.latest = <<>>]

\* clearAll, and moveOut as far as the list is concerned.
ClearAll(p) == [p EXCEPT !.held = <<>>, !.latest = <<>>]

-----------------------------------------------------------------------------
(* The private buffer and its watermarks.  The buffer is only ever emptied *)
(* as a whole, so it falls below the low watermark exactly when it is      *)
(* emptied, and reading is then enabled again if it was disabled.          *)

\* Mutant: the low-watermark callback is forgotten.
TakeBuffer_LeavesReadingDisabled(p) == [p EXCEPT !.dataBuffer = <<>>]

\* Mutant: the data is copied out instead of moved.
TakeBuffer_Copies(p) == [p EXCEPT !.watermarkRequested = FALSE]

TakeBuffer(p) == [p EXCEPT !.dataBuffer = <<>>, !.watermarkRequested = FALSE]

\* The high-watermark callback runs when the length crosses the limit.
Crosses(p, data, limit) ==
    /\ Len(p.dataBuffer) <= limit
    /\ Len(p.dataBuffer \o data) > limit

\* The callback answers 413 instead of disabling reading in this case.
Overflows(p, data, limit) ==
    Crosses(p, data, limit) /\ p.state = "WaitingAllData"

AddBufferData(p, data, limit) ==
    [p EXCEPT !.hasBuffer  = TRUE,
              !.dataBuffer = @ \o data,
              !.watermarkRequested =
                  @ \/ (Crosses(p, data, limit) /\ ~Overflows(p, data, limit))]

-----------------------------------------------------------------------------
(* Entering Go *)

ProcessHeader(p, endStream) ==
    [p EXCEPT !.state = "ProcessingHeader", !.doEndStream = endStream]

ProcessData(p, endStream) ==
    [p EXCEPT !.state = "ProcessingData", !.doEndStream = endStream]

ProcessTrailer(p) ==
    [p EXCEPT !.state = "ProcessingTrailer", !.doEndStream = TRUE]

-----------------------------------------------------------------------------
(* Handling what Go answered.  All three return done exactly for Continue. *)

IsDone(status) == status = "Continue"

AfterContinue(p) == IF p.doEndStream THEN "Done" ELSE "WaitingData"

\* Mutant: an asynchronous handler does not keep the state.
HandleHeaderGolangStatus_RunningWaits(p, status) ==
    [p EXCEPT !.state =
        CASE status = "Continue"      -> AfterContinue(p)
          [] status = "StopAndBuffer" -> "WaitingAllData"
          [] OTHER                    -> "WaitingData"]

HandleHeaderGolangStatus(p, status) ==
    [p EXCEPT !.state =
        CASE status = "Continue"               -> AfterContinue(p)
          [] status = "StopAndBuffer"          -> "WaitingAllData"
          [] status = "StopAndBufferWatermark" -> "WaitingData"
          [] OTHER                             -> @]

HandleDataGolangStatus(p, status) ==
    IF status \in {"Running", "LocalReply"} THEN p
    ELSE [(IF status = "StopNoBuffer" THEN ClearLatest(p) ELSE p) EXCEPT !.state =
            IF p.seenTrailers /\ p.dataBuffer = <<>> THEN "WaitingTrailer"
            ELSE CASE status = "Continue"      -> AfterContinue(p)
                   [] status = "StopAndBuffer" -> "WaitingAllData"
                   [] OTHER                    -> "WaitingData"]

HandleTrailerGolangStatus(p, status) ==
    [p EXCEPT !.state = IF status = "Continue" THEN "Done" ELSE @]

HandleGolangStatus(p, status) ==
    CASE p.state = "ProcessingHeader"  -> HandleHeaderGolangStatus(p, status)
      [] p.state = "ProcessingData"    -> HandleDataGolangStatus(p, status)
      [] p.state = "ProcessingTrailer" -> HandleTrailerGolangStatus(p, status)
      [] OTHER                         -> p
=============================================================================
