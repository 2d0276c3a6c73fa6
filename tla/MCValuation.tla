----------------------------- MODULE MCValuation -----------------------------
(***************************************************************************)
(* The machines a valuation passes through: the editor, the grid of         *)
(* evidence and the review of sources, the pool it is filed in, and the     *)
(* server's reports, map tiles and error log.  They share no state, so each *)
(* is taken on its own, as in MCRecords: desk says which, and their         *)
(* variables live in the same places.                                       *)
(***************************************************************************)
EXTENDS Integers, FiniteSets, Sequences

CONSTANTS
    Valuer, Column, Paper, Scheme, Job, MapRequest, Tile, Size, Value, Org, Fault, Failing

\* The bounds of the modules, and the limits they take from the code, each by its own name but where two
\* modules share one.
CONSTANTS
    MaxStamp, MaxTyped,                 \* AppraisalEditor; typed too in EvidenceGrid
    MaxRun, MaxTurn,                    \* SourceReview
    MaxPeriod, MaxPoint,                \* BenchmarkPool
    MAX_ACTIVE_REPORTS, MaxBrowser,     \* ReportRendering
    MAX_BYTES, MaxCount,                \* MapTiles
    MaxFailed,                          \* EvidenceGrid and ErrorLog
    MAX_ROWS, MaxOccurred               \* ErrorLog

\* What can be counted, no figure is 0, which stands for none, and nobody is called so.
ASSUME ValuationAssumption ==
    /\ MAX_ACTIVE_REPORTS \in Nat /\ MaxBrowser \in Nat /\ MAX_ROWS \in Nat
    /\ MaxStamp \in Nat /\ MaxTyped \in Nat /\ 0 \notin Value /\ "nobody" \notin Valuer
    /\ IsFiniteSet(Failing) /\ MAX_BYTES \in Nat /\ Size \subseteq Nat

VARIABLES desk, y1, y2, y3, y4, y5, y6, y7, y8, y9, y10, y11, y12, y13, y14

Editor == INSTANCE AppraisalEditor WITH
    row <- y1, past <- y2, wrote <- y3, stamps <- y4, typed <- y5, cache <- y6, fetching <- y7, ed <- y8,
    req <- y9, unsaved <- y10

Review == INSTANCE SourceReview WITH
    Doc <- Paper,
    superseded <- y1, turns <- y2, listed <- y3, run <- y4, made <- y5, draft <- y6, acceptedRun <- y7,
    phase <- y8, ask <- y9, pending <- y10, extraction <- y11, saving <- y12, records <- y13,
    ticked <- y14

Pool == INSTANCE BenchmarkPool WITH
    Client <- Valuer, Deal <- Scheme,
    consent <- y1, completed <- y2, approved <- y3, period <- y4, points <- y5, filed <- y6, call <- y7

Reports == INSTANCE ReportRendering WITH
    current <- y1, launched <- y2, up <- y3, active <- y4, publicActive <- y5, job <- y6

Tiles == INSTANCE MapTiles WITH
    Request <- MapRequest,
    cache <- y1, size <- y2, bytes <- y3, call <- y4

Evidence == INSTANCE EvidenceGrid WITH
    Person <- Valuer,
    kind <- y1, row <- y2, by <- y3, edits <- y4, queue <- y5, apply <- y6, typed <- y7, count <- y8, failed <- y9

Errors == INSTANCE ErrorLog WITH
    Request <- Failing,
    rows <- y1, made <- y2, clock <- y3, capture <- y4, occurred <- y5, faults <- y6, failed <- y7

-----------------------------------------------------------------------------
\* The places a machine leaves empty.
Past11 == y11 = 0 /\ y12 = 0 /\ y13 = 0 /\ y14 = 0
Past10 == y10 = 0 /\ Past11
Past8 == y8 = 0 /\ y9 = 0 /\ Past10
Past7 == y7 = 0 /\ Past8
Past5 == y5 = 0 /\ y6 = 0 /\ Past7

ValuationIdle == desk = "none" /\ y1 = 0 /\ y2 = 0 /\ y3 = 0 /\ y4 = 0 /\ Past5

ValuationInit ==
    \/ desk = "Editor" /\ Editor!Init /\ Past11
    \/ desk = "Review" /\ Review!Init
    \/ desk = "Pool" /\ Pool!Init /\ Past8
    \/ desk = "Reports" /\ Reports!Init /\ Past7
    \/ desk = "Tiles" /\ Tiles!Init /\ Past5
    \/ desk = "Evidence" /\ Evidence!Init /\ Past10
    \/ desk = "Errors" /\ Errors!Init /\ Past8

places == <<y1, y2, y3, y4, y5, y6, y7, y8, y9, y10, y11, y12, y13, y14>>

ValuationNext ==
    \/ desk = "Editor" /\ Editor!Next /\ UNCHANGED <<desk, y11, y12, y13, y14>>
    \/ desk = "Review" /\ Review!Next /\ UNCHANGED desk
    \/ desk = "Pool" /\ Pool!Next /\ UNCHANGED <<desk, y8, y9, y10, y11, y12, y13, y14>>
    \/ desk = "Reports" /\ Reports!Next /\ UNCHANGED <<desk, y7, y8, y9, y10, y11, y12, y13, y14>>
    \/ desk = "Tiles" /\ Tiles!Next /\ UNCHANGED <<desk, y5, y6, y7, y8, y9, y10, y11, y12, y13, y14>>
    \/ desk = "Evidence" /\ Evidence!Next /\ UNCHANGED <<desk, y10, y11, y12, y13, y14>>
    \/ desk = "Errors" /\ Errors!Next /\ UNCHANGED <<desk, y8, y9, y10, y11, y12, y13, y14>>

valuation == <<desk, places>>
ValuationSpec == (ValuationInit \/ ValuationIdle) /\ [][ValuationNext]_valuation

-----------------------------------------------------------------------------
(* Properties: what each module says of its machine.                         *)

\* What the editor says of the appraisal on the screen is so, and the grids of evidence leave a colleague's
\* columns alone and apply what was on the screen (AppraisalEditor, EvidenceGrid).
EditorSound ==
    /\ desk = "Editor" => Editor!EditorSound
    /\ desk = "Evidence" => Evidence!EvidenceSound

\* A source review is recorded of the result somebody accepted (SourceReview).
AcceptedIsRecorded == desk = "Review" => Review!AcceptedIsRecorded

\* A withdrawal of consent reaches every point filed before it (BenchmarkPool).
WithdrawalReachesAll == desk = "Pool" => Pool!WithdrawalReachesAll

\* The server's bounds on what it renders and on the faults it keeps (ReportRendering, ErrorLog).
BoundsHold ==
    /\ desk = "Reports" => Reports!SlotsBound
    /\ desk = "Errors" => Errors!LogFits

\* What is added up: the bytes of the images held fit their bound, and a row of the log counts what happened in
\* its workspace (MapTiles, ErrorLog).
CountsAddUp ==
    /\ desk = "Tiles" => Tiles!HeldFits
    /\ desk = "Errors" => Errors!CountsItsOwn
=============================================================================
