------------------------------ MODULE GridCells -------------------------------
(***************************************************************************)
(* What a cell of a Grid hands on: the four shapes a `GridCellRecord` can   *)
(* have to whoever reads its metrics.  Reading shows that every cell it     *)
(* files has one of them; Gate assumes it of every cell it is handed.       *)
(***************************************************************************)

(***************************************************************************)
(* silent: refused, so the metrics are empty, or a flat path, whose Sharpe  *)
(* and t-statistic are None - `metrics.get` reads both alike.  gained and   *)
(* lost: both are there, and t is positive or not.  wiped_out: there was    *)
(* a Liquidation, so the Sharpe is a number and there is no t-statistic.    *)
(***************************************************************************)
CellShapes == {"silent", "gained", "lost", "wiped_out"}

\* `metrics.get("sharpe_net") is not None`
HasSharpe(shape) == shape # "silent"

\* `mean_log_return_t_stat is not None`
HasTStatistic(shape) == shape \in {"gained", "lost"}

\* `GridCellRecord.liquidated`
IsLiquidated(shape) == shape = "wiped_out"

\* The metrics a cell of a shape carries.
Metrics(shape) ==
  [sharpe |-> HasSharpe(shape),
   t |-> IF ~HasTStatistic(shape) THEN "none"
         ELSE IF shape = "gained" THEN "positive" ELSE "not_positive",
   liquidated |-> IsLiquidated(shape)]

================================================================================
