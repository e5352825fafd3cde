---------------------------- MODULE MatrixBlocks ----------------------------
(***************************************************************************)
(* parallel_multiply and parallel_transpose of matrix/matrix.h: the cells  *)
(* of the result are the range that is cut into blocks (min_per_thread is  *)
(* 10000 there), and each cell is computed by whoever has its block.       *)
(*                                                                         *)
(* A matrix is kept row by row.  A cell holds the terms that were added up *)
(* for it, each the indices of its factors in x and y; for transpose, the  *)
(* index in x of the one element that was copied.  The sizes are checked   *)
(* by both, but parallel_multiply reports wrong ones and goes on.          *)
(***************************************************************************)
EXTENDS BlockThreads, SequencesExt

VARIABLES sizes,       \* the <<rows, columns>> of x, y and results
          cell         \* position in results -> its terms

matrixVars == <<sizes, cell>>

MatrixNames == {"multiply", "transpose"}
Inner == 2             \* bound: the columns of x, if it is multiplied

Rows(m) == sizes[m][1]
Columns(m) == sizes[m][2]
NoSize == <<0, 0>>

\* Sizes one off n, if they are sizes.
Near(n) == {m \in {n - 1, n, n + 1} : m >= 0}

\* The result is of any shape, and the operands fit it or do not.
MatrixInit ==
  /\ cell = [p \in Positions |-> <<>>]
  /\ IF algorithm \notin MatrixNames
     THEN sizes = [x |-> NoSize, y |-> NoSize, results |-> NoSize]
     ELSE \E r \in 1..Max({1, length}) :
            /\ length % r = 0
            /\ LET c == length \div r IN
               sizes \in [x : IF algorithm = "multiply" THEN {r - 1, r} \X {Inner}
                              ELSE {<<c, r>>, <<r, c>>},
                          y : IF algorithm = "multiply" THEN {Inner - 1, Inner} \X Near(c)
                              ELSE {NoSize},
                          results : {<<r, c>>}]

\* transpose: (x->columns == results->rows) && (x->rows == results->columns)
SizesFit == Columns("x") = Rows("results") /\ Rows("x") = Columns("results")

\* What parallel_multiply asks for before it goes on all the same.
ProductFits ==
  /\ Rows("x") = Rows("results") /\ Columns("y") = Columns("results")
  /\ Columns("x") = Rows("y")

\* The term that round j of the inner loop adds to cell i: the column of y is
\* the remainder by the rows of the result.
Product(i, j) ==
  <<(i \div Columns("results")) * Columns("x") + j,
    (i % Rows("results")) + j * Columns("y")>>

\* results->data[i] = x->data[input_row * x->columns + input_column]
Flipped(i) == (i % Columns("results")) * Columns("x") + i \div Columns("results")

Terms(i) ==
  IF algorithm = "multiply" THEN [j \in 1..Columns("x") |-> Product(i, j - 1)]
  ELSE <<Flipped(i)>>

\* An index that x or y does not have.
OutOfBounds(i) ==
  /\ algorithm = "multiply"
  /\ \E t \in Range(Terms(i)) : \/ t[1] >= Rows("x") * Columns("x")
                               \/ t[2] >= Rows("y") * Columns("y")

\* += adds to what is in the cell, = replaces it.
After(i) == IF algorithm = "multiply" THEN cell[i] \o Terms(i) ELSE Terms(i)

\* process_data_chunk on block k
ComputeBlock(k) ==
  /\ Alive /\ pc[k] = "compute"
  /\ IF \E i \in Block(k) : OutOfBounds(i)
     THEN outcome' = Undefined /\ UNCHANGED <<setting, pc, started, cell>>
     ELSE /\ cell' = [i \in Positions |-> IF i \in Block(k) THEN After(i) ELSE cell[i]]
          /\ Proceed(k, "end")
  /\ UNCHANGED <<sizes, throws>>

LaunchMatrix ==
  /\ algorithm = "transpose" => SizesFit
  /\ StartThread("compute") \/ StartFinal("compute")
  /\ UNCHANGED <<matrixVars, throws>>

LaunchMatrixFails ==
  /\ algorithm = "transpose" => SizesFit
  /\ throws < MaxThrows /\ StartFails
  /\ throws' = throws + 1
  /\ UNCHANGED matrixVars

\* parallel_transpose returns when the sizes are wrong.
RefuseSizes ==
  /\ Alive /\ algorithm = "transpose" /\ ~SizesFit
  /\ outcome' = Returned
  /\ UNCHANGED <<setting, pc, started, matrixVars, throws>>

ReturnMatrix ==
  /\ \/ ReturnAtOnce(Returned)
     \/ length > 0 /\ pc[Final] = "end" /\ Leave(Returned)
     \/ LeaveByException
  /\ UNCHANGED <<matrixVars, throws>>
-----------------------------------------------------------------------------
(* Properties.                                                             *)

\* Cell i is row i \div columns and column i % columns of the product, or the
\* element of x in the opposite place.
Right(i) ==
  LET row == i \div Columns("results")
      column == i % Columns("results")
  IN  IF algorithm = "transpose" THEN cell[i] = <<column * Rows("results") + row>>
      ELSE cell[i] = [j \in 1..Inner |->
                        <<row * Inner + j - 1, (j - 1) * Columns("results") + column>>]

\* An operand lacks what a product reads: x has no row for each row of the
\* result, or y no row for each column of x, or no column for each row, which
\* should be column, of the result.
OperandTooSmall ==
  \/ Rows("x") < Rows("results")
  \/ Rows("y") < Columns("x")
  \/ Columns("y") < Rows("results")

\* Transposing is right, or refused with the result untouched; a product has all
\* terms in each cell, and the right ones if the sizes fit and the result is
\* square.
MatrixIsRight ==
  CASE algorithm = "transpose" ->
         \A i \in Positions : IF SizesFit THEN Right(i) ELSE cell[i] = <<>>
    [] algorithm = "multiply" ->
         \A i \in Positions :
           /\ Len(cell[i]) = Columns("x")
           /\ ProductFits /\ Rows("results") = Columns("results") => Right(i)
    [] OTHER -> TRUE
=============================================================================
