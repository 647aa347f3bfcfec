# The Pencil Code in TLA+

The Pencil Code solves partial differential equations on a mesh that is
distributed over MPI ranks, together with particles. Its numerics are floating
point arithmetic and not the subject of this directory. The subject is what the
ranks have to agree on without anybody watching: who leaves the time loop when,
who may write a file, who answers whose request, and where a particle is; and
what the Python programs that look at the results, while the run goes on or
with processes of their own, have to put together in the right order. Paths
below are relative to the repository; `src/src/` is the Fortran, `src/python/` the
Python packages (`pencil`, and `pencilnew` that replaces it).

## 1. The system

| part | source | state | operations | modelled by |
|---|---|---|---|---|
| time loop of `run.x` | `run.f90` | `it`, `t`, `dt`, `isave_shift`, `save_lastsnap`, `lonemorestep` per rank | one step, five ways out of the loop | `RunLoop` |
| control and status files | `sub.f90`, `file_io_common.f90`, `run.f90` | STOP, SAVE, RELOAD, RELOAD_ALWAYS, RESUBMIT; ERROR, COMPLETED, ENDTIME | the root looks and deletes, the answer is broadcast | `RunLoop` |
| fatal errors | `messages.f90`, `mpicomm.f90` | `fatal_errors` per rank | register, collect once per step, die | `RunLoop` |
| snapshots of io_dist | `snapshot.f90`, `io_dist.f90` | one `var.dat` per rank | delete, write, close; read and compare time stamps | `RunLoop` |
| signals | `signal_handling.f90` | `emergency_stop` per rank | handler | `RunLoop` |
| job scripts | `bin/run.csh`, `bin/getconf.csh` | files of the run directory, LOCK, NEWDIR, RERUN | clean up, start, follow RERUN | `Launch` of `RunLoop` only |
| serialized I/O | `mpicomm.f90` (start_serialize), `io_dist.f90` | `serial_level`, permission messages | nested blocks in iproc order | `SerialIO`, `OrderedTurns` |
| field line tracing | `streamlines.f90` | requests, replies, FINISHED messages | ask, serve, finish | `Streamlines` |
| particle migration | `particles_mpicomm.f90` | `fp`, `npar_loc`, the buffer of leaving rows | sort out, announce, exchange, repeat | `Migration` |
| numbered snapshots | `snapshot.f90`, `sub.f90` (read_snaptime, update_snaptime), `io_dist.f90` | `tsnap.dat`, `VARN` and `var.dat` of each rank | due?, note the next, write; restart | `Snapshots` |
| reading and resuming | `pencilnew/read/var.py`, `pencilnew/sim/simulation.py` | the array, the files copied | read block after block; copy `VARN` to another run | `DataCube`, `Snapshots` |
| field line mapping | `pencilnew/diag/tracers.py`, `pencil/files/tracers.py` | processes, a queue, results per snapshot | fork, trace, put, get, join, put together | `ForkJoin`, `TracerSeries`, `Tracers`, `SerialTracing` |
| fixed points | `diag/fixed_points.py`, `files/fixed_points.py` | the same, and points per snapshot | search the cells, discard close points | `FixedPoints` |
| tracked particles | `src/utils/readstalker_parallel.py` | a task queue, two result queues, the table | read files in parallel, count, collate | `StalkerPool` |
| separatrices | `pencilnew/tool_kit/field_skeleton.py` | rings, points, edges | move, put in, remove, connect | `Separatrices` |
| ghost zones | `mpicomm.f90`, `ghostfold_mpicomm.f90`, `boundcond.f90` | outermost cells | isend/irecv in three directions, corners, a barrier | their waiting, in `Snapshots` |
| block-wise particles | `particles_mpicomm_blocks.f90` | bricks and their parents | load balancing | not modelled |
| everything else | physics modules, derivatives, Fourier, diagnostics, other I/O back ends, start.x, GPU, other Python readers, IDL, Julia | | | not modelled, see section 7 |

How they interact: `run.x` is one program run by all ranks. The ranks share
nothing but messages and a run directory. Variables such as `it` or
`save_lastsnap` are *replicated*: every rank computes them, from values that a
broadcast or an all-reduce made equal, and every branch of the time loop depends
on them. If one rank takes another branch it calls another collective, and MPI
pairs the n-th broadcast of the root with the n-th of the receiver whatever they
are about. `wsnap` writes one file per rank and, with `lserial_io`, brackets this
by `start_serialize` and `end_serialize`. `wtracers` and the particle modules are
called in every step and have protocols of point-to-point messages of their own.
The Python programs share the data directory with the run, and nothing tells
either of the other. `find_tracers` and `find_fixed` read snapshots with
`DataCube.read`; `find_fixed` calls `find_tracers`. `readstalker_parallel.py` reads what the
ranks have written of tracked particles.

What is hard: one rank notices what others do not (an error, a signal, the
clock); a user touches a file between two looks at it; the job is killed between
deleting `var.dat` and writing it; blocking sends in a cycle; messages without a
round number, of any source, left over for the next call; buffers that are full
on one rank only; processes whose answers come in any order, or never; indices
that have to be kept in step through insertions and removals. PROJECT.json lists each hazard at its line.

## 2. Modules

- **RunLoop** is the loop of `run.f90:573-929` with what comes before
  (`rsnap`) and after (final snapshot, COMPLETED, `mpifinalize`). Each rank has a
  program counter `pc[r]`; each label is one call that may block or that reads or
  writes something shared. `Bcast` gives every receiver a FIFO, so that a
  mismatch of broadcasts is representable; only the type of the data (text of
  `run.in` or logical) must agree. All-reduces, barriers and
  `fatal_error_local_collect` cannot complete before everybody has entered, so
  each of them is one action of all ranks. `control_file_exists` looks in `./` and
  in `runtime/`, two broadcasts in a row without anything between that could tell
  the ranks apart; the model has one. `t` also names the data: the state of `f` is
  a function of the time it was computed for. `ReadSnapshot` has the cases of
  `read_snap_single` for `tstart` not given: with `ireset_tstart = 0` different time stamps
  stop the job; with any other value (2 is the default) all ranks take the least or
  the greatest time and go on, each with its own data, which in the model then are of
  another time than `t` says. At which times slices or averages are due (`lvideo`, `l2davg`:
  they only matter for the extra step past `tmax`) is the constant `DueTimes`. The user (`Touch`), signals
  (`Signal`), node failures and walltime limits (`Kill`) and `run.csh` (`Launch`)
  are actions of the environment.
- **SerialIO** runs an arbitrary `Program` of calls (`start`, `io`, `end`, a
  broadcast and an all-reduce) on every rank through `start_serialize` and
  `end_serialize`, down to the single permission and success messages. The programs of
  the runs are those of `run.f90` and `io_dist.f90`. **OrderedTurns** is the promise in
  the comment of `start_serialize`: ranks enter one at a time in iproc order,
  round after round. `SerialOrder` says that SerialIO implements it, with the
  rank inside the block as `holder`.
- **Streamlines** is the protocol of `trace_streamlines`, `get_vector` and
  `send_vec`. Which core owns the next point depends on the field, so the sequence
  of owners `Asks[c]` is a constant and the theorems hold for all of them. The one
  receive of any source is `posted` and `matched`; it is not cancelled at the end
  of a call, so the variables survive `NextCall`. `Eager` says whether MPI_SEND
  returns before its message is matched.
- **Migration** is `migrate_particles` in the course of a run. The box is periodic
  and cut in one direction (`SearchUp` and `SearchDown` are the two loops the code
  repeats for y and z). The boundaries between the ranks lie half a cell before the first
  grid point of a rank, which is at `j * Width` unless `lshift_origin` is set. `Call`
  includes the wrap `boundconds_particles` does before. A rank goes down
  over its rows, copies those that leave into a buffer of `NMig` rows and fills the
  hole with its last row. The buffer is kept sorted (`leave[r][d]` are the rows for `d`),
  which the code does at l. 544-570, where nobody looks in between. `Starts` is what
  `start.x` may have written. Counts go to the neighbours, errors are collected, rows
  are exchanged rank after rank with blocking sends. `redo` is `lmigration_redo`. The
  two messages for the rows and the indices of one destination are one. The rows are sent
  unbuffered; whether the counts, of one integer, are buffered is `EagerCounts`. A forced
  `fatal_error` stops one rank, and mpirun (external, `JobEnds`) the others.
- **Snapshots** is `wsnap` with everything around it: the time step, `tsnap.dat` (emptied
  when it is opened, written by the root), the ghost zones, `VARn` and `var.dat` of
  every rank, kills and restarts. What a file holds is the run and the time it is from,
  or that it is half written. `t`, `it`, `tsnap` and `nsnap` are alike on all ranks and
  are one variable each. `update_ghosts` ends in a barrier of all ranks
  (`mpicomm.f90:2174`), so a rank passes `Ghosts` when all have come; `noghost_for_isave`,
  which would spare `SaveGhosts`, is not set. A restart follows `ireset_tstart` as in RunLoop. At the same time a Python process reads a snapshot, or
  copies it to another run (`resume_from_var`). **DataCube** is the array it reads into: for
  each cell, from which processor, place and file it is. Directions, widths and the
  numbering of the processors are constants.
- **ForkJoin** is what the parallel Python functions have in common: children
  that are forked, put one message each and end, or die; a parent that gets and
  joins. **TracerSeries** has the arguments and index ranges, **Tracers** is
  `find_tracers` (`old`: that of the package `pencil`), and **SerialTracing** the
  promise: one loop over all seeds. `IsSerial` says that Tracers implements it.
  **FixedPoints** is `find_fixed`, which calls `find_tracers` first and goes over its
  series, or `fixed_points` of `pencil`, which has one snapshot whatever its `ti` and `tf` are; what a cell holds (its
  Poincare index and where Newton's method ends) is a constant. A field line
  is the pair of its snapshot and its seed. One index of the two of a seed is left out.
- **StalkerPool** is `readstalker_parallel.py`. `run` says on which rank each particle is
  in each dump, which files have a bad padding and how many readers there are. A dump with
  particles is recorded also when none of them is below `max_ipar` (`InFile`, `On`).
- **Separatrices** is `find_separatrices`. Which points of a ring are too far apart and
  which are outside is decided by the field; the model takes every choice. A point is
  known by the number of its field line. `Left` is what `field_skeleton.py:746` computes
  with numpy before 1.10; later versions raise there.
- **MC...** modules give the constants of the runs. **...Proofs** modules hold
  the theorems.

Definitions whose comment starts with "Mutant of" are deliberately wrong
variants of an action of the code; they occur in no specification. They record,
for every property, a bug of the kind it is meant to catch.

## 3. Runs

| run | question | instance |
|---|---|---|
| RunLoopErrors | is every local error known to all before the code stops, does the job die of it and say so in ERROR, does every run end? | 2 ranks, nt=3, it1=2, it1start=1, an average due at t=3, errors on any rank in any step, STOP and SAVE touched at any time |
| RunLoopWall | do all ranks pair their broadcasts, leave together and compute with the same parameters, on every exit? does STOP take effect within it1 steps? is the last var.dat the last state? | 3 ranks, nt 2 or 4 by RELOAD, tmax, dtmin and walltime within reach |
| RunLoopRestart | is a restart ever made from files of different times or half a file? do automatic snapshots keep their distance? is data with an uncollected error ever the final var.dat? | 2 ranks, ireset_tstart=0, 3 launches, kill at any point, errors, dtmin, SAVE twice |
| RunLoopReset | how far apart are the var.dat a restart goes on from when it need not stop? | 2 ranks, ireset_tstart=2, 3 launches, kill at any point, signals, SAVE once |
| SerialBlocks | do the ranks take turns in order, one at a time (refinement of OrderedTurns), is everyone served? | 4 ranks, two blocks in a row, a block nested in the second, a collective between |
| StreamTracing | is a request ever lost or a reply unexpected, also over two calls? do all cores come to the end? | 3 cores that need vectors of both others, 2 calls |
| Snapshots | does the number tell the time, over kills and restarts? is a snapshot of one state? what does a kill cost? what does a reader see? what does a run start from that is resumed from a copied snapshot? does every run end? | 2 ranks, dt 1 or 2, dsnap = 2, ireset_tstart=2, 2 runs of 2 steps, kill at any point, one call of the Python package at any time |
| Tracing | is the result that of one process? is every fixed point found once, whoever answers first? does the call end? | 3 processes that may die, 4 seeds, 6 kinds of arguments, close points in a chain and on the border of two cells |
| Stalker | are all records and counts in when the readers are done? are the trajectories whole, and who goes without? when does it fail, does it end? | 2 readers or none, 3 files of 3 dumps, chunks of 2, 7 histories of 4 particles |
| Separatrices | do all edges join the right points after any insertions and removals? is a line or a gap overlooked? | rings of 3, two iterations, up to two points put in per iteration, or two nulls and one iteration |
| Migration | is a particle lost or doubled, an array overrun, a particle left on the wrong rank, does every call end? | 3 ranks, 3 particles, 2 calls, 1 buffer row, room for 2 particles, rows sent unbuffered, counts buffered |

**SerialOutput** shows a disagreement between the code and what it says of itself (the
finding of PROJECT.json): with `lserial_io`, `output_snap` and `output_snap_finalize` call
`end_serialize` twice after one `start_serialize` and run into its own check.

Bounds, and why they are enough. Ranks are symmetric but for the root, so two show
what goes wrong between root and others; three are used where two non-root ranks
could disagree with each other (RunLoopWall) and four where the order among
them matters (SerialBlocks). `it1 = 2` and `isave = 2` make a diagnostic and a
snapshot step happen and not happen; `it1start` of 0 and 1 are below and at such a step; dt of 1 or 2 is above and below `dtmin = 2` and lets
`t` hit and jump over `tmax`. Two touches are a request made while the one before is
honoured. Three launches are a kill and a kill during the recovery from it. Two
calls of `trace_streamlines` and `migrate_particles` show what a call leaves for the
next. One buffer row and two particles that leave force a second round; room for
two of three particles is overrun if the check is off by one. Three ranks are all
each other's neighbours, so the error about a rank that is no neighbour
(`particles_mpicomm.f90:420`) is in the model but out of reach of this instance;
with moves shorter than the part of a rank it does not occur with more ranks either.

The ranks of Snapshots wait for all others, not for neighbours, so two of them are any two.
Two runs of two steps with a kill reach every pair of a file of the run that was
killed and one of the next; dt up to dsnap makes a step with and without a snapshot;
one cell and one ghost cell per processor make the blocks overlap. Three
processes answer in six orders; four seeds are not a multiple of them, so
their shares differ. Two readers and three files make one reader read twice, and chunks of
two of three dumps leave a rest; of four particles one is not below `max_ipar`, and one may
appear late with the lowest number. A ring of three with two new points and any points
removed has gaps of one and more points, at the ends and inside, and next to new points.

Deadlock is checked in the RunLoop runs without signals, whose `Terminated` lets a finished job stay
finished. After a signal on one rank the others wait for it (RunLoopReset). In the others the modelled routine returns and nothing is left to do,
so they say CHECK_DEADLOCK FALSE; that nobody gets stuck is shown by the liveness
properties (AllServed, AllTraced, Termination, RunsEnd, FixedEndsUnlessDied, Ends). Separatrices
is a loop with a bound.

## 4. Fairness

Every rank is a process that the operating system schedules: weak fairness of the
steps of each rank. A collective that all ranks have entered and a message whose
receive is posted complete: weak fairness of the joint actions and of the matching.
Python parents and children, and the readers and the main program, are
processes as well: weak fairness of each. In Snapshots the ranks together are one
weakly fair process, since none of them can go on for ever without the others.
No fairness is assumed of the user, of signals, of kills or launches. In Migration
the next time step is part of a rank's fairness, since all ranks make the same
calls; and mpirun ends a job of which a rank has stopped. Whether a blocking send
returns before it is received is not left to fairness but a constant (`Eager`,
`EagerCounts`). `migrate_particles` sends its counts to all neighbours before it receives
any, so without buffering of one integer every call with two ranks deadlocks there
(`particles_mpicomm.f90:526-531`); Termination is about MPI libraries that do buffer it.
In `Separatrices` and `DataCube` nothing has to happen.

## 5. Properties worth a second look

- *CollectivesMatch* is the reason why the others hold: a rank never receives a
  broadcast meant for another call. It is stated for the code as it is, without
  signals: a signal on one rank breaks it.
- *ErrorsToldBeforeStop* is checked without a walltime limit, because that
  exit jumps over the collection of errors (below). *FinalSnapshotClean* holds with the dtmin exit only because
  `save_lastsnap` is cleared there.
- *SameData* relates the files a killed job leaves to the data of the next one, and needs
  `ireset_tstart = 0`: then `read_snap_single` compares the time stamps and the restart
  fails when they differ. With the default, 2, a job killed between the `var.dat` of two
  ranks is continued, at the greatest of the times and from data of both; the
  model says so, and no property denies it. *StampsNear* bounds the damage: in whole
  `var.dat` the times differ by `isave` steps per launch at most, so the mixture may
  grow with every kill. *AutosaveSpacing* is checked with `ireset_tstart = 0` for the same reason.
- *AtHome* excludes particles exactly on the lower edge of the box. The search
  down uses `>` where the search up uses `>=` and `<`, so a particle that
  the periodic boundary puts exactly on `x0` stays on the last rank.
- *NumberTellsTime* spans runs: the number in the name is all that the Python package
  (`resume_from_var`, `find_tracers`) goes by. It holds because `tsnap.dat` is written before
  the snapshot; the price is *LostToKills*: a number that a killed run took is never written.
- *ReadOneState* holds although nobody locks anything: `VARn` is written once, and a
  half written file has no last record. Neither is true of `var.dat`. `resume_from_var`
  checks neither: what it copies may be a part of a snapshot beside older files. A new run with
  `ireset_tstart = 0` notices by the times (*ResumeOneState*); one with the default does not.
- *VarWhole* and *ReadOneState* say that the files of a number are from the same step of the
  same run. When that run was itself continued from mixed data (above), they are
  as mixed as the run is.
- *NoEdgeOverGap* is about the edges between a point of a ring and the next. The edge that closes
  the ring goes over a gap when its last point was removed (`field_skeleton.py:760`).
- *TrajectoryWhole* does not promise a group to every particle. As many are written as there were
  particles in the first dump, in the order of their numbers: when a low number
  appears late the highest goes without. *FailsWithoutRows* says when the program ends in an
  IndexError instead.
- *StopWithinIt1* counts from `it1start` when STOP is touched before it.
- *CellsFromOwner* looks like bookkeeping, but the blocks overlap, and the order of the
  directories decides.
- *KeptApart* is all that can be said of the points that are discarded: of a chain of
  close points the middle one may remove the last and be removed by the first, and
  which is which depends on the order of the answers.
- *StatusFilesTell* concerns jobs that end by themselves; a killed job leaves neither file. It is
  proved (FilesTellTheEnd) and has no run of its own; that ERROR is there after an error is also part of *ErrorKillsAll*.

Known and not given a run. When `max_walltime` is exceeded the ranks leave the loop before
`fatal_error_local_collect` (`run.f90:878`), although "all processors must be informed about the
problem before the code can stop" (`run.f90:882-883`): with `MaxWall = TRUE` in RunLoopErrors,
*ErrorsToldBeforeStop* is violated. With `lserial_io`, `read_snap_single` compares the time stamps
of all ranks inside the serialized block (`io_dist.f90:594-602`), and the root waits there for ranks that
wait for it: with the program `<<"start", "io", "coll", "io", "end">>` *AllServed* is violated.
"Now it should be safe to make a blocking send request" (`streamlines.f90:239`) is true only if MPI_SEND
buffers: with `Eager = FALSE` and four cores, 0 and 3 asking 1, 1 and 2 asking 0, *AllTraced* is
violated; with three cores in a ring it is not, since a request is also taken by the receive
that the other core has posted. The signal handler is documented to do nothing off the
root (`signal_handling.f90:38`) but sets `emergency_stop`, on which the rank leaves the loop alone;
only cores with `ipz == 0` fill
`vv`, but all serve it (`Prepared`). A series with `ti > 0` raises an IndexError in `pencilnew`
(`tracers.py:248`) and takes the wrong files in `pencil` (`tracers.py:160`), though "Initial VAR
file index" is promised; with `ti > tf >= 0` zeros are returned. `find_fixed` hangs
when a child dies (`fixed_points.py:262,488`), `readstalker_parallel.py` when a reader exits or there is
none (l.120, 70), and it raises an IndexError when the last particle has one row (l.237).
A ring whose last point is removed is closed over the gap (`field_skeleton.py:760`). By reading only: `COMPLETED` is touched for `t > tmax` while the
loop ends at `t >= tmax` (`run.f90:681,966`), and it is touched after a dtmin exit past tmax without
its data; a RELOAD touched while the last one is being honoured is deleted
unread (`run.f90:640`); a job killed inside `output_snap` has no var.dat to restart from
(`io_dist.f90:152`).

## 6. Theorems

For every value of the constants that satisfies the ASSUME of the module, checked by TLAPS:

| module | theorem | says |
|---|---|---|
| RunLoopProofs | TypeCorrect | `Spec => []TypeOK` |
| RunLoopProofs | RestartIsConsistent | `Spec => []SameData` |
| RunLoopProofs | FinalSnapshot | `Spec => []FinalSnapshotConsistent` |
| RunLoopProofs | BroadcastsMatch | `Spec => []CollectivesMatch`, if no rank catches a signal |
| RunLoopProofs | RanksLeaveTogether, RanksUseTheSamePars | `Spec => []LeaveTogether`, `Spec => []ParsAgree`, if no rank catches a signal |
| RunLoopProofs | FilesTellTheEnd | `Spec => []StatusFilesTell`, if no rank catches a signal |
| RunLoopProofs | SnapshotOfNoError | `Spec => []FinalSnapshotClean`, without signals and without a limit on the wall time |
| RunLoopProofs | ErrorsAreTold | `Spec => []ErrorsToldBeforeStop`, if also no time step is below dtmin |
| RunLoopProofs | StopsInTime | `Spec => []StopWithinIt1` |
| RunLoopProofs | AutosavesAreSpaced | `Spec => AutosaveSpacing`, if there is a least and a greatest time step and `ireset_tstart = 0` |
| SerialIOProofs | Invariance, Exclusion | `Spec => []SerialInv`, `Spec => []MutualExclusion` |
| SerialIOProofs | Order | SerialIO implements OrderedTurns |
| StreamlinesProofs | Invariance | `Spec => []StreamInv` |
| StreamlinesProofs | RequestsServed, RepliesExpected | `Spec => []NoLostRequest`, `Spec => []ReplyExpected` |
| TracersProofs | MappingCorrect | `FixedSpec => []MappingInv` |
| TracersProofs | MappingIsSerial | find_tracers implements SerialTracing |
| TracersProofs | PointsFoundOnce, PointsKeptApart | `FixedSpec => []EveryPointOnce`, `FixedSpec => []KeptApart`, for calls that fit (below) |
| SeparatricesProofs | EdgesStayRight | `Spec => []SeparatricesInv` |
| SeparatricesProofs | LinesAreComplete, GapsStayOpen | `Spec => []LinesComplete`, `Spec => []NoEdgeOverGap` |
| SnapshotsProofs | CubeFromOwners | `Spec => []CellsFromOwner` |
| SnapshotsProofs | NumberIsTime | `Spec => []NumberTellsTime`, if dt is at most dsnap |
| SnapshotsProofs | SnapshotIsWhole | `Spec => []VarWhole` |
| SnapshotsProofs | ResumedIsOneState | `Spec => []ResumeOneState` |
| SnapshotsProofs | ReadIsOneState | `Spec => []ReadOneState`, if the blocks cover the array |
| SnapshotsProofs | KillsLoseNumbers | `Spec => []LostToKills` |
| StalkerPoolProofs | EveryRecordArrives, TotalsAreComplete, TrajectoriesAreWhole | `Spec => []AllRecordsIn`, `Spec => []TotalsIn`, `Spec => []TrajectoryWhole` |
| MigrationProofs | NoParticleLost | `Spec => []OnePlace` |
| MigrationProofs | ReturnsAtHome | `Spec => []AtHome`, if MaxMove < Width |
| MigrationProofs | ArraysLargeEnough | `Spec => []WithinLimits` |

*RunLoop.* FinalSnapshotConsistent alone is not inductive. `SnapInv` adds `OneTime` (all ranks have
one time unless all of them are dying: the time is read from the rank's own file only when the job
then dies of different stamps) and `Written` (past the final snapshot `var.dat` has
the time of its rank). `t` changes only in the joint actions ReadSnapshot and SetDt
and in Launch, so a step of one rank can only disturb Written (lemma RankKeeps).
With `ireset_tstart = 0` the ranks also begin with `var.dat` of their own time (`Fresh`): this
is SameData, whose other half is OneTime.
TypeCorrect, RestartIsConsistent and FinalSnapshot need no CollectivesMatch: they hold
even when signals tear the ranks apart.

The other three say that without signals the ranks never come apart, although only
the root looks at the files and the clock and runs ahead of the others by as many
broadcasts as it likes. `View(r)` is what the ranks must agree on; `Comes` takes a view
over the steps a rank makes by itself to the next call that may wait, `After` over a
broadcast. The invariant `AgreeInv` says that the messages in `chan[r]` lead from the
view of `r` to the view of the root (`Follows`): each is the one the rank asks
for when it comes to it. A local step leaves `Comes(View(r))` as it is (LocalSteps), a broadcast of
the root makes the path longer at its end (LeadsOn), a receipt shorter at its
beginning (LeadsFirst), and a rank that waits in a reduction has no path left
(LeadsNoFurther), so that the joint steps start from equal views. The
exceptions are the jobs that rsnap ends: killed by a torn file, or dying of
different time stamps. The assumption `~Signals` is needed: `emergency_stop` is not in
the view, since every rank sets its own.

Errors and status files build on that. `FilesTell` says which phase of a rank the files
ERROR and COMPLETED come from; that all ranks end alike is left to AgreeInv. `RootLate` says that
as long as any rank has an error that was not collected, the root has not left the loop, unless by
dtmin and without a snapshot, and what it waits for next is the SAVE broadcast or a call of all ranks
before the collection or the collection itself: it cannot begin another step.
The other ranks are on a path to the same place (AgreeInv). The exit by the wall time
jumps over the collection, and that by dtmin leaves without it (and
clears `save_lastsnap` for that reason); so the first is excluded in both theorems, and steps below dtmin
in ErrorsAreTold. `StopSeen` counts: as long as the root has not looked at the files since STOP was touched,
it is no further from that step (or from `it1start`, if that is later) than the remainder of `it - 1` by `it1`,
so it1 bounds it when the remainder falls back to 0. `Spacing` does the same for the snapshots: the time since
`var.dat` is between k least and k greatest steps, where k is the remainder of `it - 1 -
isave_shift` by isave; a SAVE file shifts the remainder to 0 in the step in which `var.dat` is
written. The lemmas about remainders (ModStep, ModShift) are all the arithmetic.

*SerialIO.* MutualExclusion needs to know where the permission is: `Permission` says
that for the rank the root waits for, it is in exactly one of message, block and
success message, and for all others in none; `Levels` ties `serial_level` to the block;
`Turns` computes the history variable. `StepRefines` maps entering and leaving
a block to Enter and Exit of OrderedTurns and everything else to stuttering. The
program of calls is arbitrary, unbalanced ones included.

*Streamlines.* `RequestOf` puts the request of a core in exactly one of: pending,
matched, answered. `FinishedTrue` adds that FINISHED is only believed of cores that
have finished, so a core that returns has nobody left who could ask it.

*Tracers.* `OneMessageEach` says that of each process there is at most one message,
on the queue or taken, and that it is about this snapshot; `NoneLeft`, that nothing
is left on the queue when the children have been joined, which is what carries
`OneMessageEach` over to the next snapshot. When all n_proc messages are in, there
is one of every process (a finite set of n_proc elements), and row `s div n_proc` of process
`s mod n_proc` is seed `s`: the arithmetic of the slices, proved for any n_proc.

*Fixed points.* find_fixed asks for the same again one level up, so `FoundInv` begins with
what find_tracers has left: `Traced` says that the entries before this snapshot have been
traced, and at the end `AllTraced`, that every entry has the lines of the very file the fields are
read from. This needs `Fitting`: a series has `ti <= tf`, since with `ti > tf` zeros are returned. The package `pencil`
has one snapshot and no series (`old => ~series` in the invariant). `CellsNamed` says that every
cell has a point of its own with an integer sign. `FixedOK` has one message of each process, about
this snapshot. Joined together, the messages list every cell with a point once: a
bijection from the places of the joined sequence to those cells. So the sum of the signs does not
depend on the order of the answers (`Summing` is the sum over a set the way the fold takes it).
KeptApart is proved of `Sifted` for any points: whoever is removed, of two close ones one is.

*StalkerPool.* `TasksInv` counts the end marks: those on the task queue and the readers that are
out are as many as readers, and on each result queue the last message is a None when all
are out, so the main process can meet the last None only behind all data. `RecordsRight` says that
every record is pending or in exactly one place: with a reader, in a chunk, or collected.
`CountsRight` says it of the counts, of which only the sums are kept: there are a list of files
(`names`, those of the counts on the queue) and a set of files (`C`, those in the totals) without a
file in both. `GroupsRight` is about the sorted table: the groups so far are whole tracks of
different particles, whose rows are all before `istart`, and no particle has rows on both sides
of `istart`. Only one sequence lists a set of rows in order (OneOrder), which is why the slice of a
particle is that of its track. The groups are those of the lowest numbers with rows, as many as there were particles in
the first dump.

*Separatrices.* `EdgesRight` needs to know where the rings are in the list (`RingsInPlace`) and
that connectivity_rings says where the points of the old ring went (`ConnFollows`).
The lemmas say that putting points in is strictly monotonic and that the index after
removals is the number of those kept before it: counting, by the theorems on
finite sets. `LinesInv` adds what an edge that is missing would need: a line number is given once and a ring
has a line once (`LinesOnce`), a point of an older ring that shares its line with the ring has
its successor there (`NothingMissed`, `CompleteTo`), and not_next are exactly the places of the new
ring behind which something was taken out (`GapsMarked`).

*DataCube.* A processor that fills a cell is in no direction beyond the owner of the cell
(`FillsBefore`), so its number is not larger; the directories are read by number, so
the owner comes last (`ReadInOrder`). The assumption on IP is what `mpicomm.f90:573-580` computes in
both of its cases.

*Numbered snapshots.* `FileInv` says what `tsnap.dat` holds in every phase of a step: the next
number and its time, or nothing while the root rewrites it, and that all ranks are in the
same part of the program. `TimeInv` adds that it is ahead of `t` and of the root's
`var.dat`, so a restart, which begins at the time of `var.dat`, goes on counting where the
time says. `WholeInv` is why a snapshot is of one state: no file of a number still to
come exists (`Fresh`), and the ranks that have a file of one number have the same (`Agree`).
What carries it is the barrier at the end of the ghost zones: a rank that passed it knows that
the root has rewritten `tsnap.dat`, so this number is never used again. The same is why nobody
writes `var.dat` of a step before (`SavedAfter`, lemmas NextSaved and AheadOfTime), which
a restart with any `ireset_tstart` needs: it takes the time of one of the `var.dat`. `PythonInv` carries this to the blocks that were
read and the files that were copied: a whole `VARn` does not change any more.
`LostInv` counts numbers that lack a whole file against kills: between two steps all (`Lost`), within a step
those before the number of the step (`Older`), since its own is still being written. A kill within a step loses
at most this one; what was done before `tsnap.dat` was written is done again.

*Migration.* `Protocol` is what the messages rest on: the count of a neighbour is on its way from
when it is sent until it is received (`Told`, `Heard`); what is still to be sent is awaited, and the
receiver is not past the turn of the sender (`Sending`, `Sent`); buffers are empty when
a search begins (`Emptied`). It makes sure that no rows are overwritten or forgotten. `Each`
says of the function from places to their rows that every particle is one row of one place; two
lemmas, one row moved from the end of its place and all rows of a place moved, cover
the three actions that move rows. `Settled` is the invariant for AtHome: every row, wherever it
is, would be handed on well by the search (`Near`); a row that was looked at is at rest, unless
a redo is due (`Rested`); a row in the buffer or in a message is addressed to the rank it
belongs to (`Addressed`). MovedSettles is the arithmetic: a particle that was at rest and moved by less
than a part, wrapped or not, is found by the search, or is the one on the lower edge of the box.

`Limits` is the invariant for WithinLimits. `Buffered`: the rows in the buffer, summed over
the destinations, are no more than `nleave`, which stops at NMig. `Room`: what a rank has and
what is still due to it, summed over the ranks whose turn has not come, fits into MPar; each row that
comes makes the one term larger and the other smaller. `Announced`: what is sent is what was
announced, without which the check before the exchange (`particles_mpicomm.f90:536`) would say nothing about the rows.

Sums over sets are folds, defined by recursion, and the induction theorems of the library cannot
be used. What is needed of them is proved by least counterexamples instead: `<` on the naturals is
well-founded (WellFoundedInduction), so a set of sizes for which a sum is wrong has a smallest
one (lemma `Smallest`).

These strengthened invariants are checked by the proofs; they have no runs of their own.

The hypotheses in the table hold in the runs of the properties. None restricts
the number of ranks, processes, particles, files or steps.

Only model-checked: all liveness (Termination, ErrorKillsAll, AllServed, AllTraced, RunsEnd,
FixedEndsUnlessDied, Ends), which is out of the prover's reach, and the invariants StampsNear and FailsWithoutRows. All other invariants
and action properties of the passing runs, and both refinements, are proved.

## 7. Not modelled, and why

Physics modules, derivatives, time integration, Poisson and Fourier solvers: floating
point numerics without control state. Diagnostics, slices, averages and spectra: output
that follows `it` and `t`. Namelists (`param_io.f90`): parsing; that the root reads and
everybody gets the same is in ReadRunPars. `io_collect`, `io_mpi2`, `io_hdf5`:
alternatives to io_dist with another file layout. `start.x`: a sequential program whose result is
Init. A `tstart` given in `run.in`, which sets the time whatever the files say, and
`noghost_for_isave`. `fatal_error` called by one rank alone, which hangs or not depending
on the MPI library. Within migrate_particles: the version for `start.x` and inserted
particles, where all ranks talk to all, shear, and `lshift_origin`. The ghost zones: which cells are
sent where is arithmetic on index ranges of ranks in lock step. Block-wise particles: a load
balancer as large as all that is modelled. `getconf.csh` and `run.csh`: shell around one job.

Of Python: the field lines, null points and derived quantities are floating point. The
readers of time series, averages, slices, parameters and grids, the conversion to VTK,
`remesh` and the objects of simulations each go once through finished files and have no
state that two steps could disagree about. By reading: a time series whose last line is
torn may be taken for a whole one (`read/ts.py:127-134`); `get_ts` and `get_T_last` of a simulation call each
other (`sim/simulation.py:544,649`); averages of processors that are missing are left zero (`read/averages.py:201-206`). IDL and
Julia scripts, the build system and the samples are not part of a run.

## 8. What could follow

1. `fatal_error` on one rank in RunLoop; the `start.x` version of Migration.
2. The ghost zones with the reference definition of what a ghost cell must hold,
   and the block-wise particles.
3. Proofs: StampsNear and FailsWithoutRows, and safety parts
   of the liveness properties (nobody waits for a message nobody will send).
