\* Two observed variables and a counter; the shell and the work queue write,
\* both of them count.
SPECIFICATION FairSpec
CONSTANTS
  peak = peak  alert = alert  samples = samples
  on_peak = on_peak  on_alert = on_alert  ims_work = ims_work
  main = main  shell = shell
  NoWork = NoWork
  WorkQueue = WorkQueue
  Var = {peak, alert, samples}
  Counter = {samples}
  Observer = {on_peak, on_alert}
  Sampler = {ims_work}
  Thread = {shell}
  Incrementer = {shell, WorkQueue}
  Value = {0, 1}
  MaxWrites = 3
INVARIANTS
  TypeOK
  NoLostChange
PROPERTY
  Notifies
