SPECIFICATION Spec
INVARIANT CancelledIsStopped
