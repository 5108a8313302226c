SPECIFICATION Spec
INVARIANT StoppedEjectStaysStopped
