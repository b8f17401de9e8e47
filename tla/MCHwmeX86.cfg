SPECIFICATION Spec
INVARIANT ExpectedIsReference
