SPECIFICATION Spec
INVARIANT SuperAsAsked
