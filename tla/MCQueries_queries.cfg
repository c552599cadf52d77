\* Every endpoint, asked by an administrator, the observer and another one.
SPECIFICATION Spec
CONSTANT None = None
INVARIANT AnswersInv
INVARIANT AccessInv
INVARIANT UploadedReadable
